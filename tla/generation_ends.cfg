CONSTANTS
  PlanId = {p1, p2}
  NoPlan = NoPlan
  JobId = {j1, j2}
  NoJob = NoJob
  Runner = {g1, g2}
  Admin = {}
  Operator = {o1}
  Reaping = TRUE
  Outcomes = {"solved", "infeasible", "rejected"}
  Faults = FALSE
SPECIFICATION FairSpec
PROPERTIES
  JobsEnd
CHECK_DEADLOCK FALSE
