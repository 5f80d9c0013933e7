CONSTANTS
  PlanId = {p1, p2}
  NoPlan = NoPlan
  JobId = {j1, j2, j3}
  NoJob = NoJob
  Runner = {g1, g2, g3}
  Admin = {a1}
  Operator = {}
  Reaping = FALSE
  Outcomes = {"solved", "infeasible", "rejected", "mergeInvalid", "threw"}
  Faults = TRUE
SPECIFICATION Spec
SYMMETRY Symmetry
INVARIANTS
  SingleFlight
  VersionsNeverCollide
PROPERTIES
  JobsFollowTable
CHECK_DEADLOCK FALSE
