CONSTANTS
  PlanId = {p1, p2}
  NoPlan = NoPlan
  JobId = {j1, j2}
  NoJob = NoJob
  Runner = {g1, g2}
  Admin = {}
  Operator = {o1}
  Reaping = TRUE
  Outcomes = {"solved", "infeasible", "rejected", "mergeInvalid", "threw"}
  Faults = TRUE
SPECIFICATION Spec
SYMMETRY Symmetry
INVARIANTS
  VerdictMatchesPlans
  OneVersionPerJob
  OneActiveJob
  VerdictsWereStarted
CHECK_DEADLOCK FALSE
