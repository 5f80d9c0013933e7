SPECIFICATION SpecService
CHECK_DEADLOCK FALSE
CONSTANTS
  Grid <- MCGrid
  Candidates = {1, 2, 3, 4, 5}
  Department <- MCDepartment
  Year <- MCYear
  Class <- MCClass
  Limits <- MCLimits
  HallCode <- MCHallCode
  RegisterCode <- MCRegisterCode
  Ceiling = 3
  Requests <- MCRequests
INVARIANTS
  SolvedIsComplete
  SolvedObeysRule
  ValidatorAgrees
  InfeasibleIsProven
  OptimalIsBest
