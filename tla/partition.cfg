SPECIFICATION Spec
CHECK_DEADLOCK FALSE
CONSTANTS
  Grid <- MCGrid
  Candidates = {1, 2, 3, 4, 5, 6}
  Department <- MCDepartment
  Year <- MCYear
  Limits <- MCLimits
  HallCode <- MCHallCode
  RegisterCode <- MCRegisterCode
  MaxDomainCandidates = 4
  Ceiling = 4
  Inputs <- MCInputs
INVARIANTS
  GroupsAreComponents
  DispatchedIsPartition
  BlockedOnlyWhenItMust
  AllocationIsBalanced
  DispatchedIsSolvable
  AllocationsMirror
