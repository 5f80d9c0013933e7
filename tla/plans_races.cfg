CONSTANTS
  PlanId = {p1, p2, p3}
  NoPlan = NoPlan
  Request = {r1, r2, r3}
SPECIFICATION Spec
SYMMETRY Symmetry
INVARIANTS
  TypeOK
  OnePublished
  VersionChain
  ApprovalGatesPublication
CHECK_DEADLOCK FALSE
