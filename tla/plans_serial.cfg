CONSTANTS
  PlanId = {p1, p2, p3, p4}
  NoPlan = NoPlan
  Request = {r1}
SPECIFICATION Spec
INVARIANTS
  OnlyNewestAlive
PROPERTIES
  LegalTransitions
  ImplementsLifecycle
CHECK_DEADLOCK FALSE
