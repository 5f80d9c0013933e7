CONSTANTS
  c1 = c1
  c2 = c2
  c3 = c3
  c4 = c4
  c5 = c5
  s1 = s1
  s2 = s2
  s3 = s3
  s4 = s4
  s5 = s5
  h1 = h1
  h2 = h2
  h3 = h3
  NDomains = 3
  MaxParallel = 2
  CandidatesOf <- MCCandidatesOf
  SeatsOf <- MCSeatsOf
  HallOf <- MCHallOf
  Answers <- MCAnswers
SPECIFICATION Spec
INVARIANTS
  PoolBookkeeping
  VerdictCoversAllDomains
  InfeasibleIsTheFirstFailure
PROPERTIES
  SeatsAllOrNothing
  ComesToAVerdict
CHECK_DEADLOCK FALSE
