SPECIFICATION Spec
SYMMETRY Symmetry
CHECK_DEADLOCK FALSE
CONSTANTS
  h1 = h1
  h2 = h2
  s1 = s1
  b1 = b1
  b2 = b2
  s2 = s2
  Hall = {h1, h2}
  Seat = {s1, s2}
  Bench = {b1, b2}
  NoBench = NoBench
  SeatHall <- MCSeatHall
  BenchHall <- MCBenchHall
  Existing = {h1}
  Request = {r1, r2}
  Operation <- MCOperation
  Page = {"page"}
  PageOf <- MCPageOf
INVARIANTS
  SeatStaysInHall
  DecommissionedStaysOut
  ShowsOwnChanges
