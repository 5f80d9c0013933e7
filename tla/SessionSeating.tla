---------------------------- MODULE SessionSeating ----------------------------
(***************************************************************************)
(* What one generation promises about an exam session: all or nothing.     *)
(* Either every candidate of the session gets exactly one place in the     *)
(* part of the building it was allocated to, no place is given twice, and  *)
(* that complete seating is handed to persistence; or nothing is.  The     *)
(* generation does come to a verdict.                                      *)
(***************************************************************************)
CONSTANTS
  Candidates,       \* the session
  AllowedPlaces(_)  \* the places, seats of a hall, a candidate may be given

VARIABLES verdict, seating

vars == <<verdict, seating>>

IsSeating(s) ==
  /\ {x.candidate : x \in s} = Candidates
  /\ \A x \in s : x.place \in AllowedPlaces(x.candidate)
  /\ \A x, y \in s : x.candidate = y.candidate \/ x.place = y.place => x = y

Init == verdict = "open" /\ seating = {}

Seat == verdict = "open" /\ verdict' = "seated" /\ IsSeating(seating')

Refuse == verdict = "open" /\ verdict' = "refused" /\ UNCHANGED seating

Next == Seat \/ Refuse

AllOrNothing == Init /\ [][Next]_vars

ComesToAVerdict == <>(verdict # "open")

Spec == AllOrNothing /\ ComesToAVerdict
=============================================================================
