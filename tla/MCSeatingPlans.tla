--------------------------- MODULE MCSeatingPlans ---------------------------
(* Overlapping requests on the plans of one exam. *)
EXTENDS SeatingPlans, TLC

Symmetry == Permutations(PlanId) \cup Permutations(Request)
=============================================================================
