---------------------------- MODULE MCGeneration ----------------------------
(* Generations of one exam. *)
EXTENDS Generation, TLC

Symmetry == Permutations(PlanId) \cup Permutations(JobId) \cup Permutations(Runner)
=============================================================================
