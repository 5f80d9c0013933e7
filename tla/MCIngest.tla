------------------------------- MODULE MCIngest -------------------------------
(* Two uploads of two files that share a student; d2 has a row that matches *)
(* nobody.                                                                  *)
EXTENDS Ingest, TLC

CONSTANTS d1, d2, s1, s2

MCRows == d1 :> {s1, s2} @@ d2 :> {s2}

MCBlocked == {d2}

Symmetry == Permutations(Upload)
=============================================================================
