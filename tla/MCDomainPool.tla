---------------------------- MODULE MCDomainPool ----------------------------
(* Three domains, two calls to the solver at a time, and a solver that may *)
(* answer each of them with anything: too few candidates, one twice, a     *)
(* seat twice, another domain's candidate or seat, or the wrong hall.      *)
EXTENDS DomainPool

CONSTANTS c1, c2, c3, c4, c5, s1, s2, s3, s4, s5, h1, h2, h3

MCCandidatesOf == <<{c1, c2}, {c3}, {c4}>>

MCSeatsOf == <<{s1, s2}, {s3}, {s4, s5}>>

MCHallOf == s1 :> h1 @@ s2 :> h1 @@ s3 :> h2 @@ s4 :> h3 @@ s5 :> h3

Assign(c, s, h) == [candidate |-> c, seat |-> s, hall |-> h]

Solutions ==
  {<<Assign(c1, s1, h1), Assign(c2, s2, h1)>>,    \* good for domain 1
   <<Assign(c1, s1, h1), Assign(c2, s1, h1)>>,    \* a seat twice
   <<Assign(c2, s2, h1), Assign(c2, s1, h1)>>,    \* a candidate twice
   <<Assign(c1, s1, h1)>>,                        \* one is missing
   <<Assign(c3, s3, h2)>>,                        \* good for domain 2
   <<Assign(c3, s3, h1)>>,                        \* under the wrong hall
   <<Assign(c3, s2, h1)>>,                        \* on a seat of domain 1
   <<Assign(c4, s4, h3)>>,                        \* good for domain 3
   <<Assign(c4, s4, h3), Assign(c3, s5, h3)>>,    \* and one of domain 2
   <<Assign(c4, s5, h3), Assign(c5, s4, h3)>>}    \* and one of no domain

Solved(as, ok) ==
  [status |-> "FEASIBLE", assignments |-> as, consistent |-> ok, code |-> "none"]

(* An ERROR comes with the solver's code: none, or the very code that the
   caller tests for. *)
Unsolved(t, code) ==
  [status |-> t, assignments |-> << >>, consistent |-> FALSE, code |-> code]

MCAnswers ==
  {Solved(as, TRUE) : as \in Solutions}
    \cup {Solved(<<Assign(c3, s3, h2)>>, FALSE)}
    \cup {Unsolved("INFEASIBLE", "none"), Unsolved("ERROR", "none"),
           Unsolved("ERROR", "ERR_DOMAIN_INFEASIBLE")}
=============================================================================
