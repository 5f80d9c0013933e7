---------------------------- MODULE PlanLifecycle ----------------------------
(***************************************************************************)
(* What the seating plans of an exam promise to someone who makes one      *)
(* request at a time: a growing list of versions of which only the last    *)
(* can be alive, moved one PLAN_TRANSITIONS edge at a time.  A request     *)
(* that stops half-way changes nothing.                                    *)
(***************************************************************************)
EXTENDS Naturals, Sequences

VARIABLE plans    \* plans[n]: the status of version n

Init == plans = << >>

(* createPlan, and the transaction of a successful generation. *)
NewVersion ==
  LET n == Len(plans) IN
  plans' = Append([v \in 1 .. n |-> IF v = n THEN "SUPERSEDED" ELSE plans[v]],
                  "DRAFT")

(* approvePlan, publishPlan and supersedePlan of the newest version. *)
MoveNewest(from, to) ==
  /\ plans # << >>
  /\ plans[Len(plans)] \in from
  /\ plans' = [plans EXCEPT ![Len(plans)] = to]

Next ==
  \/ NewVersion
  \/ MoveNewest({"DRAFT"}, "APPROVED")
  \/ MoveNewest({"APPROVED"}, "PUBLISHED")
  \/ MoveNewest({"DRAFT", "APPROVED", "PUBLISHED"}, "SUPERSEDED")

Spec == Init /\ [][Next]_plans
=============================================================================
