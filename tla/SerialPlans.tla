----------------------------- MODULE SerialPlans -----------------------------
(* One request at a time: the plans implement PlanLifecycle. *)
EXTENDS SeatingPlans

(* The statuses in version order. *)
Versions ==
  [v \in 1 .. Cardinality(Existing) |->
     status[CHOOSE p \in Existing : version[p] = v]]

Lifecycle == INSTANCE PlanLifecycle WITH plans <- Versions

(* A lone request takes the exam's plans through exactly the steps of the
   abstract lifecycle: publishPlan's demotion never finds a plan to demote,
   and a request that is abandoned half-way leaves the list as it was. *)
ImplementsLifecycle == Lifecycle!Spec
=============================================================================
