--------------------------- MODULE MCSolverService ---------------------------
(* A hall of two by three seats and a bench of two, most of them inactive; *)
(* two departments, a class of each and one that spans both, two years and *)
(* a candidate without one; every policy, adjacency, action and scope on a *)
(* whole hall, on one that falls apart, and on one with too few seats.     *)
EXTENDS SolverService

MCGrid == <<<<2, 3>>, <<1, 2>>>>

MCDepartment == <<1, 1, 2, 2, 1>>
MCClass == <<1, 2, 3, 3, 3>>
MCYear == <<"y1", "y2", "y1", "y2", "<none>">>
MCHallCode == <<2, 1>>
MCRegisterCode == <<2, 1, 5, 3, 4>>
MCLimits == [department |-> 6, year |-> 7, cohort |-> 5, empty |-> 8]

Square == {<<1, r, c>> : r \in 0 .. 1, c \in 1 .. 2}
Corner == {<<1, 0, 1>>, <<1, 1, 2>>}
Ends == {<<1, 0, 1>>, <<1, 0, 3>>, <<1, 1, 3>>}
Bench == {<<2, 0, 1>>, <<2, 0, 2>>}

Groups == {{}, {5}, {1, 3}, {3, 4}, {1, 3, 5}, {1, 2, 3}, {1, 2, 3, 4}}

Defaults ==
  [token |-> TRUE, inTime |-> TRUE, route |-> "solve", scope |-> "class",
   policy |-> "DEPARTMENT_ONLY", adjacency |-> "eight", action |-> "warn"]

Ask(C, seats) == [candidates |-> C, seats |-> seats] @@ Defaults

ClassRequests ==
  {[Ask(C, seats) EXCEPT !.scope = scope] :
     C \in Groups \cup {{1, 4, 5}}, seats \in {Square, Ends, Corner \cup Bench},
     scope \in {"class", "department"}}

LabelRequests ==
  {[Ask(C, seats) EXCEPT !.route = route, !.policy = policy,
                         !.adjacency = mode, !.action = action] :
     C \in Groups, seats \in {Square, Corner, Ends, Corner \cup Bench},
     route \in {"solve-domain", "partitioned"},
     policy \in {"DEPARTMENT_ONLY", "STRICT_DEPT_OR_YEAR", "COHORT"},
     mode \in {"eight", "cardinal"}, action \in {"warn", "reject"}}

RefusedRequests ==
  {[Ask({1, 3}, Square) EXCEPT !.route = route, !.token = token, !.inTime = inTime] :
     route \in {"solve", "solve-domain"}, token \in BOOLEAN, inTime \in BOOLEAN}

MCRequests == ClassRequests \cup LabelRequests \cup RefusedRequests
=============================================================================
