----------------------------- MODULE MCPartition -----------------------------
(* A hall of 2 by 3 seats and a bench of two, with any of the seats        *)
(* inactive; sessions of none to six candidates of two departments; the    *)
(* product's calls, with the action "reject" where its default is "warn",  *)
(* and the calls with cardinal adjacency or a configured edge between the  *)
(* halls, which only the tests make.  The register numbers of 4 and 6 sort *)
(* the other way round by code points.                                     *)
EXTENDS PartitionMirror

MCGrid == <<<<2, 3>>, <<1, 2>>>>

MCDepartment == <<1, 1, 2, 1, 2, 1>>
MCYear == <<"y1", "y2", "y1", "y1", "y1", "y1">>
MCHallCode == <<1, 2>>
MCRegisterCode == <<1, 2, 3, 6, 5, 4>>
MCLimits == [department |-> 6, year |-> 7, cohort |-> 5, empty |-> 8]

Sessions == {{}, {1}, {1, 2, 3}, {1, 2, 4, 6}, {1, 2, 3, 4, 5}, 1 .. 6}

Calls(seats, modes, cross, actions, solvers) ==
  [seats : seats, adjacency : modes, cross : cross, candidates : Sessions,
   action : actions, solver : solvers]

Product == Calls(SUBSET AllSeats, {"eight"}, {{}}, {"reject"}, {"eight"})

MCInputs ==
  Product
    \cup Calls(SUBSET AllSeats, {"cardinal"}, {{}}, {"warn"}, {"cardinal"})
    \cup Calls(SUBSET AllSeats, {"eight"}, {{<<<<1, 0, 3>>, <<2, 0, 1>>>>}},
               {"warn"}, {"eight"})
=============================================================================
