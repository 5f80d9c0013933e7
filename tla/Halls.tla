-------------------------------- MODULE Halls --------------------------------
(***************************************************************************)
(* The rows of halls, benches and hall seats, the administrators' requests *)
(* that write them (src/src/services/hall.service.ts, bench.service.ts),   *)
(* cut at their database calls, and the generations that read them         *)
(* (buildSolverInput).                                                     *)
(*                                                                         *)
(* Seats are made with their hall and never move to another; neither does  *)
(* a bench.  Names, numbers and grids are left out: a rename changes none  *)
(* of the columns below, and the unique index on bench numbers may refuse  *)
(* any insert.                                                             *)
(***************************************************************************)
EXTENDS FiniteSets

CONSTANTS
  Hall, Seat, Bench, NoBench,
  SeatHall, BenchHall,   \* the hall a seat or a bench is made for
  Existing,              \* halls made before
  Request,
  Operation              \* what the requests ask for

AllOperations ==
  [kind : {"createHall"}, hall : Hall]
    \cup [kind : {"updateHall"}, hall : Hall, isActive : BOOLEAN]
    \cup [kind : {"createBench", "updateBench", "setBenchActive"}, bench : Bench,
          isActive : BOOLEAN]
    \cup [kind : {"assign", "remove"}, bench : Bench, seat : Seat]

NoOperation == [kind |-> "none"]

(* What is left of an operation once it is written. *)
Written(o) == [kind |-> o.kind]

ASSUME HallsAssumption ==
  /\ NoBench \notin Bench
  /\ SeatHall \in [Seat -> Hall]
  /\ BenchHall \in [Bench -> Hall]
  /\ Existing \subseteq Hall
  /\ Operation \subseteq AllOperations

VARIABLES
  hall,      \* hall -> "none", "active", "inactive"
  bench,     \* bench -> the same
  member,    \* hall_seats.bench_id
  isActive,  \* hall_seats.is_active
  step,      \* request -> where it stands
  op,        \* request -> what it asks for
  retired    \* history: seats that were in a bench when it was decommissioned

tables == <<hall, bench, member, isActive, retired>>
requests == <<step, op>>
hallVars == <<tables, requests>>

RowStatus == {"none", "active", "inactive"}
Steps == {"idle", "read", "seat", "write", "written"}

TypeOK ==
  /\ hall \in [Hall -> RowStatus]
  /\ bench \in [Bench -> RowStatus]
  /\ member \in [Seat -> Bench \cup {NoBench}]
  /\ isActive \in [Seat -> BOOLEAN]
  /\ step \in [Request -> Steps]
  /\ op \in [Request -> Operation \cup {Written(o) : o \in Operation \cup {NoOperation}}]
  /\ retired \subseteq Seat

(* Some halls without benches, nobody asking for anything. *)
Init ==
  /\ hall = [h \in Hall |-> IF h \in Existing THEN "active" ELSE "none"]
  /\ bench = [b \in Bench |-> "none"]
  /\ member = [s \in Seat |-> NoBench]
  /\ isActive = [s \in Seat |-> SeatHall[s] \in Existing]
  /\ step = [r \in Request |-> "idle"]
  /\ op = [r \in Request |-> NoOperation]
  /\ retired = {}

Status(active) == IF active THEN "active" ELSE "inactive"
Members(b) == {s \in Seat : member[s] = b}

Goto(r, s) == step' = [step EXCEPT ![r] = s] /\ UNCHANGED op

-----------------------------------------------------------------------------
(* Requests.                                                               *)

(* Everything but createHall looks its hall or bench up first. *)
Begin(r, o) ==
  /\ step[r] = "idle"
  /\ op' = [op EXCEPT ![r] = o]
  /\ step' = [step EXCEPT ![r] = IF o.kind = "createHall" THEN "write" ELSE "read"]
  /\ UNCHANGED tables

Found(o) ==
  CASE o.kind = "updateHall"  -> hall[o.hall] # "none"
    [] o.kind = "createBench" -> hall[BenchHall[o.bench]] # "none"
    [] o.kind \in {"updateBench", "setBenchActive", "assign", "remove"}
                              -> bench[o.bench] # "none"

LookUp(r) ==
  /\ step[r] = "read"
  /\ Found(op[r])
  /\ Goto(r, IF op[r].kind \in {"assign", "remove"} THEN "seat" ELSE "write")
  /\ UNCHANGED tables

(* Mutant: the relation alone is trusted to keep benches within halls. *)
MayPairAcrossHalls(o) ==
  /\ hall[SeatHall[o.seat]] # "none"
  /\ o.kind = "remove" => member[o.seat] = o.bench

(* HALL_SEAT_NOT_FOUND, BENCH_SEAT_HALL_MISMATCH, BENCH_SEAT_NOT_ASSIGNED. *)
MayPair(o) ==
  /\ hall[SeatHall[o.seat]] # "none"
  /\ SeatHall[o.seat] = BenchHall[o.bench]
  /\ o.kind = "remove" => member[o.seat] = o.bench

LookUpSeat(r) ==
  /\ step[r] = "seat"
  /\ MayPair(op[r])
  /\ Goto(r, "write")
  /\ UNCHANGED tables

(* The hall and all of its seats, in one transaction. *)
CreateHall(o) ==
  /\ o.kind = "createHall"
  /\ hall[o.hall] = "none"
  /\ hall' = [hall EXCEPT ![o.hall] = "active"]
  /\ isActive' = [s \in Seat |-> isActive[s] \/ SeatHall[s] = o.hall]
  /\ UNCHANGED <<bench, member, retired>>

UpdateHall(o) ==
  /\ o.kind = "updateHall"
  /\ hall' = [hall EXCEPT ![o.hall] = Status(o.isActive)]
  /\ UNCHANGED <<bench, member, isActive, retired>>

CreateBench(o) ==
  /\ o.kind = "createBench"
  /\ bench[o.bench] = "none"
  /\ bench' = [bench EXCEPT ![o.bench] = Status(o.isActive)]
  /\ UNCHANGED <<hall, member, isActive, retired>>

(* PATCH /benches/:id: the row and nothing else. *)
UpdateBench(o) ==
  /\ o.kind = "updateBench"
  /\ bench' = [bench EXCEPT ![o.bench] = Status(o.isActive)]
  /\ UNCHANGED <<hall, member, isActive, retired>>

(* Mutant: the seats follow the bench both ways. *)
SetBenchActiveBothWays(o) ==
  /\ o.kind = "setBenchActive"
  /\ bench' = [bench EXCEPT ![o.bench] = Status(o.isActive)]
  /\ isActive' = [s \in Seat |-> IF member[s] = o.bench THEN o.isActive ELSE isActive[s]]
  /\ retired' = IF o.isActive THEN retired ELSE retired \cup Members(o.bench)
  /\ UNCHANGED <<hall, member>>

(* The bench and, when it is deactivated, its seats, in one transaction. *)
SetBenchActive(o) ==
  /\ o.kind = "setBenchActive"
  /\ bench' = [bench EXCEPT ![o.bench] = Status(o.isActive)]
  /\ IF o.isActive
     THEN UNCHANGED <<isActive, retired>>
     ELSE /\ isActive' = [s \in Seat |-> isActive[s] /\ member[s] # o.bench]
          /\ retired' = retired \cup Members(o.bench)
  /\ UNCHANGED <<hall, member>>

(* Both update the seat by its id alone. *)
Pair(o) ==
  /\ o.kind \in {"assign", "remove"}
  /\ member' = [member EXCEPT ![o.seat] = IF o.kind = "assign" THEN o.bench ELSE NoBench]
  /\ UNCHANGED <<hall, bench, isActive, retired>>

Write(r) ==
  /\ step[r] = "write"
  /\ \/ CreateHall(op[r]) \/ UpdateHall(op[r]) \/ CreateBench(op[r])
     \/ UpdateBench(op[r]) \/ SetBenchActive(op[r]) \/ Pair(op[r])
  /\ step' = [step EXCEPT ![r] = "written"]
  /\ op' = [op EXCEPT ![r] = Written(op[r])]

Handler(r) == LookUp(r) \/ LookUpSeat(r) \/ Write(r)

Ends(r) ==
  /\ step' = [step EXCEPT ![r] = "idle"]
  /\ op' = [op EXCEPT ![r] = NoOperation]
  /\ UNCHANGED tables

(* The audit row is inserted, the answer read back and sent. *)
Acknowledge(r) == step[r] = "written" /\ Ends(r)

(* The client is told of an error: a row was not found (HALL_NOT_FOUND,
   BENCH_NOT_FOUND, and MayPair's), a unique index refused another, or a
   call failed, be it one of those after the write. *)
Fail(r) == step[r] # "idle" /\ Ends(r)

-----------------------------------------------------------------------------
(* buildSolverInput: what its second query, for the active seats of the    *)
(* halls the first one found, reads now.                                   *)
SolverSeats(hallsRead) == {s \in Seat : SeatHall[s] \in hallsRead /\ isActive[s]}

-----------------------------------------------------------------------------
(* "the DB relation alone cannot prevent a seat from another hall being
   attached to this bench": assignSeatToBench does, in every interleaving. *)
SeatStaysInHall ==
  \A s \in Seat :
    member[s] # NoBench => /\ BenchHall[member[s]] = SeatHall[s]
                           /\ bench[member[s]] # "none"

(* A seat whose bench was decommissioned is in no solver input read later,
   whatever halls are found, whatever bench it is moved to and however
   benches are reactivated. *)
DecommissionedStaysOut ==
  \A hallsRead \in SUBSET Hall : SolverSeats(hallsRead) \cap retired = {}
=============================================================================
