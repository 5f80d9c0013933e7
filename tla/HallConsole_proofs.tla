------------------------- MODULE HallConsole_proofs -------------------------
(***************************************************************************)
(* Any number of requests on any number of halls, benches and seats keep   *)
(* the seats within their halls and the decommissioned ones out of the     *)
(* solver's input; any number of pages show their own changes.             *)
(*                                                                         *)
(* RequestsKnow says what a request has established by its reads and can   *)
(* still rely on when it writes: rows are never deleted.  Pages are        *)
(* independent of the tables: PagesCatchUp says why a page that shows      *)
(* something old is not at rest.                                           *)
(***************************************************************************)
EXTENDS HallConsole, TLAPS

RequestsKnow ==
  \A r \in Request :
    /\ step[r] \in {"read", "seat", "write"} => op[r] \in Operation
    /\ step[r] = "seat" =>
         /\ op[r].kind \in {"assign", "remove"}
         /\ bench[op[r].bench] # "none"
    /\ step[r] = "write" /\ op[r].kind = "assign" =>
         /\ bench[op[r].bench] # "none"
         /\ hall[SeatHall[op[r].seat]] # "none"
         /\ SeatHall[op[r].seat] = BenchHall[op[r].bench]

(* A seat in a bench or decommissioned has been made with its hall; nothing
   reactivates a decommissioned one. *)
SeatsOfHalls ==
  \A s \in Seat :
    /\ member[s] # NoBench \/ s \in retired => hall[SeatHall[s]] # "none"
    /\ s \in retired => ~isActive[s]

TablesInv == TypeOK /\ RequestsKnow /\ SeatStaysInHall /\ SeatsOfHalls

-----------------------------------------------------------------------------
(* What the fields of an operation are, by its kind. *)
LEMMA Operations ==
  ASSUME NEW o \in Operation
  PROVE  /\ o.kind \in {"createHall", "updateHall", "createBench", "updateBench",
                        "setBenchActive", "assign", "remove"}
         /\ o.kind \in {"createHall", "updateHall"} => o.hall \in Hall
         /\ o.kind \notin {"createHall", "updateHall"} => o.bench \in Bench
         /\ o.kind \in {"updateHall", "updateBench", "setBenchActive"} => o.isActive \in BOOLEAN
         /\ o.kind \in {"assign", "remove"} => o.seat \in Seat
<1>1. o \in AllOperations
  BY HallsAssumption
<1> QED
  BY <1>1 DEF AllOperations

LEMMA NothingWritten == NoOperation = Written(NoOperation)
  BY DEF Written, NoOperation

LEMMA InitTables == Init => TablesInv
<1> SUFFICES ASSUME Init PROVE TablesInv
  OBVIOUS
<1>1. TypeOK
  BY NothingWritten DEF Init, TypeOK, RowStatus, Steps
<1>2. RequestsKnow /\ SeatStaysInHall /\ SeatsOfHalls
  BY DEF Init, RequestsKnow, SeatStaysInHall, SeatsOfHalls
<1> QED
  BY <1>1, <1>2 DEF TablesInv

(* Everything about the tables is kept by a step of a request that leaves
   them alone, if the request knows what its next step relies on. *)
LEMMA RequestMoves ==
  ASSUME TablesInv, NEW r \in Request, NEW next \in Steps,
         NEW o \in Operation \cup {Written(x) : x \in Operation \cup {NoOperation}},
         step' = [step EXCEPT ![r] = next], op' = [op EXCEPT ![r] = o],
         UNCHANGED tables,
         next \in {"read", "seat", "write"} => o \in Operation,
         next = "seat" => /\ o.kind \in {"assign", "remove"}
                          /\ bench[o.bench] # "none",
         next = "write" /\ o.kind = "assign" =>
           /\ bench[o.bench] # "none"
           /\ hall[SeatHall[o.seat]] # "none"
           /\ SeatHall[o.seat] = BenchHall[o.bench]
  PROVE  TablesInv'
<1>1. TypeOK'
  BY DEF TablesInv, TypeOK, tables
<1>2. RequestsKnow'
  BY DEF TablesInv, TypeOK, RequestsKnow, tables
<1>3. SeatStaysInHall' /\ SeatsOfHalls'
  BY DEF TablesInv, SeatStaysInHall, SeatsOfHalls, tables
<1> QED
  BY <1>1, <1>2, <1>3 DEF TablesInv

LEMMA BeginKeeps ==
  ASSUME TablesInv, NEW r \in Request, NEW o \in Operation, Begin(r, o)
  PROVE  TablesInv'
  BY RequestMoves DEF Begin, Steps

LEMMA LookUpKeeps ==
  ASSUME TablesInv, NEW r \in Request, LookUp(r)
  PROVE  TablesInv'
<1>1. op[r] \in Operation /\ step[r] = "read"
  BY DEF LookUp, TablesInv, RequestsKnow
<1>2. op' = [op EXCEPT ![r] = op[r]]
  BY DEF LookUp, Goto, TablesInv, TypeOK
<1>3. CASE op[r].kind \in {"assign", "remove"}
  <2>1. bench[op[r].bench] # "none"
    BY <1>3 DEF LookUp, Found
  <2> QED
    BY <1>1, <1>2, <1>3, <2>1, RequestMoves DEF LookUp, Goto, Steps
<1>4. CASE op[r].kind \notin {"assign", "remove"}
  BY <1>1, <1>2, <1>4, RequestMoves DEF LookUp, Goto, Steps
<1> QED
  BY <1>3, <1>4

LEMMA LookUpSeatKeeps ==
  ASSUME TablesInv, NEW r \in Request, LookUpSeat(r)
  PROVE  TablesInv'
<1>1. op[r] \in Operation /\ step[r] = "seat" /\ bench[op[r].bench] # "none"
  BY DEF LookUpSeat, TablesInv, RequestsKnow
<1>2. op' = [op EXCEPT ![r] = op[r]]
  BY DEF LookUpSeat, Goto, TablesInv, TypeOK
<1> QED
  BY <1>1, <1>2, RequestMoves DEF LookUpSeat, Goto, MayPair, Steps

LEMMA EndsKeeps ==
  ASSUME TablesInv, NEW r \in Request, Ends(r)
  PROVE  TablesInv'
  BY NothingWritten, RequestMoves DEF Ends, Steps

-----------------------------------------------------------------------------
(* A write of operation o, given what the request knows. *)
Known(o) ==
  /\ o \in Operation
  /\ o.kind = "assign" =>
       /\ bench[o.bench] # "none"
       /\ hall[SeatHall[o.seat]] # "none"
       /\ SeatHall[o.seat] = BenchHall[o.bench]

(* Rows stay: a hall or a bench that exists exists afterwards. *)
RowsStay ==
  /\ \A h \in Hall : hall[h] # "none" => hall'[h] # "none"
  /\ \A b \in Bench : bench[b] # "none" => bench'[b] # "none"

TablesTypeOK ==
  /\ hall \in [Hall -> RowStatus]
  /\ bench \in [Bench -> RowStatus]
  /\ member \in [Seat -> Bench \cup {NoBench}]
  /\ isActive \in [Seat -> BOOLEAN]
  /\ retired \subseteq Seat

TablesKept == TablesTypeOK' /\ RowsStay /\ SeatStaysInHall' /\ SeatsOfHalls'

LEMMA CreateHallKeeps ==
  ASSUME TablesInv, NEW o, Known(o), CreateHall(o)
  PROVE  TablesKept
<1>1. o.hall \in Hall
  BY Operations DEF Known, CreateHall
<1>2. TablesTypeOK' /\ RowsStay
  BY <1>1 DEF TablesInv, TypeOK, TablesTypeOK, RowsStay, CreateHall, RowStatus
<1>3. SeatStaysInHall'
  BY DEF TablesInv, SeatStaysInHall, CreateHall
<1>4. SeatsOfHalls'
  BY <1>1, HallsAssumption DEF TablesInv, TypeOK, SeatsOfHalls, CreateHall
<1> QED
  BY <1>2, <1>3, <1>4 DEF TablesKept

LEMMA UpdateHallKeeps ==
  ASSUME TablesInv, NEW o, Known(o), UpdateHall(o)
  PROVE  TablesKept
<1>1. o.hall \in Hall
  BY Operations DEF Known, UpdateHall
<1>2. TablesTypeOK' /\ RowsStay
  BY <1>1 DEF TablesInv, TypeOK, TablesTypeOK, RowsStay, UpdateHall, RowStatus, Status
<1>3. SeatStaysInHall'
  BY DEF TablesInv, SeatStaysInHall, UpdateHall
<1>4. SeatsOfHalls'
  BY <1>1, HallsAssumption DEF TablesInv, TypeOK, SeatsOfHalls, UpdateHall, Status
<1> QED
  BY <1>2, <1>3, <1>4 DEF TablesKept

LEMMA BenchRowKeeps ==
  ASSUME TablesInv, NEW o, Known(o), CreateBench(o) \/ UpdateBench(o)
  PROVE  TablesKept
<1>1. o.bench \in Bench
  BY Operations DEF Known, CreateBench, UpdateBench
<1>2. TablesTypeOK' /\ RowsStay
  BY <1>1 DEF TablesInv, TypeOK, TablesTypeOK, RowsStay, CreateBench, UpdateBench,
     RowStatus, Status
<1>3. SeatStaysInHall'
  BY <1>2 DEF TablesInv, TypeOK, SeatStaysInHall, RowsStay, CreateBench, UpdateBench
<1>4. SeatsOfHalls'
  BY DEF TablesInv, SeatsOfHalls, CreateBench, UpdateBench
<1> QED
  BY <1>2, <1>3, <1>4 DEF TablesKept

LEMMA SetBenchActiveKeeps ==
  ASSUME TablesInv, NEW o, Known(o), SetBenchActive(o)
  PROVE  TablesKept
<1>1. o.bench \in Bench /\ o.isActive \in BOOLEAN
  BY Operations DEF Known, SetBenchActive
<1>2. TablesTypeOK' /\ RowsStay
  BY <1>1 DEF TablesInv, TypeOK, TablesTypeOK, RowsStay, SetBenchActive, RowStatus,
     Status, Members
<1>3. SeatStaysInHall'
  BY <1>2 DEF TablesInv, TypeOK, SeatStaysInHall, RowsStay, SetBenchActive
<1>4. SeatsOfHalls'
  BY <1>1, HallsAssumption DEF TablesInv, TypeOK, SeatsOfHalls, SetBenchActive, Members
<1> QED
  BY <1>2, <1>3, <1>4 DEF TablesKept

LEMMA PairKeeps ==
  ASSUME TablesInv, NEW o, Known(o), Pair(o)
  PROVE  TablesKept
<1>1. o.bench \in Bench /\ o.seat \in Seat
  BY Operations DEF Known, Pair
<1>2. TablesTypeOK' /\ RowsStay
  BY <1>1 DEF TablesInv, TypeOK, TablesTypeOK, RowsStay, Pair
<1>3. SeatStaysInHall'
  BY <1>1 DEF TablesInv, TypeOK, SeatStaysInHall, Pair, Known
<1>4. SeatsOfHalls'
  BY <1>1 DEF TablesInv, TypeOK, SeatsOfHalls, Pair, Known
<1> QED
  BY <1>2, <1>3, <1>4 DEF TablesKept

LEMMA WriteKeeps ==
  ASSUME TablesInv, NEW r \in Request, Write(r)
  PROVE  TablesInv'
<1>1. Known(op[r]) /\ step[r] = "write"
  BY DEF Write, TablesInv, RequestsKnow, Known
<1>2. TablesKept
  BY <1>1, CreateHallKeeps, UpdateHallKeeps, BenchRowKeeps, SetBenchActiveKeeps,
     PairKeeps DEF Write
<1>3. TypeOK'
  BY <1>1, <1>2 DEF TablesInv, TypeOK, TablesKept, TablesTypeOK, Write, Steps, Known
<1>4. RequestsKnow'
  <2> SUFFICES ASSUME NEW q \in Request
               PROVE  RequestsKnow!(q)'
    BY DEF RequestsKnow
  <2>1. CASE q = r
    BY <2>1 DEF TablesInv, TypeOK, Write
  <2>2. CASE q # r
    <3>1. step'[q] = step[q] /\ op'[q] = op[q]
      BY <2>2 DEF TablesInv, TypeOK, Write
    <3>2. CASE step[q] = "seat"
      <4>1. op[q].bench \in Bench
        BY <3>2, Operations DEF TablesInv, RequestsKnow
      <4> QED
        BY <1>2, <3>1, <3>2, <4>1 DEF TablesInv, RequestsKnow, TablesKept, RowsStay
    <3>3. CASE step[q] = "write" /\ op[q].kind = "assign"
      <4>1. op[q].bench \in Bench /\ SeatHall[op[q].seat] \in Hall
        BY <3>3, Operations, HallsAssumption DEF TablesInv, RequestsKnow
      <4> QED
        BY <1>2, <3>1, <3>3, <4>1 DEF TablesInv, RequestsKnow, TablesKept, RowsStay
    <3>4. CASE step[q] # "seat" /\ ~(step[q] = "write" /\ op[q].kind = "assign")
      BY <3>1, <3>4 DEF TablesInv, RequestsKnow
    <3> QED
      BY <3>2, <3>3, <3>4
  <2> QED
    BY <2>1, <2>2
<1> QED
  BY <1>2, <1>3, <1>4 DEF TablesInv, TablesKept

-----------------------------------------------------------------------------
(* One step of the console, whatever it is. *)
LEMMA NextKeepsTables == TablesInv /\ [Next]_vars => TablesInv'
<1> SUFFICES ASSUME TablesInv, [Next]_vars PROVE TablesInv'
  OBVIOUS
<1>1. CASE UNCHANGED hallVars
  BY <1>1 DEF TablesInv, TypeOK, RequestsKnow, SeatStaysInHall, SeatsOfHalls,
     hallVars, tables, requests
<1>2. CASE \E p \in Page : RunEffect(p) \/ LoadAnswered(p) \/ LoadFailed(p)
                           \/ LateAnswer(p) \/ Retry(p)
  BY <1>1, <1>2 DEF RunEffect, LoadAnswered, LoadFailed, LateAnswer, Retry
<1>3. ASSUME NEW r \in Request, NEW o \in Operation, Click(r, o) \/ Patch(r, o)
      PROVE  TablesInv'
  BY <1>3, BeginKeeps DEF Click, Patch
<1>4. ASSUME NEW r \in Request, Succeeded(r) \/ Refused(r) \/ PatchAnswered(r)
      PROVE  TablesInv'
  BY <1>4, EndsKeeps DEF Succeeded, Refused, PatchAnswered, Acknowledge, Fail
<1>5. ASSUME NEW r \in Request, Handler(r) /\ UNCHANGED pages
      PROVE  TablesInv'
  BY <1>5, LookUpKeeps, LookUpSeatKeeps, WriteKeeps DEF Handler
<1> QED
  BY <1>1, <1>2, <1>3, <1>4, <1>5 DEF Next, vars

LEMMA TablesInvariant == Spec => []TablesInv
<1>1. InitConsole => TablesInv
  BY InitTables DEF InitConsole
<1> QED
  BY <1>1, NextKeepsTables, PTL DEF Spec

(* However requests overlap, a seat's bench is one of its own hall. *)
THEOREM SeatsStayInTheirHalls == Spec => []SeatStaysInHall
  BY TablesInvariant, PTL DEF TablesInv

(* However requests overlap, no solver input read after a decommission holds
   one of its seats. *)
THEOREM DecommissionedSeatsStayOut == Spec => []DecommissionedStaysOut
<1>1. TablesInv => DecommissionedStaysOut
  BY DEF TablesInv, SeatsOfHalls, DecommissionedStaysOut, SolverSeats
<1> QED
  BY <1>1, TablesInvariant, PTL

-----------------------------------------------------------------------------
Toggling(r) == step[r] # "idle" /\ op[r].kind \in {"updateHall", "setBenchActive"}

(* A page that does not show what is new has a reload coming, shows an error,
   or waits for the answer to the toggle that cleared it. *)
PagesCatchUp ==
  \A p \in Page :
    /\ load[p] = "old" => pending[p]
    /\ \/ shown[p] = "new" \/ pending[p] \/ load[p] # "none" \/ error[p]
       \/ \E r \in Request : PageOf[r] = p /\ Toggling(r)

ConsoleInv == PagesTypeOK /\ PagesCatchUp

LEMMA InitPages == InitConsole => ConsoleInv
  BY DEF InitConsole, ConsoleInv, PagesTypeOK, PagesCatchUp, Age

LEMMA LoadingKeeps ==
  ASSUME ConsoleInv, NEW p \in Page,
         RunEffect(p) \/ LoadAnswered(p) \/ LoadFailed(p) \/ LateAnswer(p) \/ Retry(p)
  PROVE  ConsoleInv'
<1>1. PagesTypeOK'
  <2>1. late[p] \cup ({load[p]} \ {"none"}) \in SUBSET Age
    BY DEF ConsoleInv, PagesTypeOK
  <2>2. \A a : late[p] \ {a} \in SUBSET Age
    BY DEF ConsoleInv, PagesTypeOK
  <2>3. late' \in [Page -> SUBSET Age]
    BY <2>1, <2>2 DEF ConsoleInv, PagesTypeOK, RunEffect, LoadAnswered, LoadFailed,
       LateAnswer, Retry
  <2>4. PagesTypeOK!1' /\ PagesTypeOK!2' /\ PagesTypeOK!4' /\ PagesTypeOK!5'
    BY DEF ConsoleInv, PagesTypeOK, Age, RunEffect, LoadAnswered, LoadFailed,
       LateAnswer, Retry
  <2> QED
    BY <2>3, <2>4 DEF PagesTypeOK
<1>2. \A r \in Request : Toggling(r)' = Toggling(r)
  BY DEF Toggling, hallVars, requests, RunEffect, LoadAnswered, LoadFailed, LateAnswer, Retry
<1>3. PagesCatchUp'
  <2>1. CASE RunEffect(p)
    BY <1>2, <2>1 DEF ConsoleInv, PagesTypeOK, PagesCatchUp, RunEffect
  <2>2. CASE LoadAnswered(p)
    BY <1>2, <2>2 DEF ConsoleInv, PagesTypeOK, PagesCatchUp, LoadAnswered, Age
  <2>3. CASE LoadFailed(p)
    BY <1>2, <2>3 DEF ConsoleInv, PagesTypeOK, PagesCatchUp, LoadFailed
  <2>4. CASE LateAnswer(p)
    BY <1>2, <2>4 DEF ConsoleInv, PagesTypeOK, PagesCatchUp, LateAnswer
  <2>5. CASE Retry(p)
    BY <1>2, <2>5 DEF ConsoleInv, PagesTypeOK, PagesCatchUp, Retry
  <2> QED
    BY <2>5, <2>1, <2>2, <2>3, <2>4
<1> QED
  BY <1>1, <1>3 DEF ConsoleInv

LEMMA ClickKeeps ==
  ASSUME TypeOK, ConsoleInv, NEW r \in Request, NEW o \in Operation,
         Click(r, o) \/ Patch(r, o)
  PROVE  ConsoleInv'
<1>1. step[r] = "idle" /\ step'[r] # "idle" /\ op'[r] = o
  BY DEF TypeOK, Click, Patch, Begin
<1>2. \A q \in Request : q # r => Toggling(q)' = Toggling(q)
  BY DEF TypeOK, Toggling, Click, Patch, Begin
<1>3. PageOf[r] \in Page
  BY PageAssumption
<1>4. PagesTypeOK'
  BY <1>3 DEF ConsoleInv, PagesTypeOK, Click, Patch, pages
<1>5. PagesCatchUp'
  <2> SUFFICES ASSUME NEW p \in Page PROVE PagesCatchUp!(p)'
    BY DEF PagesCatchUp
  <2>1. UNCHANGED <<load, pending, shown>>
    BY DEF Click, Patch, pages
  <2>2. CASE error'[p] = error[p]
    BY <1>1, <1>2, <2>1, <2>2 DEF ConsoleInv, PagesCatchUp, Toggling
  <2>3. CASE error'[p] # error[p]
    <3>1. PageOf[r] = p /\ o.kind \in {"updateHall", "setBenchActive"}
      BY <1>3, <2>3 DEF ConsoleInv, PagesTypeOK, Click, Patch, pages
    <3>2. Toggling(r)'
      BY <1>1, <3>1 DEF Toggling
    <3> QED
      BY <2>1, <3>1, <3>2 DEF ConsoleInv, PagesCatchUp
  <2> QED
    BY <2>2, <2>3
<1> QED
  BY <1>4, <1>5 DEF ConsoleInv

LEMMA AnswerKeeps ==
  ASSUME TypeOK, ConsoleInv, NEW r \in Request,
         Succeeded(r) \/ Refused(r) \/ PatchAnswered(r)
  PROVE  ConsoleInv'
<1>1. \A q \in Request : q # r => Toggling(q)' = Toggling(q)
  BY DEF TypeOK, Toggling, Succeeded, Refused, PatchAnswered, Acknowledge, Fail, Ends
<1>2. PageOf[r] \in Page
  BY PageAssumption
<1>3. PagesTypeOK'
  <2>1. {Aged(a) : a \in late[PageOf[r]]} \in SUBSET Age
    BY <1>2 DEF ConsoleInv, PagesTypeOK, Aged, Age
  <2>2. late' \in [Page -> SUBSET Age]
    BY <2>1 DEF ConsoleInv, PagesTypeOK, Succeeded, Refused, PatchAnswered, pages
  <2>3. PagesTypeOK!1' /\ PagesTypeOK!2' /\ PagesTypeOK!4' /\ PagesTypeOK!5'
    BY <1>2 DEF ConsoleInv, PagesTypeOK, Succeeded, Refused, PatchAnswered, pages, Aged, Age
  <2> QED
    BY <2>2, <2>3 DEF PagesTypeOK
<1>4. PagesCatchUp'
  <2> SUFFICES ASSUME NEW p \in Page PROVE PagesCatchUp!(p)'
    BY DEF PagesCatchUp
  <2>1. CASE p # PageOf[r]
    BY <1>1, <2>1 DEF ConsoleInv, PagesTypeOK, PagesCatchUp, Succeeded, Refused,
       PatchAnswered, pages
  <2>2. CASE p = PageOf[r] /\ Succeeded(r)
    BY <1>2, <2>2 DEF ConsoleInv, PagesTypeOK, Succeeded
  <2>3. CASE p = PageOf[r] /\ Refused(r)
    <3>1. CASE op[r].kind = "createHall"
      <4>1. ~Toggling(r)
        BY <3>1 DEF Toggling
      <4> QED
        BY <1>1, <2>3, <3>1, <4>1 DEF ConsoleInv, PagesCatchUp, Refused
    <3>2. CASE op[r].kind # "createHall"
      BY <1>2, <2>3, <3>2 DEF ConsoleInv, PagesTypeOK, PagesCatchUp, Refused
    <3> QED
      BY <3>1, <3>2
  <2>4. CASE p = PageOf[r] /\ PatchAnswered(r)
    <3>1. ~Toggling(r)
      BY <2>4 DEF Toggling, PatchAnswered, OfPage
    <3> QED
      BY <1>1, <2>4, <3>1 DEF ConsoleInv, PagesCatchUp, PatchAnswered, pages
  <2> QED
    BY <2>1, <2>2, <2>3, <2>4
<1> QED
  BY <1>3, <1>4 DEF ConsoleInv

(* What the server does for a request is not seen by the pages. *)
LEMMA HandlerKeeps ==
  ASSUME TypeOK, ConsoleInv, NEW r \in Request, Handler(r), UNCHANGED pages
  PROVE  ConsoleInv'
<1>1. \A q \in Request : Toggling(q)' = Toggling(q)
  BY DEF TypeOK, Toggling, Handler, LookUp, LookUpSeat, Write, Goto, Written
<1> QED
  BY <1>1 DEF ConsoleInv, PagesTypeOK, PagesCatchUp, pages

LEMMA NextKeepsPages == TypeOK /\ ConsoleInv /\ [Next]_vars => ConsoleInv'
<1> SUFFICES ASSUME TypeOK, ConsoleInv, [Next]_vars PROVE ConsoleInv'
  OBVIOUS
<1>1. CASE UNCHANGED vars
  <2>1. \A q \in Request : Toggling(q)' = Toggling(q)
    BY <1>1 DEF Toggling, vars, hallVars, requests
  <2> QED
    BY <1>1, <2>1 DEF ConsoleInv, PagesTypeOK, PagesCatchUp, vars, pages
<1>2. CASE Next
  BY <1>2, LoadingKeeps, ClickKeeps, AnswerKeeps, HandlerKeeps DEF Next
<1> QED
  BY <1>1, <1>2

(* However loads and changes are answered, a page at rest shows its own
   changes, or an error. *)
THEOREM PagesShowTheirChanges == Spec => []ShowsOwnChanges
<1>1. InitConsole => ConsoleInv
  BY InitPages
<1>2. TablesInv => TypeOK
  BY DEF TablesInv
<1>3. Spec => []ConsoleInv
  BY <1>1, <1>2, NextKeepsPages, TablesInvariant, PTL DEF Spec
<1>4. TypeOK /\ ConsoleInv => ShowsOwnChanges
  BY DEF ConsoleInv, PagesTypeOK, PagesCatchUp, ShowsOwnChanges, Quiet, Toggling, OfPage
<1> QED
  BY <1>2, <1>3, <1>4, TablesInvariant, PTL
=============================================================================
