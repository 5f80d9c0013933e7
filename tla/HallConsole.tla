----------------------------- MODULE HallConsole -----------------------------
(***************************************************************************)
(* The halls page of the administrators' console                           *)
(* (src/frontend/src/components/HallsPage.tsx) over the requests of Halls: *)
(* a load per reload key, whose answer counts unless its effect has been   *)
(* cleaned up; mutations, several at a time, each followed by a reload.    *)
(*                                                                         *)
(* What a page shows is told apart by one thing: whether it was read after *)
(* every mutation that has been acknowledged to the page ("new" or "old"). *)
(***************************************************************************)
EXTENDS Halls

CONSTANTS Page, PageOf   \* a request is made by a page

ASSUME PageAssumption == PageOf \in [Request -> Page]

VARIABLES
  pending,   \* page -> reloadKey has changed, the effect has not run yet
  load,      \* page -> the load of the current effect, or "none"
  late,      \* page -> loads of effects that were cleaned up, on their way
  shown,     \* page -> what the page shows
  error      \* page -> an error is shown

pages == <<pending, load, late, shown, error>>
vars == <<hallVars, pages>>

Age == {"old", "new"}

PagesTypeOK ==
  /\ pending \in [Page -> BOOLEAN]
  /\ load \in [Page -> Age \cup {"none"}]
  /\ late \in [Page -> SUBSET Age]
  /\ shown \in [Page -> Age \cup {"none"}]
  /\ error \in [Page -> BOOLEAN]

(* The page is mounted: its effect is about to run. *)
InitConsole ==
  /\ Init
  /\ pending = [p \in Page |-> TRUE]
  /\ load = [p \in Page |-> "none"]
  /\ late = [p \in Page |-> {}]
  /\ shown = [p \in Page |-> "none"]
  /\ error = [p \in Page |-> FALSE]

(* What was read before an acknowledgement is old after it. *)
Aged(a) == IF a = "new" THEN "old" ELSE a

-----------------------------------------------------------------------------
(* Loading.                                                                *)

(* The effect of a new reload key: the load before it is cancelled. *)
RunEffect(p) ==
  /\ pending[p]
  /\ pending' = [pending EXCEPT ![p] = FALSE]
  /\ late' = [late EXCEPT ![p] = @ \cup ({load[p]} \ {"none"})]
  /\ load' = [load EXCEPT ![p] = "new"]
  /\ UNCHANGED <<hallVars, shown, error>>

LoadAnswered(p) ==
  /\ load[p] # "none"
  /\ shown' = [shown EXCEPT ![p] = load[p]]
  /\ error' = [error EXCEPT ![p] = FALSE]
  /\ load' = [load EXCEPT ![p] = "none"]
  /\ UNCHANGED <<hallVars, pending, late>>

LoadFailed(p) ==
  /\ load[p] # "none"
  /\ error' = [error EXCEPT ![p] = TRUE]
  /\ load' = [load EXCEPT ![p] = "none"]
  /\ UNCHANGED <<hallVars, pending, late, shown>>

(* Mutant: the answer of a cancelled load is shown. *)
LateAnswerShown(p) ==
  /\ \E a \in late[p] : /\ late' = [late EXCEPT ![p] = @ \ {a}]
                        /\ shown' = [shown EXCEPT ![p] = a]
  /\ UNCHANGED <<hallVars, pending, load, error>>

LateAnswer(p) ==
  /\ \E a \in late[p] : late' = [late EXCEPT ![p] = @ \ {a}]
  /\ UNCHANGED <<hallVars, pending, load, shown, error>>

(* The button is there only while there is nothing else to show. *)
Retry(p) ==
  /\ error[p] /\ shown[p] = "none"
  /\ error' = [error EXCEPT ![p] = FALSE]
  /\ pending' = [pending EXCEPT ![p] = TRUE]
  /\ UNCHANGED <<hallVars, load, late, shown>>

-----------------------------------------------------------------------------
(* Mutations.  The page has no button for PATCH /benches/:id: another       *)
(* client sends it.                                                        *)

OfPage(o) == o.kind # "updateBench"

Patch(r, o) == ~OfPage(o) /\ Begin(r, o) /\ UNCHANGED pages

PatchAnswered(r) ==
  /\ ~OfPage(op[r])
  /\ Acknowledge(r) \/ Fail(r)
  /\ UNCHANGED pages

(* The two toggles clear the error before they are sent. *)
Click(r, o) ==
  /\ OfPage(o)
  /\ shown[PageOf[r]] # "none"
  /\ Begin(r, o)
  /\ error' = IF o.kind \in {"updateHall", "setBenchActive"}
              THEN [error EXCEPT ![PageOf[r]] = FALSE] ELSE error
  /\ UNCHANGED <<pending, load, late, shown>>

Succeeded(r) ==
  LET p == PageOf[r] IN
  /\ OfPage(op[r])
  /\ Acknowledge(r)
  /\ pending' = [pending EXCEPT ![p] = TRUE]
  /\ load' = [load EXCEPT ![p] = Aged(@)]
  /\ late' = [late EXCEPT ![p] = {Aged(a) : a \in @}]
  /\ shown' = [shown EXCEPT ![p] = Aged(@)]
  /\ UNCHANGED error

(* createHall's form has an error line of its own. *)
Refused(r) ==
  /\ OfPage(op[r])
  /\ Fail(r)
  /\ error' = IF op[r].kind = "createHall" THEN error
              ELSE [error EXCEPT ![PageOf[r]] = TRUE]
  /\ UNCHANGED <<pending, load, late, shown>>

-----------------------------------------------------------------------------
Next ==
  \/ \E p \in Page : \/ RunEffect(p) \/ LoadAnswered(p) \/ LoadFailed(p)
                     \/ LateAnswer(p) \/ Retry(p)
  \/ \E r \in Request : \/ \E o \in Operation : Click(r, o) \/ Patch(r, o)
                        \/ Succeeded(r) \/ Refused(r) \/ PatchAnswered(r)
                        \/ Handler(r) /\ UNCHANGED pages

Spec == InitConsole /\ [][Next]_vars

-----------------------------------------------------------------------------
(* Nothing the page has sent is on its way. *)
Quiet(p) ==
  /\ ~pending[p] /\ load[p] = "none"
  /\ \A r \in Request : PageOf[r] = p /\ OfPage(op[r]) => step[r] = "idle"

(* A quiet page either shows an error or the halls as they were read after
   every change it was told is done, in whatever order loads and changes
   are answered. *)
ShowsOwnChanges ==
  \A p \in Page : Quiet(p) /\ ~error[p] => shown[p] = "new"
=============================================================================
