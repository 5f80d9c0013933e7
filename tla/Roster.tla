-------------------------------- MODULE Roster --------------------------------
(***************************************************************************)
(* The candidates of ONE exam (src/src/services/candidate.service.ts) and  *)
(* the administrators who add, exclude, reinstate and resolve them and     *)
(* cancel the exam (src/src/services/exam.service.ts).                     *)
(*                                                                         *)
(* (exam_id, student_id) is unique, so a student has at most one row.  A   *)
(* student stands for a register number too: both are unique in an exam.   *)
(* Each awaited prisma call is a step, as in SeatingPlans; every edit is a *)
(* read, a look at the exam, and a write by id.                            *)
(***************************************************************************)
EXTENDS Naturals

CONSTANTS
  Student,      \* the student master records
  Document,     \* uploaded files
  NoDocument,   \* "null": added by hand
  NoStudent,    \* no student
  Editor,       \* the administrators' requests that may be in flight together
  ByService     \* those that call transitionValidationStatus(id, "VALIDATED")
                \* themselves, as the tests do; the HTTP API has none

ASSUME NullsAssumption == NoDocument \notin Document /\ NoStudent \notin Student

ASSUME ByServiceAssumption == ByService \subseteq Editor

VARIABLES
  exam,        \* the exam's status
  candidate,   \* student -> validationStatus, "ABSENT" before the row exists
  source,      \* student -> sourceDocumentId
  step,        \* editor -> the database call it makes next
  subject      \* editor -> the student it is about

table == <<candidate, source>>
editors == <<step, subject>>
vars == <<exam, table, editors>>

(* Exam statuses under which assertExamCandidatesMutable throws.  Of all the
   statuses the product sets DRAFT and CANCELLED only. *)
Locked == {"GENERATING", "APPROVED", "PUBLISHED", "CANCELLED"}

MayCancel == {"DRAFT", "READY", "GENERATING", "GENERATED", "APPROVED"}

VALIDATION_TRANSITIONS ==
  [UNVERIFIED |-> {"MATCHED", "REJECTED"},
   MATCHED    |-> {"VALIDATED", "REJECTED"},
   VALIDATED  |-> {"REJECTED"},
   REJECTED   |-> {"MATCHED"}]

CandidateStatus == DOMAIN VALIDATION_TRANSITIONS

OnRoster == {s \in Student : candidate[s] # "ABSENT"}

Validated == {s \in Student : candidate[s] = "VALIDATED"}

(* assertValidationTransition does not throw. *)
MayBecome(s, to) == s \in OnRoster /\ to \in VALIDATION_TRANSITIONS[candidate[s]]

Step == {"idle", "addFind", "addInsert", "excludeCheck", "exclude",
         "reinstateCheck", "reinstate", "resolveRead", "resolve",
         "cancelCount", "cancel"}

TypeOK ==
  /\ exam \in {"DRAFT", "CANCELLED"}
  /\ candidate \in [Student -> CandidateStatus \cup {"ABSENT"}]
  /\ source \in [Student -> Document \cup {NoDocument}]
  /\ step \in [Editor -> Step]
  /\ subject \in [Editor -> Student \cup {NoStudent}]

Init ==
  /\ exam = "DRAFT"
  /\ candidate = [s \in Student |-> "ABSENT"]
  /\ source = [s \in Student |-> NoDocument]
  /\ step = [e \in Editor |-> "idle"]
  /\ subject = [e \in Editor |-> NoStudent]

Begin(e, next, s) ==
  /\ step[e] = "idle"
  /\ step' = [step EXCEPT ![e] = next]
  /\ subject' = [subject EXCEPT ![e] = s]
  /\ UNCHANGED <<exam, table>>

Goto(e, next) == step' = [step EXCEPT ![e] = next] /\ UNCHANGED subject

(* The request returns or throws. *)
Finish(e) ==
  /\ step' = [step EXCEPT ![e] = "idle"]
  /\ subject' = [subject EXCEPT ![e] = NoStudent]

(* A check in the middle of a request: it goes on, or it throws. *)
Check(e, from, ok, next) ==
  /\ step[e] = from
  /\ IF ok THEN Goto(e, next) ELSE Finish(e)
  /\ UNCHANGED <<exam, table>>

(* examCandidate.update({where: {id}, data: {validationStatus}}). *)
Update(e, from, to) ==
  /\ step[e] = from
  /\ candidate' = [candidate EXCEPT ![subject[e]] = to]
  /\ Finish(e)
  /\ UNCHANGED <<exam, source>>

-----------------------------------------------------------------------------
(* Mutant: the roster is open whatever the exam's status. *)
MutableAlways == TRUE

(* assertExamCandidatesMutable does not throw. *)
Mutable == exam \notin Locked

(* addCandidateFromMaster: the exam, the existing candidate, the insert. *)
AddBegin(e, s) == Mutable /\ Begin(e, "addFind", s)

AddFind(e) == Check(e, "addFind", subject[e] \notin OnRoster, "addInsert")

AddInsert(e) ==
  /\ step[e] = "addInsert"
  /\ IF subject[e] \in OnRoster
     THEN UNCHANGED candidate    \* P2002
     ELSE candidate' = [candidate EXCEPT ![subject[e]] = "MATCHED"]
  /\ Finish(e)
  /\ UNCHANGED <<exam, source>>

(* excludeCandidate: the candidate, the exam, the update. *)
ExcludeBegin(e, s) == MayBecome(s, "REJECTED") /\ Begin(e, "excludeCheck", s)
ExcludeCheck(e) == Check(e, "excludeCheck", Mutable, "exclude")
ExcludeWrite(e) == Update(e, "exclude", "REJECTED")

(* reinstateCandidate, likewise. *)
ReinstateBegin(e, s) == MayBecome(s, "MATCHED") /\ Begin(e, "reinstateCheck", s)
ReinstateCheck(e) == Check(e, "reinstateCheck", Mutable, "reinstate")
ReinstateWrite(e) == Update(e, "reinstate", "MATCHED")

(* Mutant: the candidate need not be one of the document in the URL. *)
ResolveBeginAny(e, s) == s \in OnRoster /\ Begin(e, "resolveRead", s)

(* handleResolveCandidate: the candidate must be one of the document that
   the request names; then transitionValidationStatus, which asks neither for
   a document nor for the exam. *)
ResolveBegin(e, s) ==
  /\ s \in OnRoster
  /\ e \in ByService \/ source[s] # NoDocument
  /\ Begin(e, "resolveRead", s)

ResolveRead(e) ==
  Check(e, "resolveRead", MayBecome(subject[e], "VALIDATED"), "resolve")
ResolveWrite(e) == Update(e, "resolve", "VALIDATED")

(* cancelExam: the exam, a count of the active jobs, the update. *)
CancelBegin(e) == exam \in MayCancel /\ Begin(e, "cancelCount", NoStudent)

CancelCount(e, busy) == Check(e, "cancelCount", ~busy, "cancel")

CancelWrite(e) ==
  /\ step[e] = "cancel"
  /\ exam' = "CANCELLED"
  /\ Finish(e)
  /\ UNCHANGED table

(* The next call fails, or the process dies. *)
Abandon(e) == step[e] # "idle" /\ Finish(e) /\ UNCHANGED <<exam, table>>

(* "busy": the exam has an active job. *)
EditorStep(e, busy) ==
  \/ \E s \in Student : \/ AddBegin(e, s)
                        \/ ExcludeBegin(e, s)
                        \/ ReinstateBegin(e, s)
                        \/ ResolveBegin(e, s)
  \/ AddFind(e)
  \/ AddInsert(e)
  \/ ExcludeCheck(e)
  \/ ExcludeWrite(e)
  \/ ReinstateCheck(e)
  \/ ReinstateWrite(e)
  \/ ResolveRead(e)
  \/ ResolveWrite(e)
  \/ CancelBegin(e)
  \/ CancelCount(e, busy)
  \/ CancelWrite(e)
  \/ Abandon(e)

-----------------------------------------------------------------------------
(* upsertCandidate of ingest.ts: created or updated, the candidate is one of
   document d and MATCHED. *)
Upsert(s, d) ==
  /\ candidate' = [candidate EXCEPT ![s] = "MATCHED"]
  /\ source' = [source EXCEPT ![s] = d]
  /\ UNCHANGED <<exam, editors>>

Next ==
  \/ \E e \in Editor, busy \in BOOLEAN : EditorStep(e, busy)
  \/ \E s \in Student, d \in Document : Upsert(s, d)

Spec == Init /\ [][Next]_vars

-----------------------------------------------------------------------------
(* Through the HTTP API alone, only a candidate that a document named can be
   VALIDATED, although the handler looks at the source in one call, the
   status in another, and uploads take rows over in between.  It is the
   handler's check, not the service's: a caller of transitionValidationStatus
   may validate a candidate that was added by hand. *)
ValidatedCameFromDocument ==
  ByService = {} => \A s \in Validated : source[s] # NoDocument

(* The exam is cancelled and the edits that were in flight are done. *)
Settled == exam = "CANCELLED" /\ \A e \in Editor : step[e] = "idle"

(* Cancellation locks the roster for good once the edits in flight are done:
   after that nobody is added by hand, excluded or reinstated.  Uploads do
   not look at the exam: they alone still add rows, and make a rejected row
   MATCHED again. *)
CancelledRosterSettles ==
  /\ [](Settled => [](\A e \in Editor : step[e] # "reinstate"))
  /\ \A s \in Student :
       /\ [](Settled /\ s \notin OnRoster
               => [](s \in OnRoster => source[s] # NoDocument))
       /\ [](Settled /\ candidate[s] # "REJECTED" => [](candidate[s] # "REJECTED"))
       /\ [](Settled /\ candidate[s] = "REJECTED"
               => [](candidate[s] # "REJECTED" => source[s] # NoDocument))
=============================================================================
