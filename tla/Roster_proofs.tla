---------------------------- MODULE Roster_proofs ----------------------------
(***************************************************************************)
(* Whatever administrators and uploads overlap, the HTTP API validates no  *)
(* candidate that was added by hand.  The inductive invariant says what an *)
(* administrator's request still knows of the candidate it has read: its   *)
(* source may change hands, but is never forgotten.  A second part shows   *)
(* that a cancelled exam's roster settles, a third that no generation      *)
(* seats somebody who was out by then.                                     *)
(*                                                                         *)
(* The last part is about the uploads.  However many of them overlap, also *)
(* of one file, a document that says PARSED is complete, and a candidate's *)
(* source is a document that names it.  An upload writes its verdict long  *)
(* after it computed it; UploadsKnow says why the verdict is still right:  *)
(* rows are never deleted, no source is forgotten, and what has not been   *)
(* upserted is still to do.                                                *)
(***************************************************************************)
EXTENDS RosterReads, Ingest, TLAPS

AboutNobody == {"idle", "cancelCount", "cancel"}

EditorsKnow ==
  \A e \in Editor :
    /\ step[e] \notin AboutNobody => subject[e] \in Student
    /\ step[e] \in {"resolveRead", "resolve"}
         => e \in ByService \/ source[subject[e]] # NoDocument

IInv == TypeOK /\ EditorsKnow /\ ValidatedCameFromDocument

-----------------------------------------------------------------------------
(* An empty roster and idle requests. *)
LEMMA InitEstablishes == Init => IInv
  BY DEF Init, IInv, TypeOK, EditorsKnow, AboutNobody, ValidatedCameFromDocument,
         Validated, CandidateStatus, VALIDATION_TRANSITIONS, Step

(* The statuses by name. *)
LEMMA Statuses == CandidateStatus = {"UNVERIFIED", "MATCHED", "VALIDATED", "REJECTED"}
  BY DEF CandidateStatus, VALIDATION_TRANSITIONS

(* A request that begins, goes on or ends, and leaves the roster alone. *)
LEMMA EditorMoves ==
  ASSUME IInv, NEW e \in Editor, NEW next \in Step, NEW s \in Student \cup {NoStudent},
         step' = [step EXCEPT ![e] = next],
         subject' = [subject EXCEPT ![e] = s],
         UNCHANGED <<exam, table>>,
         next \notin AboutNobody => s \in Student,
         next \in {"resolveRead", "resolve"} => e \in ByService \/ source[s] # NoDocument
  PROVE  IInv'
<1>1. TypeOK'
  BY DEF IInv, TypeOK, table
<1>2. EditorsKnow'
  BY DEF IInv, TypeOK, EditorsKnow, table
<1>3. ValidatedCameFromDocument'
  BY DEF IInv, ValidatedCameFromDocument, Validated, table
<1> QED
  BY <1>1, <1>2, <1>3 DEF IInv

(* A check in the middle of a request. *)
LEMMA CheckKeeps ==
  ASSUME IInv, NEW e \in Editor, NEW from \in Step, NEW ok \in BOOLEAN,
         NEW next \in Step, Check(e, from, ok, next),
         from \notin AboutNobody \/ next = "cancel",
         next = "resolve" => from = "resolveRead",
         next # "resolveRead"
  PROVE  IInv'
<1>1. CASE ok
  <2>1. subject[e] \in Student \cup {NoStudent} /\ step[e] = from
    BY DEF IInv, TypeOK, Check
  <2>2. subject' = [subject EXCEPT ![e] = subject[e]]
    BY <1>1 DEF IInv, TypeOK, Check, Goto
  <2>3. next \notin AboutNobody => subject[e] \in Student
    BY <2>1 DEF IInv, EditorsKnow, AboutNobody
  <2>4. next \in {"resolveRead", "resolve"} => e \in ByService \/ source[subject[e]] # NoDocument
    BY <2>1 DEF IInv, EditorsKnow
  <2>5. step' = [step EXCEPT ![e] = next] /\ UNCHANGED <<exam, table>>
    BY <1>1 DEF Check, Goto
  <2> QED
    BY <2>1, <2>5, EditorMoves, <2>2, <2>3, <2>4
<1>2. CASE ~ok
  BY <1>2, EditorMoves DEF Check, Finish, AboutNobody, Step
<1> QED
  BY <1>1, <1>2

(* A request that begins with candidate s. *)
LEMMA BeginKeeps ==
  ASSUME IInv, NEW e \in Editor, NEW next \in Step, NEW s \in Student \cup {NoStudent},
         Begin(e, next, s),
         next \notin AboutNobody => s \in Student,
         next # "resolve",
         next = "resolveRead" => e \in ByService \/ source[s] # NoDocument
  PROVE  IInv'
  BY EditorMoves DEF Begin

(* The last step of an edit: one row gets a status and the request ends. *)
LEMMA UpdateKeeps ==
  ASSUME IInv, NEW e \in Editor, NEW from \in Step \ AboutNobody,
         NEW to \in CandidateStatus, Update(e, from, to),
         to = "VALIDATED" => from = "resolve"
  PROVE  IInv'
<1>1. /\ subject[e] \in Student
      /\ to = "VALIDATED" /\ ByService = {} => source[subject[e]] # NoDocument
  BY DEF IInv, EditorsKnow, Update
<1>2. TypeOK'
  BY <1>1 DEF IInv, TypeOK, Update, Finish, Step
<1>3. EditorsKnow'
  BY DEF IInv, TypeOK, EditorsKnow, Update, Finish, AboutNobody
<1>4. ValidatedCameFromDocument'
  BY <1>1 DEF IInv, TypeOK, ValidatedCameFromDocument, Validated, Update
<1> QED
  BY <1>2, <1>3, <1>4 DEF IInv

(* addCandidateFromMaster's insert: the row is MATCHED, if it is new. *)
LEMMA AddInsertKeeps ==
  ASSUME IInv, NEW e \in Editor, AddInsert(e)
  PROVE  IInv'
<1>1. subject[e] \in Student
  BY DEF IInv, EditorsKnow, AboutNobody, AddInsert
<1>2. TypeOK'
  BY <1>1, Statuses DEF IInv, TypeOK, AddInsert, Finish, Step
<1>3. EditorsKnow'
  BY DEF IInv, TypeOK, EditorsKnow, AddInsert, Finish, AboutNobody
<1>4. ValidatedCameFromDocument'
  BY <1>1 DEF IInv, TypeOK, ValidatedCameFromDocument, Validated, AddInsert
<1> QED
  BY <1>2, <1>3, <1>4 DEF IInv

(* An upload takes the row over: no source is forgotten. *)
LEMMA UpsertKeeps ==
  ASSUME NullsAssumption, IInv, NEW s \in Student, NEW d \in Document, Upsert(s, d)
  PROVE  IInv'
<1>1. TypeOK'
  BY Statuses DEF IInv, TypeOK, Upsert, editors
<1>2. EditorsKnow'
  BY DEF IInv, TypeOK, EditorsKnow, Upsert, editors, NullsAssumption, AboutNobody
<1>3. ValidatedCameFromDocument'
  BY DEF IInv, TypeOK, ValidatedCameFromDocument, Validated, Upsert, NullsAssumption
<1> QED
  BY <1>1, <1>2, <1>3 DEF IInv

(* Every call of an administrator keeps the invariant. *)
LEMMA EditorKeeps ==
  ASSUME IInv, NEW e \in Editor, NEW busy \in BOOLEAN, EditorStep(e, busy)
  PROVE  IInv'
<1> USE DEF Step, AboutNobody
<1>1. ASSUME NEW s \in Student, AddBegin(e, s) PROVE IInv'
  BY <1>1, BeginKeeps DEF AddBegin
<1>2. ASSUME NEW s \in Student, ExcludeBegin(e, s) PROVE IInv'
  BY <1>2, BeginKeeps DEF ExcludeBegin
<1>3. ASSUME NEW s \in Student, ReinstateBegin(e, s) PROVE IInv'
  BY <1>3, BeginKeeps DEF ReinstateBegin
<1>4. ASSUME NEW s \in Student, ResolveBegin(e, s) PROVE IInv'
  BY <1>4, BeginKeeps DEF ResolveBegin
<1>5. ASSUME AddFind(e) PROVE IInv'
  BY <1>5, CheckKeeps DEF AddFind
<1>6. ASSUME AddInsert(e) PROVE IInv'
  BY <1>6, AddInsertKeeps
<1>7. ASSUME ExcludeCheck(e) PROVE IInv'
  BY <1>7, CheckKeeps DEF ExcludeCheck, Mutable
<1>8. ASSUME ExcludeWrite(e) PROVE IInv'
  BY <1>8, UpdateKeeps, Statuses DEF ExcludeWrite
<1>9. ASSUME ReinstateCheck(e) PROVE IInv'
  BY <1>9, CheckKeeps DEF ReinstateCheck, Mutable
<1>10. ASSUME ReinstateWrite(e) PROVE IInv'
  BY <1>10, UpdateKeeps, Statuses DEF ReinstateWrite
<1>11. ASSUME ResolveRead(e) PROVE IInv'
  BY <1>11, CheckKeeps DEF ResolveRead, MayBecome
<1>12. ASSUME ResolveWrite(e) PROVE IInv'
  BY <1>12, UpdateKeeps, Statuses DEF ResolveWrite
<1>13. ASSUME CancelBegin(e) PROVE IInv'
  BY <1>13, BeginKeeps DEF CancelBegin
<1>14. ASSUME CancelCount(e, busy) PROVE IInv'
  BY <1>14, CheckKeeps DEF CancelCount
<1>15. ASSUME CancelWrite(e) PROVE IInv'
  <2>1. TypeOK'
    BY <1>15 DEF IInv, TypeOK, CancelWrite, Finish, table
  <2>2. EditorsKnow'
    BY <1>15 DEF IInv, TypeOK, EditorsKnow, CancelWrite, Finish, table
  <2>3. ValidatedCameFromDocument'
    BY <1>15 DEF IInv, ValidatedCameFromDocument, Validated, CancelWrite, table
  <2> QED
    BY <2>1, <2>2, <2>3 DEF IInv
<1>16. ASSUME Abandon(e) PROVE IInv'
  BY <1>16, EditorMoves DEF Abandon, Finish
<1> QED
  BY <1>1, <1>2, <1>3, <1>4, <1>5, <1>6, <1>7, <1>8, <1>9, <1>10, <1>11, <1>12,
     <1>13, <1>14, <1>15, <1>16 DEF EditorStep

(* The invariant is inductive. *)
LEMMA StepPreserves ==
  ASSUME NullsAssumption, IInv, [Next]_vars
  PROVE  IInv'
<1>1. CASE Next
  BY <1>1, EditorKeeps, UpsertKeeps DEF Next
<1>2. CASE UNCHANGED vars
  BY <1>2 DEF vars, table, editors, IInv, TypeOK, EditorsKnow,
              ValidatedCameFromDocument, Validated
<1> QED
  BY <1>1, <1>2

(* Administrators leave the candidates' documents alone ... *)
LEMMA EditorsKeepSources ==
  ASSUME NEW e \in Editor, NEW busy \in BOOLEAN, EditorStep(e, busy)
  PROVE  source' = source
  BY DEF EditorStep, AddBegin, ExcludeBegin, ReinstateBegin, ResolveBegin,
     AddFind, AddInsert, ExcludeCheck, ExcludeWrite, ReinstateCheck,
     ReinstateWrite, ResolveRead, ResolveWrite, CancelBegin, CancelCount,
     CancelWrite, Abandon, Begin, Check, Update, table

(* ... so no step takes a candidate's document away. *)
LEMMA SourceStays ==
  ASSUME NullsAssumption, TypeOK, [Next]_vars, NEW s \in Student,
         source[s] # NoDocument
  PROVE  source'[s] # NoDocument
<1>1. ASSUME NEW t \in Student, NEW d \in Document, Upsert(t, d)
      PROVE  source'[s] # NoDocument
  BY <1>1 DEF Upsert, TypeOK, NullsAssumption
<1>2. CASE \E e \in Editor, busy \in BOOLEAN : EditorStep(e, busy)
  BY <1>2, EditorsKeepSources
<1>3. CASE UNCHANGED vars
  BY <1>3 DEF vars, table
<1> QED
  BY <1>1, <1>2, <1>3 DEF Next

(* No step takes a row away. *)
LEMMA RowsStay ==
  ASSUME IInv, [Next]_vars
  PROVE  OnRoster \subseteq OnRoster'
<1>1. ASSUME NEW t \in Student, NEW d \in Document, Upsert(t, d)
      PROVE  OnRoster \subseteq OnRoster'
  BY <1>1 DEF Upsert, IInv, TypeOK, OnRoster
<1>2. ASSUME NEW e \in Editor, NEW from \in Step, NEW to \in CandidateStatus,
             Update(e, from, to)
      PROVE  OnRoster \subseteq OnRoster'
  BY <1>2, Statuses DEF Update, IInv, TypeOK, OnRoster
<1>3. ASSUME NEW e \in Editor, NEW busy \in BOOLEAN, EditorStep(e, busy)
      PROVE  OnRoster \subseteq OnRoster'
  <2>1. CASE AddInsert(e)
    BY <2>1 DEF AddInsert, IInv, TypeOK, OnRoster
  <2>2. CASE ExcludeWrite(e) \/ ReinstateWrite(e) \/ ResolveWrite(e)
    BY <2>2, <1>2, Statuses DEF ExcludeWrite, ReinstateWrite, ResolveWrite, Step
  <2>3. CASE candidate' = candidate
    BY <2>3 DEF OnRoster
  <2> QED
    BY <1>3, <2>1, <2>2, <2>3 DEF EditorStep, AddBegin, ExcludeBegin,
       ReinstateBegin, ResolveBegin, AddFind, ExcludeCheck, ReinstateCheck,
       ResolveRead, CancelBegin, CancelCount, CancelWrite, Abandon, Begin,
       Check, table
<1>4. CASE UNCHANGED vars
  BY <1>4 DEF vars, table, OnRoster
<1> QED
  BY <1>1, <1>3, <1>4 DEF Next

(* The invariant in every behaviour. *)
THEOREM Invariance == Spec => []IInv
<1>1. Init => IInv
  BY InitEstablishes
<1>2. IInv /\ [Next]_vars => IInv'
  BY StepPreserves, NullsAssumption
<1> QED
  BY <1>1, <1>2, PTL DEF Spec

(* Through the HTTP API only a candidate that a document named is ever
   VALIDATED, for any number of administrators, uploads and students. *)
THEOREM ValidatedOnlyFromDocuments == Spec => []ValidatedCameFromDocument
<1>1. IInv => ValidatedCameFromDocument
  BY DEF IInv
<1> QED
  BY <1>1, Invariance, PTL

-----------------------------------------------------------------------------
(* Requests that are past their look at the exam are gone, and none gets
   there any more; whoever resolves a candidate has read it since then. *)
Out == {"ABSENT", "REJECTED"}

Closed ==
  /\ exam = "CANCELLED"
  /\ \A e \in Editor :
       /\ step[e] \notin {"addFind", "addInsert", "exclude", "reinstate"}
       /\ step[e] = "resolve" => candidate[subject[e]] \notin Out

(* A step of an administrator once the roster is closed: it stays closed, the
   only status that is written is VALIDATED, of a candidate who is not out. *)
LEMMA ClosedForEditors ==
  ASSUME IInv, Closed, NEW e \in Editor, NEW busy \in BOOLEAN, EditorStep(e, busy)
  PROVE  /\ Closed' /\ source' = source
         /\ \A s \in Student :
              candidate'[s] # candidate[s] => candidate'[s] = "VALIDATED" /\ candidate[s] \notin Out
<1>1. /\ ~Mutable
      /\ step \in [Editor -> Step] /\ subject \in [Editor -> Student \cup {NoStudent}]
      /\ candidate \in [Student -> CandidateStatus \cup {"ABSENT"}]
  BY DEF Closed, Mutable, Locked, IInv, TypeOK
<1>2. source' = source
  BY EditorsKeepSources
<1>3. ASSUME NEW next, step' = [step EXCEPT ![e] = next], exam' = "CANCELLED",
             next \notin {"addFind", "addInsert", "exclude", "reinstate"},
             next = "resolve" => candidate'[subject'[e]] \notin Out,
             \A f \in Editor : f # e => subject'[f] = subject[f],
             \A s \in Student : candidate[s] \notin Out => candidate'[s] \notin Out
      PROVE  Closed'
  <2>1. step'[e] = next /\ \A f \in Editor : f # e => step'[f] = step[f]
    BY <1>1, <1>3
  <2>2. ASSUME NEW f \in Editor, f # e, step[f] = "resolve"
        PROVE  candidate'[subject'[f]] \notin Out
    <3>1. subject[f] \in Student
      BY <2>2 DEF IInv, EditorsKnow, AboutNobody
    <3> QED
      BY <1>3, <2>2, <3>1 DEF Closed
  <2> QED
    BY <1>3, <2>1, <2>2 DEF Closed
<1>4. CASE ResolveWrite(e)
  <2>1. /\ subject[e] \in Student /\ candidate[subject[e]] \notin Out
        /\ candidate' = [candidate EXCEPT ![subject[e]] = "VALIDATED"]
    BY <1>4 DEF ResolveWrite, Update, IInv, EditorsKnow, AboutNobody, Closed
  <2>2. \A s \in Student : candidate[s] \notin Out => candidate'[s] \notin Out
    BY <1>1, <2>1 DEF Out
  <2>3. /\ step' = [step EXCEPT ![e] = "idle"] /\ exam' = "CANCELLED"
        /\ \A f \in Editor : f # e => subject'[f] = subject[f]
    BY <1>1, <1>4 DEF ResolveWrite, Update, Finish, Closed
  <2>4. Closed'
    BY <1>3, <2>2, <2>3
  <2> QED
    BY <1>1, <1>2, <2>1, <2>4
<1>5. CASE ResolveRead(e)
  <2>1. /\ candidate' = candidate /\ exam' = "CANCELLED"
        /\ \A f \in Editor : f # e => subject'[f] = subject[f]
    BY <1>1, <1>5 DEF ResolveRead, Check, Goto, Finish, table, Closed
  <2>2. CASE MayBecome(subject[e], "VALIDATED")
    <3>1. subject' = subject /\ step' = [step EXCEPT ![e] = "resolve"]
      BY <1>5, <2>2 DEF ResolveRead, Check, Goto
    <3>2. candidate[subject[e]] \notin Out
      BY <2>2 DEF MayBecome, OnRoster, VALIDATION_TRANSITIONS, Out
    <3>3. Closed'
      BY <1>3, <2>1, <3>1, <3>2
    <3> QED
      BY <1>2, <2>1, <3>3
  <2>3. CASE ~MayBecome(subject[e], "VALIDATED")
    <3>1. step' = [step EXCEPT ![e] = "idle"]
      BY <1>5, <2>3 DEF ResolveRead, Check, Finish
    <3>2. Closed'
      BY <1>3, <2>1, <3>1
    <3> QED
      BY <1>2, <2>1, <3>2
  <2> QED
    BY <2>2, <2>3
<1>6. CASE \/ CancelBegin(e) \/ CancelCount(e, busy) \/ CancelWrite(e) \/ Abandon(e)
           \/ ExcludeCheck(e) \/ ReinstateCheck(e)
           \/ \E s \in Student : ExcludeBegin(e, s) \/ ReinstateBegin(e, s) \/ ResolveBegin(e, s)
  <2>1. candidate' = candidate
    BY <1>6 DEF CancelBegin, CancelCount, CancelWrite, Abandon, ExcludeCheck,
       ReinstateCheck, ExcludeBegin, ReinstateBegin, ResolveBegin, Begin, Check, table
  <2>2. exam' = "CANCELLED"
    BY <1>6 DEF Closed, CancelBegin, CancelCount, CancelWrite, Abandon, ExcludeCheck,
       ReinstateCheck, ExcludeBegin, ReinstateBegin, ResolveBegin, Begin, Check
  <2>3. \E next : /\ step' = [step EXCEPT ![e] = next]
                  /\ next \notin {"addFind", "addInsert", "exclude", "reinstate", "resolve"}
    BY <1>1, <1>6 DEF CancelBegin, CancelCount, CancelWrite, Abandon, ExcludeCheck,
       ReinstateCheck, ExcludeBegin, ReinstateBegin, ResolveBegin, Begin, Check, Goto, Finish
  <2>4. \A f \in Editor : f # e => subject'[f] = subject[f]
    BY <1>1, <1>6 DEF CancelBegin, CancelCount, CancelWrite, Abandon, ExcludeCheck,
       ReinstateCheck, ExcludeBegin, ReinstateBegin, ResolveBegin, Begin, Check, Goto, Finish
  <2>5. Closed'
    BY <1>3, <2>1, <2>2, <2>3, <2>4
  <2> QED
    BY <1>2, <2>1, <2>5
<1>7. /\ \A s \in Student : ~AddBegin(e, s)
      /\ ~AddFind(e) /\ ~AddInsert(e) /\ ~ExcludeWrite(e) /\ ~ReinstateWrite(e)
  BY <1>1 DEF Closed, AddBegin, AddFind, AddInsert, ExcludeWrite, ReinstateWrite, Check, Update
<1> QED
  BY <1>4, <1>5, <1>6, <1>7 DEF EditorStep

(* No step opens the roster again or forgets a source, and none but an
   upload changes who is on the roster and who is rejected. *)
LEMMA ClosedForGood ==
  ASSUME IInv, Closed, [Next]_vars
  PROVE  /\ Closed'
         /\ \A s \in Student :
              \/ candidate[s] \in Out /\ candidate'[s] = candidate[s] /\ source'[s] = source[s]
              \/ candidate'[s] \notin Out /\ (candidate[s] \in Out => source'[s] # NoDocument)
<1>0. candidate \in [Student -> CandidateStatus \cup {"ABSENT"}]
  BY DEF IInv, TypeOK
<1>1. CASE \E e \in Editor, busy \in BOOLEAN : EditorStep(e, busy)
  <2>1. /\ Closed' /\ source' = source
        /\ \A s \in Student :
             candidate'[s] # candidate[s] => candidate'[s] = "VALIDATED" /\ candidate[s] \notin Out
    BY <1>1, ClosedForEditors
  <2> QED
    BY <2>1 DEF Out
<1>2. CASE \E t \in Student, d \in Document : Upsert(t, d)
  <2>1. PICK t \in Student, d \in Document : Upsert(t, d)
    BY <1>2
  <2>2. /\ d # NoDocument
        /\ \A s \in Student : IF s = t THEN candidate'[s] = "MATCHED" /\ source'[s] = d
                              ELSE candidate'[s] = candidate[s] /\ source'[s] = source[s]
    BY <2>1, NullsAssumption DEF Upsert, IInv, TypeOK
  <2>3. exam' = "CANCELLED" /\ UNCHANGED <<step, subject>>
    BY <2>1 DEF Upsert, editors, Closed
  <2>4. \A e \in Editor : step[e] = "resolve" => subject[e] \in Student
    BY DEF IInv, EditorsKnow, AboutNobody
  <2>5. Closed'
    BY <2>2, <2>3, <2>4 DEF Closed, Out
  <2> QED
    BY <2>2, <2>5 DEF Out
<1>3. CASE UNCHANGED vars
  BY <1>3 DEF vars, table, editors, Closed
<1> QED
  BY <1>1, <1>2, <1>3 DEF Next

(* Once an exam is cancelled and the edits in flight are done, nobody is
   added by hand, excluded or reinstated, for any number of administrators
   and uploads (assertExamCandidatesMutable). *)
THEOREM CancellationSettlesTheRoster == Spec => CancelledRosterSettles
<1>1. Settled => Closed
  BY DEF Settled, Closed
<1>2. IInv /\ Closed /\ [Next]_vars => Closed'
  BY ClosedForGood
<1>3. Closed => \A e \in Editor : step[e] # "reinstate"
  BY DEF Closed
<1>4. Spec => [](Settled => [](\A e \in Editor : step[e] # "reinstate"))
  BY <1>1, <1>2, <1>3, Invariance, PTL DEF Spec
<1>5. ASSUME NEW s \in Student
      PROVE  Spec =>
               /\ [](Settled /\ s \notin OnRoster
                       => [](s \in OnRoster => source[s] # NoDocument))
               /\ [](Settled /\ candidate[s] # "REJECTED" => [](candidate[s] # "REJECTED"))
               /\ [](Settled /\ candidate[s] = "REJECTED"
                       => [](candidate[s] # "REJECTED" => source[s] # NoDocument))
  <2> DEFINE Sourced == s \in OnRoster => source[s] # NoDocument
             Admitted == candidate[s] # "REJECTED"
             Barred == candidate[s] # "REJECTED" => source[s] # NoDocument
  <2>1. IInv /\ Closed /\ [Next]_vars =>
          \/ candidate[s] \in Out /\ candidate'[s] = candidate[s] /\ source'[s] = source[s]
          \/ candidate'[s] \notin Out /\ (candidate[s] \in Out => source'[s] # NoDocument)
    BY ClosedForGood
  <2>2. IInv /\ [Next]_vars /\ source[s] # NoDocument => source'[s] # NoDocument
    BY SourceStays, NullsAssumption DEF IInv
  <2>3. IInv /\ Closed /\ Sourced /\ [Next]_vars => Sourced'
    BY <2>1, <2>2 DEF OnRoster, Out
  <2>4. IInv /\ Closed /\ Admitted /\ [Next]_vars => Admitted'
    BY <2>1 DEF Out
  <2>5. IInv /\ Closed /\ Barred /\ [Next]_vars => Barred'
    BY <2>1, <2>2 DEF Out
  <2>6. s \notin OnRoster => Sourced
    OBVIOUS
  <2>7. candidate[s] = "REJECTED" => Barred
    OBVIOUS
  <2> QED
    BY <1>1, <1>2, <2>3, <2>4, <2>5, <2>6, <2>7, Invariance, PTL DEF Spec
<1> QED
  BY <1>4, <1>5 DEF CancelledRosterSettles

-----------------------------------------------------------------------------
(* What generations read.  However they interleave with edits and uploads,
   they take nobody but the candidates that are VALIDATED as they read. *)

ReadsInv == IInv /\ TypeOKReads

(* Edits and uploads are steps of Roster; a generation only reads. *)
LEMMA StepOfRoster ==
  ASSUME [NextReads]_readsVars
  PROVE  [Next]_vars
  BY DEF NextReads, GenerationStep, Request, Reconcile, BuildSolverInput, Solve,
         Persist, readsVars, Next

(* A generation adds nobody to its input or to its plan but the candidates
   that are VALIDATED when it reads them. *)
LEMMA GroupsComeFromValidated ==
  ASSUME TypeOKReads, [NextReads]_readsVars
  PROVE  /\ stage' \in {"none", "reconcile", "build", "solve", "persist"}
         /\ input' \subseteq input \cup Validated
         /\ seated' \subseteq seated \cup input
<1>1. CASE Request
  BY <1>1 DEF Request, TypeOKReads
<1>2. CASE Reconcile
  BY <1>2 DEF Reconcile, End, TypeOKReads
<1>3. CASE BuildSolverInput
  BY <1>3 DEF BuildSolverInput, SolverCandidates, TypeOKReads
<1>4. CASE Solve
  BY <1>4 DEF Solve, End, TypeOKReads
<1>5. CASE Persist
  BY <1>5 DEF Persist, End, TypeOKReads
<1>6. CASE UNCHANGED generation
  BY <1>6 DEF generation, TypeOKReads
<1> QED
  BY <1>1, <1>2, <1>3, <1>4, <1>5, <1>6 DEF NextReads, GenerationStep, readsVars

(* The invariant is inductive. *)
LEMMA ReadsStepPreserves ==
  ASSUME ReadsInv, [NextReads]_readsVars
  PROVE  ReadsInv'
<1>1. [Next]_vars
  BY StepOfRoster
<1>2. IInv'
  BY <1>1, StepPreserves, NullsAssumption DEF ReadsInv
<1>3. /\ stage' \in {"none", "reconcile", "build", "solve", "persist"}
      /\ input' \subseteq input \cup Validated
      /\ seated' \subseteq seated \cup input
  BY GroupsComeFromValidated DEF ReadsInv
<1>4. input \subseteq Student /\ seated \subseteq Student /\ Validated \subseteq Student
  BY DEF ReadsInv, TypeOKReads, Validated
<1>5. TypeOKReads'
  BY <1>2, <1>3, <1>4 DEF IInv, TypeOKReads
<1> QED
  BY <1>2, <1>5 DEF ReadsInv

(* The invariant in every behaviour. *)
THEOREM ReadsInvariance == SpecReads => []ReadsInv
<1>1. InitReads => ReadsInv
  <2> SUFFICES ASSUME InitReads PROVE ReadsInv
    OBVIOUS
  <2>1. IInv
    BY InitEstablishes DEF InitReads
  <2> QED
    BY <2>1 DEF InitReads, ReadsInv, IInv, TypeOKReads
<1>2. ReadsInv /\ [NextReads]_readsVars => ReadsInv'
  BY ReadsStepPreserves
<1> QED
  BY <1>1, <1>2, PTL DEF SpecReads

(* Every behaviour with a generation is one of the roster. *)
LEMMA ReadsAreRoster == SpecReads => Spec
<1>1. InitReads => Init
  BY DEF InitReads
<1>2. [NextReads]_readsVars => [Next]_vars
  BY StepOfRoster
<1> QED
  BY <1>1, <1>2, PTL DEF SpecReads, Spec

(* Generations that run and commit meanwhile do not open it again. *)
THEOREM SettledBesideGenerations == SpecReads => CancelledRosterSettles
  BY ReadsAreRoster, CancellationSettlesTheRoster

(* Who is out when a cancelled exam has settled is seated by no generation
   that starts, reads or commits afterwards, unless a document names the
   student, for any number of administrators, students and uploads. *)
THEOREM NobodyOutIsSeated == SpecReads => OutsidersStayUnseated
<1> SUFFICES ASSUME NEW s \in Student
             PROVE  SpecReads =>
                      LET out == s \notin input \cup seated /\ candidate[s] \in {"ABSENT", "REJECTED"}
                      IN  [](Settled /\ out => [](s \in seated => source[s] # NoDocument))
  BY DEF OutsidersStayUnseated
<1> DEFINE out == s \notin input \cup seated /\ candidate[s] \in {"ABSENT", "REJECTED"}
           Kept == source[s] = NoDocument => out
<1>1. Settled => Closed
  BY DEF Settled, Closed
<1>2. [NextReads]_readsVars => [Next]_vars
  BY StepOfRoster
<1>3. IInv /\ Closed /\ [Next]_vars => Closed'
  BY ClosedForGood
<1>4. ReadsInv /\ Closed /\ Kept /\ [NextReads]_readsVars => Kept'
  <2> SUFFICES ASSUME ReadsInv, Closed, Kept, [NextReads]_readsVars, source'[s] = NoDocument
               PROVE  out'
    OBVIOUS
  <2>1. source[s] = NoDocument
    BY <1>2, SourceStays, NullsAssumption DEF ReadsInv, IInv
  <2>2. out
    BY <2>1
  <2>3. candidate'[s] = candidate[s]
    BY <1>2, <2>2, ClosedForGood DEF ReadsInv, Out
  <2>4. input' \subseteq input \cup Validated /\ seated' \subseteq seated \cup input
    BY GroupsComeFromValidated DEF ReadsInv
  <2>5. s \notin Validated
    BY <2>2 DEF Validated
  <2> QED
    BY <2>2, <2>3, <2>4, <2>5
<1>5. out => Kept
  OBVIOUS
<1>6. Kept => (s \in seated => source[s] # NoDocument)
  OBVIOUS
<1>7. ReadsInv => IInv
  BY DEF ReadsInv
<1> HIDE DEF out, Kept
<1>8. SpecReads => [](Settled /\ out => [](s \in seated => source[s] # NoDocument))
  BY <1>1, <1>2, <1>3, <1>4, <1>5, <1>6, <1>7, ReadsInvariance, PTL DEF SpecReads
<1> QED
  BY <1>8 DEF out

-----------------------------------------------------------------------------
(* Uploads.                                                                *)

(* A student whose row some document brought or took over. *)
Brought(s) == s \in OnRoster /\ source[s] # NoDocument

Knows(u) ==
  /\ at[u] # "idle" => file[u] \in Document
  /\ at[u] \in {"processing", "setProcessing"} => parse[file[u]] # "ABSENT"
  /\ at[u] \in {"read", "upsert", "commit", "setFinal"}
       => parse[file[u]] \notin {"ABSENT", "UPLOADED"}
  /\ at[u] = "upsert" => todo[u] \subseteq Rows[file[u]]
  /\ at[u] \in {"upsert", "commit", "setFinal"} => verdict[u] \in Final
  /\ at[u] \in {"upsert", "commit", "setFinal"} /\ verdict[u] = "PARSED"
       => /\ file[u] \notin Blocked
          /\ \A s \in Rows[file[u]] \ todo[u] : Brought(s)

UploadsKnow == \A u \in Upload : Knows(u)

UploadsInv ==
  /\ IInv
  /\ TypeOKUploads
  /\ UploadsKnow
  /\ SourcesWereProcessed
  /\ ParsedIsComplete

-----------------------------------------------------------------------------
(* The upload's calls that leave the roster alone. *)
Quiet(u) ==
  \/ \E d \in Document : Receive(u, d)
  \/ Register(u) \/ CreateDocument(u) \/ ReadForProcessing(u) \/ SetProcessing(u)
  \/ ReadExisting(u) \/ UpsertsDone(u) \/ ReadForFinal(u) \/ SetFinal(u)
  \/ AbandonUpload(u)

(* ... and they do. *)
LEMMA QuietLeavesRoster ==
  ASSUME NEW u \in Upload, Quiet(u)
  PROVE  UNCHANGED vars
  BY DEF Quiet, Receive, Register, CreateDocument, ReadForProcessing, AssertParse,
         SetProcessing, ReadExisting, UpsertsDone, ReadForFinal, SetFinal, AbandonUpload

(* Every step is a step of Roster or leaves it alone. *)
LEMMA UploadStepOfRoster ==
  ASSUME TypeOKUploads, UploadsKnow, [NextUploads]_uploadsVars
  PROVE  [Next]_vars
<1>1. ASSUME UNCHANGED vars PROVE UNCHANGED vars
  BY <1>1 DEF vars, table, editors
<1>2. ASSUME NEW u \in Upload, UpsertOne(u) PROVE Next
  <2>1. PICK s \in todo[u] : Upsert(s, file[u])
    BY <1>2 DEF UpsertOne
  <2>2. s \in Student /\ file[u] \in Document
    BY <1>2 DEF UpsertOne, TypeOKUploads, UploadsKnow, Knows
  <2> QED
    BY <2>1, <2>2 DEF Next
<1>3. ASSUME NEW u \in Upload, Quiet(u) PROVE UNCHANGED vars
  BY <1>1, <1>3, QuietLeavesRoster
<1>4. CASE UNCHANGED uploadsVars
  BY <1>1, <1>4 DEF uploadsVars
<1> QED
  BY <1>2, <1>3, <1>4 DEF NextUploads, UploadStep, Quiet, Next

(* What a step of the roster leaves true of it. *)
LEMMA RosterSteps ==
  ASSUME UploadsInv, [NextUploads]_uploadsVars
  PROVE  /\ IInv' /\ TypeOK'
         /\ \A s \in Student : Brought(s) => Brought(s)'
<1>1. [Next]_vars
  BY UploadStepOfRoster DEF UploadsInv
<1>2. IInv' /\ TypeOK'
  BY <1>1, NullsAssumption, StepPreserves DEF UploadsInv, IInv
<1>3. OnRoster \subseteq OnRoster'
  BY <1>1, RowsStay DEF UploadsInv
<1>4. ASSUME NEW s \in Student, Brought(s) PROVE Brought(s)'
  BY <1>1, <1>3, <1>4, NullsAssumption, SourceStays DEF UploadsInv, IInv, Brought
<1> QED
  BY <1>2, <1>4

-----------------------------------------------------------------------------
(* No document is deleted, and none returns to UPLOADED. *)
ParseGrows ==
  \A d \in Document :
    /\ parse[d] # "ABSENT" => parse'[d] # "ABSENT"
    /\ parse[d] \notin {"ABSENT", "UPLOADED"} => parse'[d] \notin {"ABSENT", "UPLOADED"}

BroughtGrows == \A s \in Student : Brought(s) => Brought(s)'

(* The steps of others leave what upload v knows true. *)
LEMMA OthersKeepKnowledge ==
  ASSUME TypeOKUploads, NEW v \in Upload, Knows(v), ParseGrows, BroughtGrows,
         at'[v] = at[v], file'[v] = file[v], todo'[v] = todo[v],
         verdict'[v] = verdict[v]
  PROVE  Knows(v)'
<1>1. at[v] # "idle" => file[v] \in Document /\ Rows[file[v]] \subseteq Student
  BY FilesAssumption DEF Knows
<1>2. at[v] \in {"upsert", "commit", "setFinal"} /\ verdict[v] = "PARSED"
        => \A s \in Rows[file[v]] \ todo[v] : Brought(s)'
  BY <1>1 DEF Knows, BroughtGrows
<1> QED
  BY <1>1, <1>2 DEF Knows, ParseGrows

(* An upload's own step keeps the invariant, if it leaves the upload with
   what it needs to know and adds no PARSED document that is incomplete and
   no source that was not processed. *)
LEMMA OwnStep ==
  ASSUME UploadsInv, [NextUploads]_uploadsVars, NEW u \in Upload, ParseGrows,
         TypeOKUploads', Knows(u)',
         \A v \in Upload \ {u} :
           at'[v] = at[v] /\ file'[v] = file[v] /\ todo'[v] = todo[v] /\ verdict'[v] = verdict[v],
         \A s \in Student :
           source'[s] = source[s]
             \/ /\ source'[s] \in Document
                /\ s \in Rows[source'[s]]
                /\ parse'[source'[s]] \notin {"ABSENT", "UPLOADED"},
         \A d \in Document :
           parse'[d] = "PARSED" =>
             parse[d] = "PARSED" \/ (d \notin Blocked /\ \A s \in Rows[d] : Brought(s)')
  PROVE  UploadsInv'
<1>1. IInv' /\ BroughtGrows
  BY RosterSteps DEF BroughtGrows
<1>2. UploadsKnow'
  BY <1>1, OthersKeepKnowledge DEF UploadsInv, UploadsKnow
<1>3. SourcesWereProcessed'
  <2>1. \A s \in Student : source[s] \in Document \cup {NoDocument}
    BY DEF UploadsInv, TypeOKUploads, TypeOK
  <2> QED
    BY <2>1 DEF UploadsInv, SourcesWereProcessed, ParseGrows
<1>4. ParsedIsComplete'
  <2>1. \A d \in Document : Rows[d] \subseteq Student
    BY FilesAssumption
  <2>2. ASSUME NEW d \in Document, parse[d] = "PARSED"
        PROVE  d \notin Blocked /\ \A s \in Rows[d] : Brought(s)'
    BY <1>1, <2>1, <2>2 DEF UploadsInv, ParsedIsComplete, BroughtGrows, Brought
  <2> QED
    BY <2>2 DEF ParsedIsComplete, Brought
<1> QED
  BY <1>1, <1>2, <1>3, <1>4 DEF UploadsInv

(* ... of which this is the common case: the roster and the documents that
   are PARSED stay as they are. *)
LEMMA QuietStep ==
  ASSUME UploadsInv, [NextUploads]_uploadsVars, NEW u \in Upload, UNCHANGED vars, ParseGrows,
         TypeOKUploads', Knows(u)',
         \A v \in Upload \ {u} :
           at'[v] = at[v] /\ file'[v] = file[v] /\ todo'[v] = todo[v] /\ verdict'[v] = verdict[v],
         \A d \in Document : parse'[d] = "PARSED" => parse[d] = "PARSED"
  PROVE  UploadsInv'
  BY OwnStep DEF vars, table, editors

(* The upload goes on, or ends; the documents stay as they are. *)
LEMMA ProceedKeeps ==
  ASSUME UploadsInv, [NextUploads]_uploadsVars, NEW u \in Upload, UNCHANGED <<vars, parse>>,
         NEW next \in At \ {"idle", "upsert"}, Proceed(u, next),
         file[u] \in Document, todo[u] = {},
         next \in {"processing", "setProcessing"} => parse[file[u]] # "ABSENT",
         next = "read" => parse[file[u]] \notin {"ABSENT", "UPLOADED"},
         next \in {"commit", "setFinal"} => at[u] \in {"upsert", "commit"}
  PROVE  UploadsInv'
<1>1. TypeOK'
  BY RosterSteps
<1>2. TypeOKUploads'
  BY <1>1 DEF UploadsInv, TypeOKUploads, Proceed, Call
<1>3. Knows(u)'
  BY DEF UploadsInv, TypeOKUploads, UploadsKnow, Knows, Proceed, Call, vars, table, editors, Brought, OnRoster
<1> QED
  BY <1>2, <1>3, QuietStep DEF UploadsInv, TypeOKUploads, Proceed, Call, ParseGrows

(* ... or returns or throws. *)
LEMMA EndUploadKeeps ==
  ASSUME UploadsInv, [NextUploads]_uploadsVars, NEW u \in Upload, UNCHANGED <<vars, parse>>, EndUpload(u)
  PROVE  UploadsInv'
<1>1. TypeOK'
  BY RosterSteps
<1>2. TypeOKUploads'
  BY <1>1 DEF UploadsInv, TypeOKUploads, EndUpload, Call, At
<1>3. Knows(u)'
  BY DEF UploadsInv, TypeOKUploads, Knows, EndUpload, Call
<1> QED
  BY <1>2, <1>3, QuietStep DEF UploadsInv, TypeOKUploads, EndUpload, Call, ParseGrows

(* A read of the parse status that the transition table judges. *)
LEMMA AssertKeeps ==
  ASSUME UploadsInv, [NextUploads]_uploadsVars, NEW u \in Upload, NEW from, NEW to, NEW next,
         AssertParse(u, from, to, next),
         \/ from = "processing" /\ next = "setProcessing"
         \/ from = "commit" /\ next = "setFinal"
  PROVE  UploadsInv'
<1>1. CASE EndUpload(u)
  BY <1>1, EndUploadKeeps DEF AssertParse
<1>2. CASE Proceed(u, next)
  <2>1. file[u] \in Document /\ todo[u] = {}
    BY DEF UploadsInv, TypeOKUploads, UploadsKnow, Knows, AssertParse
  <2>2. next = "setProcessing" => parse[file[u]] # "ABSENT"
    BY DEF UploadsInv, UploadsKnow, Knows, AssertParse
  <2>3. next \in At \ {"idle", "upsert"}
    BY DEF At
  <2> QED
    BY <1>2, <2>1, <2>2, <2>3, ProceedKeeps DEF AssertParse
<1> QED
  BY <1>1, <1>2 DEF AssertParse

(* Before the upload reads the roster: its row appears, or the one that
   another upload made is taken. *)
LEMMA ReceiveKeeps ==
  ASSUME UploadsInv, [NextUploads]_uploadsVars, NEW u \in Upload, NEW d \in Document, Receive(u, d)
  PROVE  UploadsInv'
<1>1. TypeOK'
  BY RosterSteps
<1>2. TypeOKUploads'
  BY <1>1 DEF UploadsInv, TypeOKUploads, Receive, Call, At
<1>3. Knows(u)'
  BY DEF UploadsInv, TypeOKUploads, Knows, Receive, Call
<1> QED
  BY <1>2, <1>3, QuietStep DEF UploadsInv, TypeOKUploads, Receive, Call, ParseGrows

LEMMA RegisterKeeps ==
  ASSUME UploadsInv, [NextUploads]_uploadsVars, NEW u \in Upload, Register(u)
  PROVE  UploadsInv'
<1>1. file[u] \in Document /\ todo[u] = {}
  BY DEF UploadsInv, TypeOKUploads, UploadsKnow, Knows, Register
<1>2. CASE parse[file[u]] = "ABSENT"
  BY <1>1, <1>2, ProceedKeeps DEF Register, At
<1>3. CASE parse[file[u]] # "ABSENT"
  BY <1>1, <1>3, ProceedKeeps DEF Register, At
<1> QED
  BY <1>2, <1>3

LEMMA CreateKeeps ==
  ASSUME UploadsInv, [NextUploads]_uploadsVars, NEW u \in Upload, CreateDocument(u)
  PROVE  UploadsInv'
<1>1. CASE parse[file[u]] # "ABSENT"
  BY <1>1, EndUploadKeeps DEF CreateDocument
<1>2. CASE parse[file[u]] = "ABSENT"
  <2>1. TypeOK'
    BY RosterSteps
  <2>2. TypeOKUploads'
    BY <1>2, <2>1 DEF UploadsInv, TypeOKUploads, CreateDocument, Proceed, Call, At,
                      ParseStatus, PARSE_TRANSITIONS
  <2>3. Knows(u)'
    BY <1>2 DEF UploadsInv, TypeOKUploads, UploadsKnow, Knows, CreateDocument, Proceed, Call
  <2> QED
    BY <1>2, <2>2, <2>3, QuietStep
       DEF UploadsInv, TypeOKUploads, CreateDocument, Proceed, Call, ParseGrows
<1> QED
  BY <1>1, <1>2

LEMMA SetProcessingKeeps ==
  ASSUME UploadsInv, [NextUploads]_uploadsVars, NEW u \in Upload, SetProcessing(u)
  PROVE  UploadsInv'
<1>1. TypeOK'
  BY RosterSteps
<1>2. TypeOKUploads'
  BY <1>1 DEF UploadsInv, TypeOKUploads, SetProcessing, Proceed, Call, At,
              ParseStatus, PARSE_TRANSITIONS
<1>3. Knows(u)'
  BY DEF UploadsInv, TypeOKUploads, UploadsKnow, Knows, SetProcessing, Proceed, Call
<1> QED
  BY <1>2, <1>3, QuietStep
     DEF UploadsInv, TypeOKUploads, SetProcessing, Proceed, Call, ParseGrows

(* A verdict PARSED says that every row of the file is still to be upserted. *)
LEMMA ReadExistingKeeps ==
  ASSUME UploadsInv, [NextUploads]_uploadsVars, NEW u \in Upload, ReadExisting(u)
  PROVE  UploadsInv'
<1> DEFINE matched == Rows[file[u]] \ OnRoster
<1>1. TypeOK'
  BY RosterSteps
<1>2. file[u] \in Document /\ parse[file[u]] \notin {"ABSENT", "UPLOADED"}
  BY DEF UploadsInv, UploadsKnow, Knows, ReadExisting
<1>3. matched \subseteq Rows[file[u]] /\ Rows[file[u]] \subseteq Student
  BY <1>2, FilesAssumption
<1>4. /\ FinalStatus(file[u], matched) \in Final
      /\ FinalStatus(file[u], matched) = "PARSED"
           => file[u] \notin Blocked /\ Rows[file[u]] \ matched = {}
  BY <1>3 DEF FinalStatus, Final
<1>5. /\ at' = [at EXCEPT ![u] = "upsert"]
      /\ todo' = [todo EXCEPT ![u] = matched]
      /\ verdict' = [verdict EXCEPT ![u] = FinalStatus(file[u], matched)]
      /\ UNCHANGED <<vars, parse, file>>
  BY DEF ReadExisting, Call
<1> HIDE DEF matched
<1>6. TypeOKUploads'
  BY <1>1, <1>3, <1>4, <1>5 DEF UploadsInv, TypeOKUploads, At
<1>7. Knows(u)'
  BY <1>2, <1>3, <1>4, <1>5 DEF UploadsInv, TypeOKUploads, Knows
<1> QED
  BY <1>5, <1>6, <1>7, QuietStep DEF UploadsInv, TypeOKUploads, ParseGrows

(* The candidate is upserted and struck off the list. *)
LEMMA UpsertOneKeeps ==
  ASSUME UploadsInv, [NextUploads]_uploadsVars, NEW u \in Upload, UpsertOne(u)
  PROVE  UploadsInv'
<1>1. PICK s \in todo[u] : Upsert(s, file[u]) /\ todo' = [todo EXCEPT ![u] = @ \ {s}]
  BY DEF UpsertOne
<1>2. /\ file[u] \in Document /\ parse[file[u]] \notin {"ABSENT", "UPLOADED"}
      /\ s \in Rows[file[u]] /\ s \in Student
  BY <1>1 DEF UploadsInv, TypeOKUploads, UploadsKnow, Knows, UpsertOne
<1>3. TypeOK' /\ BroughtGrows
  BY RosterSteps DEF BroughtGrows
<1>4. TypeOKUploads'
  BY <1>1, <1>3 DEF UploadsInv, TypeOKUploads, UpsertOne
<1>5. Brought(s)'
  BY <1>1, <1>2, NullsAssumption DEF UploadsInv, TypeOKUploads, TypeOK, Upsert, Brought, OnRoster
<1>6. \A t \in Rows[file[u]] : t \in Student
  BY <1>2, FilesAssumption
<1>7. Knows(u)'
  <2>1. verdict[u] = "PARSED" =>
          file[u] \notin Blocked /\ \A t \in Rows[file[u]] \ todo'[u] : Brought(t)'
    BY <1>1, <1>3, <1>5, <1>6
       DEF UploadsInv, TypeOKUploads, UploadsKnow, Knows, UpsertOne, BroughtGrows
  <2>2. todo'[u] \subseteq Rows[file[u]]
    BY <1>1 DEF UploadsInv, TypeOKUploads, UploadsKnow, Knows, UpsertOne
  <2>3. at'[u] = "upsert" /\ file'[u] = file[u] /\ parse' = parse /\ verdict'[u] = verdict[u]
    BY DEF UpsertOne
  <2>4. verdict[u] \in Final
    BY DEF UploadsInv, UploadsKnow, Knows, UpsertOne
  <2> QED
    BY <1>2, <2>1, <2>2, <2>3, <2>4 DEF Knows
<1>8. \A t \in Student : source'[t] = source[t]
        \/ (source'[t] = file[u] /\ t = s)
  BY <1>1 DEF Upsert, UploadsInv, TypeOKUploads, TypeOK
<1> QED
  BY <1>1, <1>2, <1>4, <1>7, <1>8, OwnStep DEF UpsertOne, UploadsInv, TypeOKUploads, ParseGrows

LEMMA UpsertsDoneKeeps ==
  ASSUME UploadsInv, [NextUploads]_uploadsVars, NEW u \in Upload, UpsertsDone(u)
  PROVE  UploadsInv'
<1>1. file[u] \in Document
  BY DEF UploadsInv, UploadsKnow, Knows, UpsertsDone
<1> QED
  BY <1>1, ProceedKeeps DEF UpsertsDone, At

(* The verdict, however old it is, is still right. *)
LEMMA SetFinalKeeps ==
  ASSUME UploadsInv, [NextUploads]_uploadsVars, NEW u \in Upload, SetFinal(u)
  PROVE  UploadsInv'
<1>1. TypeOK' /\ BroughtGrows
  BY RosterSteps DEF BroughtGrows
<1>2. /\ file[u] \in Document
      /\ verdict[u] \in Final
      /\ todo[u] = {}
      /\ verdict[u] = "PARSED"
           => file[u] \notin Blocked /\ \A s \in Rows[file[u]] : Brought(s)
  BY DEF UploadsInv, TypeOKUploads, UploadsKnow, Knows, SetFinal
<1>3. TypeOKUploads'
  BY <1>1, <1>2 DEF UploadsInv, TypeOKUploads, SetFinal, EndUpload, Call, At, Final,
                    ParseStatus, PARSE_TRANSITIONS
<1>4. Knows(u)'
  BY DEF UploadsInv, TypeOKUploads, Knows, SetFinal, EndUpload, Call
<1>5. ParseGrows
  BY <1>2 DEF UploadsInv, TypeOKUploads, SetFinal, ParseGrows, Final
<1>6. \A s \in Rows[file[u]] : s \in Student
  BY <1>2, FilesAssumption
<1>7. \A d \in Document :
        parse'[d] = "PARSED" =>
          parse[d] = "PARSED" \/ (d \notin Blocked /\ \A s \in Rows[d] : Brought(s)')
  BY <1>1, <1>2, <1>6 DEF UploadsInv, TypeOKUploads, SetFinal, BroughtGrows
<1> QED
  BY <1>3, <1>4, <1>5, <1>7, OwnStep DEF UploadsInv, TypeOKUploads, SetFinal, EndUpload, Call, vars, table, editors

(* The administrators touch no document and no upload. *)
LEMMA EditorKeepsUploads ==
  ASSUME UploadsInv, [NextUploads]_uploadsVars, UNCHANGED <<parse, uploads>>,
         \A s \in Student : source'[s] = source[s]
  PROVE  UploadsInv'
<1>1. IInv' /\ TypeOK' /\ BroughtGrows
  BY RosterSteps DEF BroughtGrows
<1>2. TypeOKUploads'
  BY <1>1 DEF UploadsInv, TypeOKUploads, uploads
<1>3. UploadsKnow'
  BY <1>1, OthersKeepKnowledge DEF UploadsInv, UploadsKnow, uploads, ParseGrows
<1>4. SourcesWereProcessed'
  BY DEF UploadsInv, SourcesWereProcessed
<1>5. ParsedIsComplete'
  <2>1. \A d \in Document : Rows[d] \subseteq Student
    BY FilesAssumption
  <2> QED
    BY <1>1, <2>1 DEF UploadsInv, ParsedIsComplete, BroughtGrows, Brought
<1> QED
  BY <1>1, <1>2, <1>3, <1>4, <1>5 DEF UploadsInv

-----------------------------------------------------------------------------
(* No documents, no candidates, no uploads. *)
LEMMA UploadsInitEstablishes == InitUploads => UploadsInv
<1> SUFFICES ASSUME InitUploads PROVE UploadsInv
  OBVIOUS
<1>1. IInv
  BY InitEstablishes DEF InitUploads
<1>2. TypeOK
  BY <1>1 DEF IInv
<1>3. TypeOKUploads
  BY <1>2 DEF InitUploads, TypeOKUploads, At
<1>4. UploadsKnow
  BY DEF InitUploads, UploadsKnow, Knows
<1>5. SourcesWereProcessed /\ ParsedIsComplete
  BY DEF InitUploads, Init, SourcesWereProcessed, ParsedIsComplete
<1> QED
  BY <1>1, <1>3, <1>4, <1>5 DEF UploadsInv

(* The invariant is inductive. *)
LEMMA UploadsStepPreserves ==
  ASSUME UploadsInv, [NextUploads]_uploadsVars
  PROVE  UploadsInv'
<1>1. ASSUME NEW u \in Upload, NEW d \in Document, Receive(u, d) PROVE UploadsInv'
  BY <1>1, ReceiveKeeps
<1>2. ASSUME NEW u \in Upload, Register(u) PROVE UploadsInv'
  BY <1>2, RegisterKeeps
<1>3. ASSUME NEW u \in Upload, CreateDocument(u) PROVE UploadsInv'
  BY <1>3, CreateKeeps
<1>4. ASSUME NEW u \in Upload, ReadForProcessing(u) PROVE UploadsInv'
  BY <1>4, AssertKeeps DEF ReadForProcessing
<1>5. ASSUME NEW u \in Upload, SetProcessing(u) PROVE UploadsInv'
  BY <1>5, SetProcessingKeeps
<1>6. ASSUME NEW u \in Upload, ReadExisting(u) PROVE UploadsInv'
  BY <1>6, ReadExistingKeeps
<1>7. ASSUME NEW u \in Upload, UpsertOne(u) PROVE UploadsInv'
  BY <1>7, UpsertOneKeeps
<1>8. ASSUME NEW u \in Upload, UpsertsDone(u) PROVE UploadsInv'
  BY <1>8, UpsertsDoneKeeps
<1>9. ASSUME NEW u \in Upload, ReadForFinal(u) PROVE UploadsInv'
  BY <1>9, AssertKeeps DEF ReadForFinal
<1>10. ASSUME NEW u \in Upload, SetFinal(u) PROVE UploadsInv'
  BY <1>10, SetFinalKeeps
<1>11. ASSUME NEW u \in Upload, AbandonUpload(u) PROVE UploadsInv'
  BY <1>11, EndUploadKeeps DEF AbandonUpload
<1>12. ASSUME NEW e \in Editor, NEW busy \in BOOLEAN, EditorStep(e, busy),
              UNCHANGED <<parse, uploads>>
       PROVE  UploadsInv'
  BY <1>12, EditorsKeepSources, EditorKeepsUploads
<1>13. ASSUME UNCHANGED uploadsVars PROVE UploadsInv'
  BY <1>13, EditorKeepsUploads DEF uploadsVars, vars, table
<1> QED
  BY <1>1, <1>2, <1>3, <1>4, <1>5, <1>6, <1>7, <1>8, <1>9, <1>10, <1>11, <1>12,
     <1>13 DEF NextUploads, UploadStep

(* The invariant in every behaviour. *)
THEOREM UploadsInvariance == SpecUploads => []UploadsInv
<1>1. InitUploads => UploadsInv
  BY UploadsInitEstablishes
<1>2. UploadsInv /\ [NextUploads]_uploadsVars => UploadsInv'
  BY UploadsStepPreserves
<1> QED
  BY <1>1, <1>2, PTL DEF SpecUploads

(* Every variable of the uploads and of the roster has its type. *)
THEOREM UploadsTypeCorrect == SpecUploads => []TypeOKUploads
<1>1. UploadsInv => TypeOKUploads
  BY DEF UploadsInv
<1> QED
  BY <1>1, UploadsInvariance, PTL

(* A document that says PARSED matched in full, and every student it names is
   a candidate that a document brought, for any number of uploads. *)
THEOREM ParsedDocumentsAreComplete == SpecUploads => []ParsedIsComplete
<1>1. UploadsInv => ParsedIsComplete
  BY DEF UploadsInv
<1> QED
  BY <1>1, UploadsInvariance, PTL

(* A candidate's source is a document that names it and was processed. *)
THEOREM SourcesAreProcessed == SpecUploads => []SourcesWereProcessed
<1>1. UploadsInv => SourcesWereProcessed
  BY DEF UploadsInv
<1> QED
  BY <1>1, UploadsInvariance, PTL

(* Through the HTTP API only a candidate that a document named is ever
   VALIDATED, now with the uploads of ingestExamDocument in place of Roster's free upserts. *)
THEOREM ValidatedOnlyFromUploads == SpecUploads => []ValidatedCameFromDocument
<1>1. UploadsInv => ValidatedCameFromDocument
  BY DEF UploadsInv, IInv, ValidatedCameFromDocument
<1> QED
  BY <1>1, UploadsInvariance, PTL

(* Every behaviour with uploads is one of the roster ... *)
LEMMA UploadsAreRoster == SpecUploads => Spec
<1>1. InitUploads => Init
  BY DEF InitUploads
<1>2. UploadsInv /\ [NextUploads]_uploadsVars => [Next]_vars
  BY UploadStepOfRoster DEF UploadsInv
<1> QED
  BY <1>1, <1>2, UploadsInvariance, PTL DEF SpecUploads, Spec

(* ... so that uploads which overlap do not open a cancelled exam's roster to
   additions by hand, exclusions and reinstatements either. *)
THEOREM SettledBesideUploads == SpecUploads => CancelledRosterSettles
  BY UploadsAreRoster, CancellationSettlesTheRoster
=============================================================================
