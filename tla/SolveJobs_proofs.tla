--------------------------- MODULE SolveJobs_proofs ---------------------------
(***************************************************************************)
(* What holds of the solve jobs of an exam for any number of jobs and of   *)
(* callers, the reaper among them.                                         *)
(*                                                                         *)
(* A write is by id and follows a read that may be out of date, so a       *)
(* terminal status is not final (LegalJobTransitions fails).  Two things   *)
(* do survive every interleaving: the partial unique index keeps one job   *)
(* active, and startedAt, once set, stays set.                             *)
(***************************************************************************)
EXTENDS SolveJobs, TLAPS

(* What is still true of the job a caller has read, and of the jobs the
   reaper found: the row exists, and a verdict is about to be written only
   of a job that was started. *)
CallersKnow ==
  /\ \A c \in Caller :
       /\ call[c] \in JobStatus \cup {"beat"} => /\ subject[c] \in JobId
                                                 /\ job[subject[c]] # "ABSENT"
       /\ call[c] \in {"SUCCEEDED", "INFEASIBLE"} => started[subject[c]]
  /\ \A j \in stale : job[j] # "ABSENT"

IInv ==
  /\ TypeOK
  /\ CallersKnow
  /\ OneActiveJob
  /\ VerdictsWereStarted

-----------------------------------------------------------------------------
(* No job and no open call: all of it holds. *)
LEMMA InitEstablishes == Init => IInv
  BY DEF Init, IInv, TypeOK, CallersKnow, OneActiveJob, VerdictsWereStarted,
         ActiveJobs, Active, Terminal, JobStatus

(* A call that begins with a read: nothing is known but what it read. *)
LEMMA BeginPreserves ==
  ASSUME IInv, NEW c \in Caller, NEW w \in JobStatus \cup {"insert", "beat"},
         NEW j \in JobId \cup {NoJob}, Begin(c, w, j),
         w \in JobStatus \cup {"beat"} => j \in JobId /\ job[j] # "ABSENT",
         w \in {"SUCCEEDED", "INFEASIBLE"} => started[j]
  PROVE  IInv'
<1>1. TypeOK'
  BY DEF IInv, TypeOK, Begin, table
<1>2. CallersKnow'
  BY DEF IInv, TypeOK, CallersKnow, Begin, table
<1>3. OneActiveJob' /\ VerdictsWereStarted'
  BY DEF IInv, OneActiveJob, ActiveJobs, VerdictsWereStarted, Begin, table
<1> QED
  BY <1>1, <1>2, <1>3 DEF IInv

(* The move of a job by a read that passed assertJobTransition. *)
LEMMA ReadPreserves ==
  ASSUME IInv, NEW c \in Caller, NEW j \in JobId, NEW s \in JobStatus, Read(c, j, s)
  PROVE  IInv'
<1>1. job[j] # "ABSENT" /\ s \in JOB_TRANSITIONS[job[j]] /\ Begin(c, s, j)
  BY DEF Read, MayBecome
<1>2. s \in {"SUCCEEDED", "INFEASIBLE"} => job[j] = "RUNNING"
  BY <1>1 DEF IInv, TypeOK, JOB_TRANSITIONS, JobStatus, Active, Terminal
<1>3. s \in {"SUCCEEDED", "INFEASIBLE"} => started[j]
  BY <1>2 DEF IInv, VerdictsWereStarted
<1> QED
  BY <1>1, <1>3, BeginPreserves

(* The row of the request's new job, which the index lets be active. *)
LEMMA InsertPreserves ==
  ASSUME IInv, NEW c \in Caller, NEW j \in JobId, RequestInsert(c, j)
  PROVE  IInv'
<1>1. /\ job[j] = "ABSENT" /\ ActiveJobs \subseteq {j}
      /\ job' = [job EXCEPT ![j] = "QUEUED"]
      /\ Finish(c) /\ UNCHANGED <<started, beating>>
  BY DEF RequestInsert, ActiveIndexAdmits
<1>2. TypeOK'
  BY <1>1 DEF IInv, TypeOK, Finish, JobStatus, Active
<1>3. CallersKnow'
  BY <1>1 DEF IInv, TypeOK, CallersKnow, Finish, JobStatus, Active, Terminal
<1>4. OneActiveJob'
  BY <1>1 DEF IInv, TypeOK, OneActiveJob, ActiveJobs
<1>5. VerdictsWereStarted'
  BY <1>1 DEF IInv, TypeOK, VerdictsWereStarted
<1> QED
  BY <1>2, <1>3, <1>4, <1>5 DEF IInv

(* The update by id, whatever the job is by now. *)
LEMMA WritePreserves ==
  ASSUME IInv, NEW c \in Caller, Write(c)
  PROVE  IInv'
<1> DEFINE s == call[c]
           j == subject[c]
<1>1. /\ s \in JobStatus
      /\ j \in JobId /\ job[j] # "ABSENT"
      /\ s \in {"SUCCEEDED", "INFEASIBLE"} => started[j]
  BY DEF IInv, CallersKnow, Write
<1>2. /\ s \in Active => ActiveJobs \subseteq {j}
      /\ job' = [job EXCEPT ![j] = s]
      /\ started' = [started EXCEPT ![j] = started[j] \/ s = "RUNNING"]
      /\ beating' = [beating EXCEPT ![j] = beating[j] \/ s = "RUNNING"]
      /\ Finish(c)
  BY DEF Write, IndexAdmitsStatus, ActiveIndexAdmits
<1>3. TypeOK'
  BY <1>1, <1>2 DEF IInv, TypeOK, Finish
<1>4. \A i \in JobId : started[i] => started'[i]
  BY <1>1, <1>2 DEF IInv, TypeOK
<1>5. \A i \in JobId : job[i] # "ABSENT" => job'[i] # "ABSENT"
  BY <1>1, <1>2 DEF IInv, TypeOK, JobStatus, Active, Terminal
<1>6. CallersKnow'
  BY <1>2, <1>4, <1>5 DEF IInv, TypeOK, CallersKnow, Finish, JobStatus, Active, Terminal
<1>7. OneActiveJob'
  BY <1>1, <1>2 DEF IInv, TypeOK, OneActiveJob, ActiveJobs
<1>8. VerdictsWereStarted'
  <2>1. s = "RUNNING" => started'[j]
    BY <1>1, <1>2 DEF IInv, TypeOK
  <2> QED
    BY <1>1, <1>2, <1>4, <2>1 DEF IInv, TypeOK, VerdictsWereStarted
<1> QED
  BY <1>3, <1>6, <1>7, <1>8 DEF IInv

(* Steps that leave every job's status and startedAt alone and begin no
   call: rejected and abandoned calls, heartbeats, the reaper's search. *)
LEMMA QuietPreserves ==
  ASSUME IInv, UNCHANGED <<job, started>>, TypeOK',
         \A c \in Caller : /\ call'[c] \in {call[c], "none"}
                           /\ call'[c] # "none" => subject'[c] = subject[c],
         \A j \in stale' : job[j] # "ABSENT"
  PROVE  IInv'
<1>1. CallersKnow'
  BY DEF IInv, CallersKnow, JobStatus, Active, Terminal
<1>2. OneActiveJob' /\ VerdictsWereStarted'
  BY DEF IInv, OneActiveJob, ActiveJobs, VerdictsWereStarted
<1> QED
  BY <1>1, <1>2 DEF IInv

LEMMA FinishPreserves ==
  ASSUME IInv, NEW c \in Caller, Finish(c), UNCHANGED <<job, started>>,
         beating' \in [JobId -> BOOLEAN]
  PROVE  IInv'
<1>1. TypeOK'
  BY DEF IInv, TypeOK, Finish
<1>2. \A d \in Caller : /\ call'[d] \in {call[d], "none"}
                        /\ call'[d] # "none" => subject'[d] = subject[d]
  BY DEF IInv, TypeOK, Finish
<1>3. \A j \in stale' : job[j] # "ABSENT"
  BY DEF IInv, CallersKnow, Finish
<1> QED
  BY <1>1, <1>2, <1>3, QuietPreserves

(* The reaper's update by id. *)
LEMMA ReapWritePreserves ==
  ASSUME IInv, NEW j \in JobId, ReapWrite(j)
  PROVE  IInv'
<1>1. /\ j \in stale /\ stale' = stale \ {j}
      /\ job' = [job EXCEPT ![j] = "FAILED"]
      /\ UNCHANGED <<started, beating, call, subject>>
  BY DEF ReapWrite, callers
<1>2. TypeOK'
  BY <1>1 DEF IInv, TypeOK, JobStatus, Terminal
<1>3. CallersKnow'
  BY <1>1 DEF IInv, TypeOK, CallersKnow
<1>4. OneActiveJob'
  BY <1>1 DEF IInv, TypeOK, OneActiveJob, ActiveJobs, Active
<1>5. VerdictsWereStarted'
  BY <1>1 DEF IInv, TypeOK, VerdictsWereStarted
<1> QED
  BY <1>2, <1>3, <1>4, <1>5 DEF IInv

-----------------------------------------------------------------------------
(* Every step of a caller. *)
LEMMA CallerPreserves ==
  ASSUME IInv, NEW c \in Caller,
         Requests(c) \/ Moves(c, JobStatus) \/ Heartbeats(c) \/ Abandon(c)
  PROVE  IInv'
<1>1. CASE RequestReturnsActive(c)
  BY <1>1 DEF RequestReturnsActive, vars, table, callers, IInv, TypeOK, CallersKnow,
              OneActiveJob, ActiveJobs, VerdictsWereStarted
<1>2. CASE RequestFindsNone(c)
  BY <1>2, BeginPreserves DEF RequestFindsNone, JobStatus, Active, Terminal
<1>3. ASSUME NEW j \in JobId, RequestInsert(c, j) PROVE IInv'
  BY <1>3, InsertPreserves
<1>4. ASSUME NEW j \in JobId, NEW s \in JobStatus, Read(c, j, s) PROVE IInv'
  BY <1>4, ReadPreserves
<1>5. CASE Write(c)
  BY <1>5, WritePreserves
<1>6. CASE RequestRejected(c) \/ WriteRejected(c) \/ Abandon(c)
  <2>1. Finish(c) /\ UNCHANGED table
    BY <1>6 DEF RequestRejected, WriteRejected, Abandon
  <2> QED
    BY <2>1, FinishPreserves DEF IInv, TypeOK, table
<1>7. ASSUME NEW j \in JobId, HeartbeatRead(c, j) PROVE IInv'
  <2>1. job[j] # "ABSENT" /\ Begin(c, "beat", j)
    BY <1>7 DEF HeartbeatRead
  <2> QED
    BY <2>1, BeginPreserves
<1>8. CASE HeartbeatWrite(c)
  <2>1. Finish(c) /\ UNCHANGED <<job, started>>
    BY <1>8 DEF HeartbeatWrite
  <2>2. beating' \in [JobId -> BOOLEAN]
    BY <1>8 DEF IInv, TypeOK, HeartbeatWrite
  <2> QED
    BY <2>1, <2>2, FinishPreserves
<1> QED
  BY <1>1, <1>2, <1>3, <1>4, <1>5, <1>6, <1>7, <1>8 DEF Requests, Moves, Heartbeats

(* Every step of the reaper and of the clock. *)
LEMMA ReaperPreserves ==
  ASSUME IInv, Reaper \/ \E j \in JobId : HeartbeatAges(j)
  PROVE  IInv'
<1>1. CASE ReapFind
  <2>1. UNCHANGED <<job, started, beating, call, subject>>
    BY <1>1 DEF ReapFind, table, callers
  <2>2. stale' \subseteq JobId /\ \A j \in stale' : job[j] # "ABSENT"
    BY <1>1 DEF ReapFind, IsStale
  <2> QED
    BY <2>1, <2>2, QuietPreserves DEF IInv, TypeOK
<1>2. ASSUME NEW j \in JobId, ReapWrite(j) PROVE IInv'
  BY <1>2, ReapWritePreserves
<1>3. CASE ReapAbandon
  BY <1>3, QuietPreserves DEF ReapAbandon, table, callers, IInv, TypeOK
<1>4. ASSUME NEW j \in JobId, HeartbeatAges(j) PROVE IInv'
  <2>1. UNCHANGED <<job, started, call, subject, stale>>
    BY <1>4 DEF HeartbeatAges, callers
  <2>2. beating' \in [JobId -> BOOLEAN]
    BY <1>4 DEF IInv, TypeOK, HeartbeatAges
  <2> QED
    BY <2>1, <2>2, QuietPreserves DEF IInv, TypeOK, CallersKnow
<1> QED
  BY <1>1, <1>2, <1>3, <1>4 DEF Reaper

(* Every step keeps the inductive invariant. *)
LEMMA StepPreserves == IInv /\ [Next]_vars => IInv'
<1> SUFFICES ASSUME IInv, [Next]_vars PROVE IInv'
  OBVIOUS
<1>1. CASE UNCHANGED vars
  BY <1>1 DEF vars, table, callers, IInv, TypeOK, CallersKnow, OneActiveJob,
              ActiveJobs, VerdictsWereStarted
<1>2. CASE Next
  BY <1>2, CallerPreserves, ReaperPreserves DEF Next
<1> QED
  BY <1>1, <1>2

(* The inductive invariant holds of every behaviour of the jobs. *)
THEOREM Invariance == Spec => []IInv
  BY InitEstablishes, StepPreserves, PTL DEF Spec

(* Type correctness of the jobs and of the open calls. *)
THEOREM TypeCorrect == Spec => []TypeOK
<1>1. IInv => TypeOK
  BY DEF IInv
<1> QED
  BY <1>1, Invariance, PTL

(* Whoever requests, starts, cancels and reaps, an exam has at most one
   active job. *)
THEOREM AtMostOneActive == Spec => []OneActiveJob
<1>1. IInv => OneActiveJob
  BY DEF IInv
<1> QED
  BY <1>1, Invariance, PTL

(* No interleaving gives a solver verdict to a job that was not started. *)
THEOREM VerdictsNeedAStart == Spec => []VerdictsWereStarted
<1>1. IInv => VerdictsWereStarted
  BY DEF IInv
<1> QED
  BY <1>1, Invariance, PTL
=============================================================================
