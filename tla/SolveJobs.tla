------------------------------ MODULE SolveJobs ------------------------------
(***************************************************************************)
(* The solve jobs of ONE exam (src/src/services/solveJob.service.ts): the  *)
(* record of every generation attempt, moved by the generation itself, by  *)
(* an operator who cancels, and by the reaper that fails a RUNNING job     *)
(* whose heartbeat is too old.                                             *)
(*                                                                         *)
(* As everywhere in the services, each awaited prisma call is one step:    *)
(* a caller reads the job and checks JOB_TRANSITIONS in one step and       *)
(* updates the row, by id alone, in a later one.                           *)
(***************************************************************************)
EXTENDS Naturals

CONSTANTS
  JobId,    \* row ids a job can be given; bounds how many jobs are requested
  NoJob,    \* "null": no job
  Caller    \* whoever calls the service; one call of each is in flight

VARIABLES
  job,      \* job id -> its status, "ABSENT" before the row exists
  started,  \* job id -> startedAt is set
  beating,  \* job id -> heartbeatAt is within maxAgeMs of now
  call,     \* caller -> the write it makes next
  subject,  \* caller -> the job it writes
  stale     \* the jobs the reaper's findMany returned and it has not updated

table == <<job, started, beating>>
callers == <<call, subject>>
vars == <<table, callers, stale>>

Active == {"QUEUED", "RUNNING"}
Terminal == {"SUCCEEDED", "INFEASIBLE", "FAILED", "CANCELLED"}
JobStatus == Active \cup Terminal

JOB_TRANSITIONS ==
  [QUEUED     |-> {"RUNNING", "CANCELLED", "FAILED"},
   RUNNING    |-> {"SUCCEEDED", "INFEASIBLE", "FAILED", "CANCELLED"},
   SUCCEEDED  |-> {},
   INFEASIBLE |-> {},
   FAILED     |-> {},
   CANCELLED  |-> {}]

ActiveJobs == {j \in JobId : job[j] \in Active}

(* assertJobTransition does not throw. *)
MayBecome(j, s) == job[j] # "ABSENT" /\ s \in JOB_TRANSITIONS[job[j]]

TypeOK ==
  /\ job \in [JobId -> JobStatus \cup {"ABSENT"}]
  /\ started \in [JobId -> BOOLEAN]
  /\ beating \in [JobId -> BOOLEAN]
  /\ call \in [Caller -> JobStatus \cup {"none", "insert", "beat"}]
  /\ subject \in [Caller -> JobId \cup {NoJob}]
  /\ stale \subseteq JobId

Init ==
  /\ job = [j \in JobId |-> "ABSENT"]
  /\ started = [j \in JobId |-> FALSE]
  /\ beating = [j \in JobId |-> FALSE]
  /\ call = [c \in Caller |-> "none"]
  /\ subject = [c \in Caller |-> NoJob]
  /\ stale = {}

Idle(c) == call[c] = "none"

(* A read that passed its checks: the write follows in a later step. *)
Begin(c, write, j) ==
  /\ Idle(c)
  /\ call' = [call EXCEPT ![c] = write]
  /\ subject' = [subject EXCEPT ![c] = j]
  /\ UNCHANGED <<table, stale>>

Finish(c) ==
  /\ call' = [call EXCEPT ![c] = "none"]
  /\ subject' = [subject EXCEPT ![c] = NoJob]
  /\ UNCHANGED stale

-----------------------------------------------------------------------------
(* requestSolve: an active job is returned as it is; else a QUEUED row is
   inserted, which solve_jobs_one_active_per_exam accepts only if no other
   row of the exam is active by then. *)

RequestReturnsActive(c) == Idle(c) /\ ActiveJobs # {} /\ UNCHANGED vars

RequestFindsNone(c) == ActiveJobs = {} /\ Begin(c, "insert", NoJob)

(* Mutant: the migration without the index. *)
NoActiveIndex(j) == TRUE

(* Mutant: the index is on RUNNING jobs alone. *)
RunningIndexAdmits(j) == {i \in JobId : job[i] = "RUNNING"} \subseteq {j}

(* The partial unique index lets j be active. *)
ActiveIndexAdmits(j) == ActiveJobs \subseteq {j}

RequestInsert(c, j) ==
  /\ call[c] = "insert"
  /\ job[j] = "ABSENT"
  /\ ActiveIndexAdmits(j)
  /\ job' = [job EXCEPT ![j] = "QUEUED"]
  /\ Finish(c)
  /\ UNCHANGED <<started, beating>>

(* P2002: requestSolve throws. *)
RequestRejected(c) ==
  /\ call[c] = "insert"
  /\ ActiveJobs # {}
  /\ Finish(c)
  /\ UNCHANGED table

-----------------------------------------------------------------------------
(* startSolve, completeSolve, markInfeasible, failSolve and cancelSolve:
   read the job and assert the transition, then update the row. *)

Read(c, j, s) == MayBecome(j, s) /\ Begin(c, s, j)

(* The same partial unique index guards the update: it can reject a stale
   startSolve that would bring a finished job back beside another one. *)
IndexAdmitsStatus(j, s) == s \in Active => ActiveIndexAdmits(j)

(* Mutant: startSolve does not set startedAt. *)
WriteWithoutStart(c) ==
  LET s == call[c]
      j == subject[c] IN
  /\ s \in JobStatus
  /\ IndexAdmitsStatus(j, s)
  /\ job' = [job EXCEPT ![j] = s]
  /\ beating' = [beating EXCEPT ![j] = @ \/ s = "RUNNING"]
  /\ Finish(c)
  /\ UNCHANGED started

Write(c) ==
  LET s == call[c]
      j == subject[c] IN
  /\ s \in JobStatus
  /\ IndexAdmitsStatus(j, s)
  /\ job' = [job EXCEPT ![j] = s]
  /\ started' = [started EXCEPT ![j] = @ \/ s = "RUNNING"]
  /\ beating' = [beating EXCEPT ![j] = @ \/ s = "RUNNING"]
  /\ Finish(c)

WriteRejected(c) ==
  /\ call[c] \in JobStatus
  /\ ~IndexAdmitsStatus(subject[c], call[c])
  /\ Finish(c)
  /\ UNCHANGED table

-----------------------------------------------------------------------------
(* heartbeat: only a RUNNING job may send one; the write is by id. *)

HeartbeatRead(c, j) == job[j] = "RUNNING" /\ Begin(c, "beat", j)

HeartbeatWrite(c) ==
  /\ call[c] = "beat"
  /\ beating' = [beating EXCEPT ![subject[c]] = TRUE]
  /\ Finish(c)
  /\ UNCHANGED <<job, started>>

(* maxAgeMs passes without a heartbeat. *)
HeartbeatAges(j) ==
  /\ beating[j]
  /\ beating' = [beating EXCEPT ![j] = FALSE]
  /\ UNCHANGED <<job, started, callers, stale>>

-----------------------------------------------------------------------------
(* reapStaleJobs: one findMany, then an update by id for each job found,
   whatever that job's status is by then. *)

IsStale(j) == job[j] = "RUNNING" /\ ~beating[j]

ReapFind ==
  /\ stale = {}
  /\ stale' = {j \in JobId : IsStale(j)}
  /\ UNCHANGED <<table, callers>>

ReapWrite(j) ==
  /\ j \in stale
  /\ job' = [job EXCEPT ![j] = "FAILED"]
  /\ stale' = stale \ {j}
  /\ UNCHANGED <<started, beating, callers>>

-----------------------------------------------------------------------------
(* The next call fails or the caller's process dies. *)
Abandon(c) == ~Idle(c) /\ Finish(c) /\ UNCHANGED table

ReapAbandon == stale # {} /\ stale' = {} /\ UNCHANGED <<table, callers>>

Requests(c) ==
  \/ RequestReturnsActive(c)
  \/ RequestFindsNone(c)
  \/ \E j \in JobId : RequestInsert(c, j)
  \/ RequestRejected(c)

(* Calls that move a job to one of the statuses in S. *)
Moves(c, S) ==
  \/ \E j \in JobId, s \in S : Read(c, j, s)
  \/ Write(c)
  \/ WriteRejected(c)

Heartbeats(c) == (\E j \in JobId : HeartbeatRead(c, j)) \/ HeartbeatWrite(c)

Reaper == ReapFind \/ (\E j \in JobId : ReapWrite(j)) \/ ReapAbandon

Next ==
  \/ \E c \in Caller :
       Requests(c) \/ Moves(c, JobStatus) \/ Heartbeats(c) \/ Abandon(c)
  \/ \E j \in JobId : HeartbeatAges(j)
  \/ Reaper

Spec == Init /\ [][Next]_vars

-----------------------------------------------------------------------------
(* At most one job of the exam is active, although requestSolve looks for
   an active job and inserts its own in different calls, and although
   startSolve writes RUNNING from a read that may be out of date. *)
OneActiveJob == \A i, j \in ActiveJobs : i = j

(* Every solver verdict belongs to a job that was started: SUCCEEDED and
   INFEASIBLE are never reached from QUEUED, whatever overlaps. *)
VerdictsWereStarted ==
  \A j \in JobId : job[j] \in {"RUNNING", "SUCCEEDED", "INFEASIBLE"} => started[j]

(* JOB_TRANSITIONS as a step property: a terminal status is final. *)
LegalJobTransitions ==
  [][\A j \in JobId :
       job[j] # "ABSENT" /\ job'[j] # job[j]
         => job'[j] \in JOB_TRANSITIONS[job[j]]]_vars
=============================================================================
