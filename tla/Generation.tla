------------------------------ MODULE Generation ------------------------------
(***************************************************************************)
(* One exam's seating generations from end to end: runSeatingGeneration    *)
(* (src/src/phase4/integration.ts) driving the solve jobs of SolveJobs and *)
(* the plan versions of SeatingPlans, as POST /exam-seating/generations    *)
(* calls it.  A runner is one such request.  Its calls on the two services *)
(* are the steps of those modules, in the order this module gives them.    *)
(*                                                                         *)
(* Partitioning, solving and merging (runGeneration up to persistence)     *)
(* touch no shared table: they are one step here that picks an outcome.    *)
(***************************************************************************)
EXTENDS Naturals, FiniteSets

CONSTANTS
  PlanId, NoPlan, JobId, NoJob,
  Runner,     \* generation requests
  Admin,      \* requests that approve, publish or supersede plans
  Operator,   \* callers of cancelSolve and heartbeat
  Reaping,    \* TRUE: something calls reapStaleJobs
  Outcomes,   \* how runGeneration may end before it persists
  Faults      \* TRUE: database calls may fail and processes may die

AllOutcomes == {"solved", "infeasible", "rejected", "mergeInvalid", "threw"}

ASSUME OutcomesAssumption == Outcomes \subseteq AllOutcomes
ASSUME IdsAssumption == NoPlan \notin PlanId /\ NoJob \notin JobId
ASSUME FlagsAssumption == Reaping \in BOOLEAN /\ Faults \in BOOLEAN
ASSUME ActorsAssumption ==
  /\ Runner \cap Admin = {}
  /\ Runner \cap Operator = {}

VARIABLES
  status, version, supersedes, approved, pc, target, demoted,  \* SeatingPlans
  job, started, beating, call, subject, stale,                 \* SolveJobs
  stage,   \* runner -> what it does next
  mine,    \* runner -> the job it created
  madeBy   \* history: plan -> the job whose generation committed it

plans == <<status, version, supersedes, approved, pc, target, demoted>>
jobs == <<job, started, beating, call, subject, stale>>
runners == <<stage, mine, madeBy>>
vars == <<plans, jobs, runners>>

Plans == INSTANCE SeatingPlans WITH Request <- Runner \cup Admin
Jobs == INSTANCE SolveJobs WITH Caller <- Runner \cup Operator

Stage == {"request", "start", "generate", "persist", "complete",
          "fail", "infeasible", "completed", "reported", "escaped"}

(* The response is sent, or the exception has left runSeatingGeneration. *)
Over == {"completed", "reported", "escaped"}

TypeOK ==
  /\ Plans!TypeOK
  /\ Jobs!TypeOK
  /\ stage \in [Runner -> Stage]
  /\ mine \in [Runner -> JobId \cup {NoJob}]
  /\ madeBy \in [PlanId -> JobId \cup {NoJob}]

Init ==
  /\ Plans!Init
  /\ Jobs!Init
  /\ stage = [g \in Runner |-> "request"]
  /\ mine = [g \in Runner |-> NoJob]
  /\ madeBy = [p \in PlanId |-> NoJob]

Goto(g, s) == stage' = [stage EXCEPT ![g] = s]

Stay == UNCHANGED runners
Advance(g, s) == Goto(g, s) /\ UNCHANGED <<mine, madeBy>>

-----------------------------------------------------------------------------
(* Mutant: "created" is ignored, and the active job is driven again. *)
RequestJobAdopting(g) ==
  /\ stage[g] = "request"
  /\ UNCHANGED <<plans, madeBy>>
  /\ \/ /\ Jobs!RequestReturnsActive(g)
        /\ Goto(g, "generate")
        /\ \E j \in Jobs!ActiveJobs : mine' = [mine EXCEPT ![g] = j]
     \/ Jobs!RequestFindsNone(g) /\ UNCHANGED <<stage, mine>>
     \/ \E j \in JobId : /\ Jobs!RequestInsert(g, j)
                         /\ Goto(g, "start")
                         /\ mine' = [mine EXCEPT ![g] = j]
     \/ Jobs!RequestRejected(g) /\ Goto(g, "escaped") /\ UNCHANGED mine

(* requestSolve.  An active job is reported as ERR_JOB_ALREADY_ACTIVE. *)
RequestJob(g) ==
  /\ stage[g] = "request"
  /\ UNCHANGED plans
  /\ \/ Jobs!RequestReturnsActive(g) /\ Advance(g, "reported")
     \/ Jobs!RequestFindsNone(g) /\ Stay
     \/ \E j \in JobId : /\ Jobs!RequestInsert(g, j)
                         /\ Goto(g, "start")
                         /\ mine' = [mine EXCEPT ![g] = j]
                         /\ UNCHANGED madeBy
     \/ Jobs!RequestRejected(g) /\ Advance(g, "escaped")

(* A job call of stage s that moves the runner's job to "to": read and
   assert, then write.  "next" is where the runner goes when it is done,
   "otherwise" where an exception takes it. *)
MoveJob(g, s, to, next, otherwise) ==
  /\ stage[g] = s
  /\ UNCHANGED plans
  /\ \/ Jobs!Read(g, mine[g], to) /\ Stay
     \/ /\ Jobs!Idle(g)
        /\ ~Jobs!MayBecome(mine[g], to)
        /\ Advance(g, otherwise)
        /\ UNCHANGED jobs
     \/ Jobs!Write(g) /\ Advance(g, next)
     \/ Jobs!WriteRejected(g) /\ Advance(g, otherwise)

(* Mutant: an invalid merge is completed like a persisted one. *)
AfterGeneratingLaxly ==
  [solved |-> "persist", infeasible |-> "infeasible", rejected |-> "fail",
   mergeInvalid |-> "complete", threw |-> "escaped"]

(* Mutant: a rejected generation is reported and its job left alone. *)
AfterGeneratingSilently ==
  [solved |-> "persist", infeasible |-> "infeasible", rejected |-> "reported",
   mergeInvalid |-> "reported", threw |-> "escaped"]

(* Where each outcome of runGeneration takes the runner.  An invalid merge
   returns FAILED_MERGE without an error, so no job transition follows; an
   exception leaves runSeatingGeneration. *)
AfterGenerating ==
  [solved       |-> "persist",
   infeasible   |-> "infeasible",
   rejected     |-> "fail",
   mergeInvalid |-> "reported",
   threw        |-> "escaped"]

Generate(g) ==
  /\ stage[g] = "generate"
  /\ \E o \in Outcomes : Advance(g, AfterGenerating[o])
  /\ UNCHANGED <<plans, jobs>>

(* persistValidatedGeneration's transaction.  runGeneration catches what it
   throws and the job is failed. *)
Persist(g) ==
  /\ stage[g] = "persist"
  /\ UNCHANGED jobs
  /\ \/ \E latest \in PlanId \cup {NoPlan} : Plans!CreateRead(g, latest) /\ Stay
     \/ \E p \in PlanId : /\ Plans!CreateCommit(g, p)
                          /\ madeBy' = [madeBy EXCEPT ![p] = mine[g]]
                          /\ Goto(g, "complete")
                          /\ UNCHANGED mine
     \/ Plans!CreateRolledBack(g) /\ Advance(g, "fail")

RunnerStep(g) ==
  \/ RequestJob(g)
  \/ MoveJob(g, "start", "RUNNING", "generate", "escaped")
  \/ Generate(g)
  \/ Persist(g)
  \/ MoveJob(g, "complete", "SUCCEEDED", "completed", "fail")
  \/ MoveJob(g, "fail", "FAILED", "reported", "escaped")
  \/ MoveJob(g, "infeasible", "INFEASIBLE", "reported", "escaped")

-----------------------------------------------------------------------------
(* Faults.                                                                 *)

(* Whatever call the runner has open ends without effect. *)
DropCalls(g) ==
  /\ \/ Plans!Abandon(g)
     \/ pc[g] = "idle" /\ UNCHANGED plans
  /\ \/ Jobs!Abandon(g)
     \/ Jobs!Idle(g) /\ UNCHANGED jobs

(* Mutant: when completing the job fails, the callback is called again. *)
CallFailsAndRetries(g) ==
  /\ Faults
  /\ stage[g] \notin Over \cup {"generate"}
  /\ DropCalls(g)
  /\ Advance(g, IF stage[g] \in {"persist", "complete"} THEN "persist" ELSE "escaped")

(* The runner's next database call fails.  Only the persist callback is
   called under a try, so elsewhere the exception escapes. *)
CallFails(g) ==
  /\ Faults
  /\ stage[g] \notin Over \cup {"generate"}
  /\ DropCalls(g)
  /\ Advance(g, IF stage[g] \in {"persist", "complete"} THEN "fail" ELSE "escaped")

(* A call takes effect and the runner sees it fail all the same: its answer
   is lost, or the audit row the service writes after it is refused. *)
AnswerLost(g) ==
  /\ Faults
  /\ \/ /\ stage[g] = "request"
        /\ \E j \in JobId : Jobs!RequestInsert(g, j)
        /\ Advance(g, "escaped")
        /\ UNCHANGED plans
     \/ /\ stage[g] \in {"start", "complete", "fail", "infeasible"}
        /\ Jobs!Write(g)
        /\ Advance(g, IF stage[g] = "complete" THEN "fail" ELSE "escaped")
        /\ UNCHANGED plans
     \/ /\ stage[g] = "persist"
        /\ \E p \in PlanId : /\ Plans!CreateCommit(g, p)
                             /\ madeBy' = [madeBy EXCEPT ![p] = mine[g]]
        /\ Goto(g, "fail")
        /\ UNCHANGED <<mine, jobs>>

(* The server process dies. *)
Crash(g) ==
  /\ Faults
  /\ stage[g] \notin Over
  /\ DropCalls(g)
  /\ Advance(g, "escaped")

-----------------------------------------------------------------------------
(* Beside the runners.                                                     *)

AdminStep(a) ==
  /\ \/ \E p \in PlanId : \/ Plans!ApproveRead(a, p)
                          \/ Plans!PublishRead(a, p)
                          \/ Plans!SupersedeRead(a, p)
     \/ Plans!ApproveWrite(a)
     \/ Plans!PublishFindOther(a)
     \/ Plans!PublishDemote(a)
     \/ Plans!PublishWrite(a)
     \/ Plans!PublishRejected(a)
     \/ Plans!SupersedeWrite(a)
     \/ Faults /\ Plans!Abandon(a)
  /\ UNCHANGED <<jobs, runners>>

OperatorStep(o) ==
  /\ \/ Jobs!Moves(o, {"CANCELLED"})
     \/ Jobs!Heartbeats(o)
     \/ Faults /\ Jobs!Abandon(o)
  /\ UNCHANGED <<plans, runners>>

ReaperStep ==
  /\ Reaping
  /\ Jobs!Reaper \/ (\E j \in JobId : Jobs!HeartbeatAges(j))
  /\ UNCHANGED <<plans, runners>>

Next ==
  \/ \E g \in Runner : RunnerStep(g) \/ CallFails(g) \/ AnswerLost(g) \/ Crash(g)
  \/ \E a \in Admin : AdminStep(a)
  \/ \E o \in Operator : OperatorStep(o)
  \/ ReaperStep

Spec == Init /\ [][Next]_vars

(* The server keeps running the requests it accepted: node's event loop
   resumes every runner whose call has been answered. *)
FairSpec == Spec /\ \A g \in Runner : WF_vars(RunnerStep(g))

-----------------------------------------------------------------------------
(* Plans that job j's generation committed. *)
PlansOf(j) == {p \in PlanId : madeBy[p] = j}

(* persistValidatedGeneration: "the job is only completed (SUCCEEDED) AFTER
   this transaction commits".  A SUCCEEDED job has committed exactly one
   plan version and an INFEASIBLE one none, whoever else cancels, reaps,
   fails or dies. *)
VerdictMatchesPlans ==
  \A j \in JobId :
    /\ job[j] = "SUCCEEDED" => Cardinality(PlansOf(j)) = 1
    /\ job[j] = "INFEASIBLE" => PlansOf(j) = {}

(* No generation is committed twice, not even when its completion fails and
   the runner goes on to fail the job. *)
OneVersionPerJob == \A j \in JobId : Cardinality(PlansOf(j)) <= 1

(* A runner on its way to a plan: its job has no verdict yet. *)
Working(g) == stage[g] \in {"start", "generate", "persist", "complete"}

(* As the product is wired (nobody cancels or reaps) generations of one exam
   never overlap: the active-job index alone serialises everything from
   startSolve to the verdict, even when a verdict is written and its runner
   is told otherwise. *)
SingleFlight == \A g, h \in Runner : Working(g) /\ Working(h) => g = h

(* ... and therefore the latest plan a generation read is still the latest
   when its transaction commits: the version index never rejects it. *)
VersionsNeverCollide ==
  \A g \in Runner : pc[g] = "create" => Plans!LatestRead(target[g])

(* solve_jobs_one_active_per_exam, whoever reads and writes jobs meanwhile. *)
OneActiveJob == Jobs!OneActiveJob

(* A verdict of the solver belongs to a job that was started. *)
VerdictsWereStarted == Jobs!VerdictsWereStarted

(* The chain of versions survives overlapping generations and publications. *)
VersionChain == Plans!VersionChain

(* JOB_TRANSITIONS holds of every step while only runners touch jobs. *)
JobsFollowTable == Jobs!LegalJobTransitions

(* Every job a runner created reaches a terminal status, which is what frees
   the exam for its next generation. *)
JobsEnd == \A j \in JobId : job[j] \in Jobs!Active ~> job[j] \in Jobs!Terminal
=============================================================================
