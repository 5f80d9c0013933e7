--------------------------- MODULE Generation_proofs ---------------------------
(***************************************************************************)
(* The generations of an exam use the plans and the jobs only through the  *)
(* steps of those components, so what is proved of the components for any  *)
(* requests and callers holds here, for any number of runners, admins and  *)
(* operators, with faults or without.                                      *)
(***************************************************************************)
EXTENDS Generation, FiniteSetTheorems, TLAPS

PlansP == INSTANCE SeatingPlans_proofs WITH Request <- Runner \cup Admin
JobsP == INSTANCE SolveJobs_proofs WITH Caller <- Runner \cup Operator

(* A runner that has its job and has not finished with it. *)
Driving(g) == stage[g] \in {"start", "generate", "persist", "complete", "fail", "infeasible"}

(* A runner that is past requestSolve and has not finished knows its job. *)
RunnersKnow ==
  /\ stage \in [Runner -> Stage]
  /\ mine \in [Runner -> JobId \cup {NoJob}]
  /\ madeBy \in [PlanId -> JobId \cup {NoJob}]
  /\ \A g \in Runner : Driving(g) => mine[g] \in JobId

IInv == PlansP!IInv /\ JobsP!IInv /\ RunnersKnow

-----------------------------------------------------------------------------
(* The components are the ones the invariants were proved of. *)
LEMMA SamePlans ==
  /\ Plans!Init <=> PlansP!Init
  /\ Plans!Next <=> PlansP!Next
  /\ UNCHANGED Plans!vars <=> UNCHANGED PlansP!vars
  /\ Plans!TypeOK <=> PlansP!TypeOK
  /\ Plans!VersionChain <=> PlansP!VersionChain
<1>1. Plans!Init <=> PlansP!Init
  BY DEF Plans!Init, PlansP!Init
<1>2. UNCHANGED Plans!vars <=> UNCHANGED PlansP!vars
  BY DEF Plans!vars, PlansP!vars, Plans!table, PlansP!table,
         Plans!requests, PlansP!requests
<1>3. Plans!TypeOK <=> PlansP!TypeOK
  BY DEF Plans!TypeOK, PlansP!TypeOK, Plans!PlanStatus, PlansP!PlanStatus,
         Plans!PC, PlansP!PC
<1>4. Plans!VersionChain <=> PlansP!VersionChain
  BY DEF Plans!VersionChain, PlansP!VersionChain, Plans!Existing, PlansP!Existing
<1>5. Plans!Next <=> PlansP!Next
  BY DEF Plans!Next, PlansP!Next,
         Plans!table, PlansP!table, Plans!Begin, PlansP!Begin, Plans!Goto, PlansP!Goto,
         Plans!Finish, PlansP!Finish, Plans!SetStatus, PlansP!SetStatus,
         Plans!PLAN_TRANSITIONS, PlansP!PLAN_TRANSITIONS,
         Plans!Existing, PlansP!Existing, Plans!Published, PlansP!Published,
         Plans!IsLatest, PlansP!IsLatest, Plans!MayBecome, PlansP!MayBecome,
         Plans!CanApprove, PlansP!CanApprove, Plans!CanPublish, PlansP!CanPublish,
         Plans!CanSupersede, PlansP!CanSupersede,
         Plans!ApproveRead, PlansP!ApproveRead, Plans!ApproveWrite, PlansP!ApproveWrite,
         Plans!PublishRead, PlansP!PublishRead,
         Plans!PublishFindOther, PlansP!PublishFindOther,
         Plans!PublishDemote, PlansP!PublishDemote,
         Plans!PublishedIndexAdmits, PlansP!PublishedIndexAdmits,
         Plans!PublishWrite, PlansP!PublishWrite,
         Plans!PublishRejected, PlansP!PublishRejected,
         Plans!SupersedeRead, PlansP!SupersedeRead,
         Plans!SupersedeWrite, PlansP!SupersedeWrite,
         Plans!NextVersion, PlansP!NextVersion, Plans!LatestRead, PlansP!LatestRead,
         Plans!ToRetire, PlansP!ToRetire,
         Plans!VersionIndexAdmits, PlansP!VersionIndexAdmits,
         Plans!CommitVersion, PlansP!CommitVersion, Plans!CreateRead, PlansP!CreateRead,
         Plans!CreateCommit, PlansP!CreateCommit,
         Plans!CreateRolledBack, PlansP!CreateRolledBack, Plans!Abandon, PlansP!Abandon
<1> QED
  BY <1>1, <1>2, <1>3, <1>4, <1>5

LEMMA SameJobs ==
  /\ Jobs!Init <=> JobsP!Init
  /\ Jobs!Next <=> JobsP!Next
  /\ UNCHANGED Jobs!vars <=> UNCHANGED JobsP!vars
  /\ Jobs!TypeOK <=> JobsP!TypeOK
  /\ Jobs!OneActiveJob <=> JobsP!OneActiveJob
  /\ Jobs!VerdictsWereStarted <=> JobsP!VerdictsWereStarted
<1>1. Jobs!Init <=> JobsP!Init
  BY DEF Jobs!Init, JobsP!Init
<1>2. UNCHANGED Jobs!vars <=> UNCHANGED JobsP!vars
  BY DEF Jobs!vars, JobsP!vars, Jobs!table, JobsP!table, Jobs!callers, JobsP!callers
<1>3. Jobs!TypeOK <=> JobsP!TypeOK
  BY DEF Jobs!TypeOK, JobsP!TypeOK, Jobs!JobStatus, JobsP!JobStatus,
         Jobs!Active, JobsP!Active, Jobs!Terminal, JobsP!Terminal
<1>4. /\ Jobs!OneActiveJob <=> JobsP!OneActiveJob
      /\ Jobs!VerdictsWereStarted <=> JobsP!VerdictsWereStarted
  BY DEF Jobs!OneActiveJob, JobsP!OneActiveJob, Jobs!ActiveJobs, JobsP!ActiveJobs,
         Jobs!Active, JobsP!Active, Jobs!VerdictsWereStarted, JobsP!VerdictsWereStarted
<1>5. Jobs!Next <=> JobsP!Next
  BY DEF Jobs!Next, JobsP!Next, Jobs!vars, JobsP!vars,
         Jobs!table, JobsP!table, Jobs!callers, JobsP!callers,
         Jobs!Active, JobsP!Active, Jobs!Terminal, JobsP!Terminal,
         Jobs!JobStatus, JobsP!JobStatus, Jobs!JOB_TRANSITIONS, JobsP!JOB_TRANSITIONS,
         Jobs!ActiveJobs, JobsP!ActiveJobs, Jobs!MayBecome, JobsP!MayBecome,
         Jobs!Idle, JobsP!Idle, Jobs!Begin, JobsP!Begin, Jobs!Finish, JobsP!Finish,
         Jobs!Requests, JobsP!Requests, Jobs!Moves, JobsP!Moves,
         Jobs!Heartbeats, JobsP!Heartbeats, Jobs!Reaper, JobsP!Reaper,
         Jobs!RequestReturnsActive, JobsP!RequestReturnsActive,
         Jobs!RequestFindsNone, JobsP!RequestFindsNone,
         Jobs!ActiveIndexAdmits, JobsP!ActiveIndexAdmits,
         Jobs!RequestInsert, JobsP!RequestInsert,
         Jobs!RequestRejected, JobsP!RequestRejected, Jobs!Read, JobsP!Read,
         Jobs!IndexAdmitsStatus, JobsP!IndexAdmitsStatus,
         Jobs!Write, JobsP!Write, Jobs!WriteRejected, JobsP!WriteRejected,
         Jobs!HeartbeatRead, JobsP!HeartbeatRead,
         Jobs!HeartbeatWrite, JobsP!HeartbeatWrite,
         Jobs!HeartbeatAges, JobsP!HeartbeatAges, Jobs!IsStale, JobsP!IsStale,
         Jobs!ReapFind, JobsP!ReapFind, Jobs!ReapWrite, JobsP!ReapWrite,
         Jobs!Abandon, JobsP!Abandon, Jobs!ReapAbandon, JobsP!ReapAbandon
<1> QED
  BY <1>1, <1>2, <1>3, <1>4, <1>5

-----------------------------------------------------------------------------
(* What a step of the generations is to the plans: a step of SeatingPlans,
   or nothing. *)
LEMMA StepOfPlans == [Next]_vars => [Plans!Next]_(Plans!vars)
<1> SUFFICES ASSUME [Next]_vars PROVE Plans!Next \/ UNCHANGED Plans!vars
  OBVIOUS
<1>0. UNCHANGED plans => UNCHANGED Plans!vars
  BY DEF plans, Plans!vars, Plans!table, Plans!requests
<1>1. CASE UNCHANGED vars
  BY <1>0, <1>1 DEF vars
<1>2. ASSUME NEW g \in Runner, RunnerStep(g)
      PROVE  Plans!Next \/ UNCHANGED Plans!vars
  <2>1. CASE Persist(g)
    BY <2>1 DEF Persist, Plans!Next
  <2>2. CASE ~Persist(g)
    BY <1>0, <1>2, <2>2 DEF RunnerStep, RequestJob, MoveJob, Generate
  <2> QED
    BY <2>1, <2>2
<1>3. ASSUME NEW g \in Runner, DropCalls(g)
      PROVE  Plans!Next \/ UNCHANGED Plans!vars
  BY <1>0, <1>3 DEF DropCalls, Plans!Next
<1>4. ASSUME NEW a \in Admin, AdminStep(a)
      PROVE  Plans!Next
  BY <1>4 DEF AdminStep, Plans!Next
<1>6. ASSUME NEW g \in Runner, AnswerLost(g)
      PROVE  Plans!Next \/ UNCHANGED Plans!vars
  BY <1>0, <1>6 DEF AnswerLost, Plans!Next
<1>5. CASE (\E o \in Operator : OperatorStep(o)) \/ ReaperStep
  BY <1>0, <1>5 DEF OperatorStep, ReaperStep
<1> QED
  BY <1>1, <1>2, <1>3, <1>4, <1>5, <1>6 DEF Next, CallFails, Crash

(* A runner's call on its job is a call of SolveJobs: it does have one. *)
LEMMA MoveIsACall ==
  ASSUME RunnersKnow, NEW g \in Runner, Driving(g), NEW s, NEW to \in Jobs!JobStatus,
         NEW next, NEW otherwise, MoveJob(g, s, to, next, otherwise)
  PROVE  Jobs!Next \/ UNCHANGED jobs
  BY DEF RunnersKnow, MoveJob, Jobs!Next, Jobs!Moves

(* What a step of the generations is to the jobs. *)
LEMMA StepOfJobs == RunnersKnow /\ [Next]_vars => [Jobs!Next]_(Jobs!vars)
<1> SUFFICES ASSUME RunnersKnow, [Next]_vars PROVE Jobs!Next \/ UNCHANGED Jobs!vars
  OBVIOUS
<1>0. UNCHANGED jobs => UNCHANGED Jobs!vars
  BY DEF jobs, Jobs!vars, Jobs!table, Jobs!callers
<1>1. CASE UNCHANGED vars
  BY <1>0, <1>1 DEF vars
<1>2. ASSUME NEW g \in Runner, RunnerStep(g)
      PROVE  Jobs!Next \/ UNCHANGED Jobs!vars
  <2>1. CASE RequestJob(g)
    BY <2>1 DEF RequestJob, Jobs!Next, Jobs!Requests
  <2>2. CASE Generate(g) \/ Persist(g)
    BY <1>0, <2>2 DEF Generate, Persist
  <2>3. CASE MoveJob(g, "start", "RUNNING", "generate", "escaped")
    BY <1>0, <2>3, MoveIsACall DEF MoveJob, Driving, Jobs!JobStatus, Jobs!Active
  <2>4. CASE MoveJob(g, "complete", "SUCCEEDED", "completed", "fail")
    BY <1>0, <2>4, MoveIsACall DEF MoveJob, Driving, Jobs!JobStatus, Jobs!Terminal
  <2>5. CASE MoveJob(g, "fail", "FAILED", "reported", "escaped")
    BY <1>0, <2>5, MoveIsACall DEF MoveJob, Driving, Jobs!JobStatus, Jobs!Terminal
  <2>6. CASE MoveJob(g, "infeasible", "INFEASIBLE", "reported", "escaped")
    BY <1>0, <2>6, MoveIsACall DEF MoveJob, Driving, Jobs!JobStatus, Jobs!Terminal
  <2> QED
    BY <1>2, <2>6, <2>5, <2>1, <2>2, <2>3, <2>4 DEF RunnerStep
<1>3. ASSUME NEW g \in Runner, DropCalls(g)
      PROVE  Jobs!Next \/ UNCHANGED Jobs!vars
  BY <1>0, <1>3 DEF DropCalls, Jobs!Next
<1>4. ASSUME NEW a \in Admin, AdminStep(a)
      PROVE  UNCHANGED Jobs!vars
  BY <1>0, <1>4 DEF AdminStep
<1>5. ASSUME NEW o \in Operator, OperatorStep(o)
      PROVE  Jobs!Next
  <2>1. "CANCELLED" \in Jobs!JobStatus
    BY DEF Jobs!JobStatus, Jobs!Terminal
  <2> QED
    BY <1>5, <2>1 DEF OperatorStep, Jobs!Next, Jobs!Moves
<1>6. CASE ReaperStep
  BY <1>6 DEF ReaperStep, Jobs!Next
<1>7. ASSUME NEW g \in Runner, AnswerLost(g)
      PROVE  Jobs!Next \/ UNCHANGED Jobs!vars
  <2>1. ASSUME NEW j \in JobId, Jobs!RequestInsert(g, j)
        PROVE  Jobs!Next
    BY <2>1 DEF Jobs!Next, Jobs!Requests
  <2>2. Jobs!Write(g) => Jobs!Next
    BY DEF Jobs!Next, Jobs!Moves
  <2> QED
    BY <1>0, <1>7, <2>1, <2>2 DEF AnswerLost
<1> QED
  BY <1>1, <1>2, <1>3, <1>4, <1>5, <1>6, <1>7 DEF Next, CallFails, Crash

(* A runner gets its job when the row is inserted and keeps it. *)
LEMMA RunnersStillKnow == RunnersKnow /\ [Next]_vars => RunnersKnow'
<1> SUFFICES ASSUME RunnersKnow, [Next]_vars PROVE RunnersKnow'
  OBVIOUS
<1>1. ASSUME NEW g \in Runner, NEW s \in Stage, Advance(g, s),
             s \in Over \/ Driving(g)
      PROVE  RunnersKnow'
  BY <1>1 DEF RunnersKnow, Advance, Goto, Driving, Over
<1>2. CASE UNCHANGED runners
  BY <1>2 DEF RunnersKnow, Driving, runners
<1>3. ASSUME NEW g \in Runner, RequestJob(g)
      PROVE  RunnersKnow'
  <2>1. ASSUME NEW j \in JobId, Goto(g, "start"), mine' = [mine EXCEPT ![g] = j],
               UNCHANGED madeBy
        PROVE  RunnersKnow'
    BY <2>1 DEF RunnersKnow, Goto, Driving, Stage
  <2>2. CASE Advance(g, "reported") \/ Advance(g, "escaped")
    BY <1>1, <2>2 DEF Stage, Over
  <2> QED
    BY <1>2, <1>3, <2>1, <2>2 DEF RequestJob, Stay
<1>4. ASSUME NEW g \in Runner, NEW s, NEW to, NEW next \in Stage, NEW otherwise \in Stage,
             Driving(g), MoveJob(g, s, to, next, otherwise)
      PROVE  RunnersKnow'
  BY <1>1, <1>2, <1>4 DEF MoveJob, Stay
<1>5. ASSUME NEW g \in Runner, Generate(g)
      PROVE  RunnersKnow'
  <2>1. PICK o \in Outcomes : Advance(g, AfterGenerating[o])
    BY <1>5 DEF Generate
  <2>2. AfterGenerating[o] \in Stage
    BY OutcomesAssumption DEF AllOutcomes, AfterGenerating, Stage
  <2> QED
    BY <1>1, <1>5, <2>1, <2>2 DEF Generate, Driving
<1>6. ASSUME NEW g \in Runner, Persist(g)
      PROVE  RunnersKnow'
  <2>1. Driving(g)
    BY <1>6 DEF Persist, Driving
  <2>2. ASSUME NEW p \in PlanId, madeBy' = [madeBy EXCEPT ![p] = mine[g]],
               Goto(g, "complete"), UNCHANGED mine
        PROVE  RunnersKnow'
    BY <2>1, <2>2 DEF RunnersKnow, Goto, Driving, Stage
  <2>3. CASE Advance(g, "fail")
    BY <1>1, <2>1, <2>3 DEF Stage
  <2> QED
    BY <1>2, <1>6, <2>2, <2>3 DEF Persist, Stay
<1>7. ASSUME NEW g \in Runner, RunnerStep(g)
      PROVE  RunnersKnow'
  <2>1. CASE MoveJob(g, "start", "RUNNING", "generate", "escaped")
    BY <1>4, <2>1 DEF MoveJob, Driving, Stage
  <2>2. CASE MoveJob(g, "complete", "SUCCEEDED", "completed", "fail")
    BY <1>4, <2>2 DEF MoveJob, Driving, Stage
  <2>3. CASE MoveJob(g, "fail", "FAILED", "reported", "escaped")
    BY <1>4, <2>3 DEF MoveJob, Driving, Stage
  <2>4. CASE MoveJob(g, "infeasible", "INFEASIBLE", "reported", "escaped")
    BY <1>4, <2>4 DEF MoveJob, Driving, Stage
  <2> QED
    BY <1>3, <1>5, <1>6, <1>7, <2>1, <2>2, <2>3, <2>4 DEF RunnerStep
<1>8. ASSUME NEW g \in Runner, CallFails(g) \/ Crash(g)
      PROVE  RunnersKnow'
  <2>1. CASE Advance(g, "escaped")
    BY <1>1, <2>1 DEF Stage, Over
  <2>2. CASE Advance(g, "fail") /\ stage[g] \in {"persist", "complete"}
    BY <1>1, <2>2 DEF Stage, Driving
  <2> QED
    BY <1>8, <2>1, <2>2 DEF CallFails, Crash
<1>10. ASSUME NEW g \in Runner, AnswerLost(g)
       PROVE  RunnersKnow'
  <2>1. CASE Advance(g, "escaped")
    BY <1>1, <2>1 DEF Stage, Over
  <2>2. CASE Advance(g, "fail") /\ stage[g] = "complete"
    BY <1>1, <2>2 DEF Stage, Driving
  <2>3. ASSUME NEW p \in PlanId, madeBy' = [madeBy EXCEPT ![p] = mine[g]],
               Goto(g, "fail"), stage[g] = "persist", UNCHANGED mine
        PROVE  RunnersKnow'
    BY <2>3 DEF RunnersKnow, Goto, Driving, Stage
  <2> QED
    BY <1>10, <2>1, <2>2, <2>3 DEF AnswerLost
<1>9. CASE (\E a \in Admin : AdminStep(a)) \/ (\E o \in Operator : OperatorStep(o))
             \/ ReaperStep \/ UNCHANGED vars
  BY <1>2, <1>9 DEF AdminStep, OperatorStep, ReaperStep, vars
<1> QED
  BY <1>7, <1>8, <1>9, <1>10 DEF Next

-----------------------------------------------------------------------------
LEMMA InitEstablishes == Init => IInv
<1>1. Init => PlansP!IInv
  BY SamePlans, PlansP!InitEstablishes, IdsAssumption DEF Init
<1>2. Init => JobsP!IInv
  BY SameJobs, JobsP!InitEstablishes DEF Init
<1>3. Init => RunnersKnow
  BY DEF Init, RunnersKnow, Driving, Stage
<1> QED
  BY <1>1, <1>2, <1>3 DEF IInv

LEMMA StepPreserves == IInv /\ [Next]_vars => IInv'
<1> SUFFICES ASSUME IInv, [Next]_vars PROVE IInv'
  OBVIOUS
<1>1. PlansP!IInv'
  BY SamePlans, StepOfPlans, PlansP!StepPreserves, IdsAssumption DEF IInv
<1>2. JobsP!IInv'
  BY SameJobs, StepOfJobs, JobsP!StepPreserves DEF IInv
<1>3. RunnersKnow'
  BY RunnersStillKnow DEF IInv
<1> QED
  BY <1>1, <1>2, <1>3 DEF IInv

(* The inductive invariant holds of every behaviour of the generations. *)
THEOREM Invariance == Spec => []IInv
  BY InitEstablishes, StepPreserves, PTL DEF Spec

(* Type correctness of the tables, the open calls and the runners. *)
THEOREM TypeCorrect == Spec => []TypeOK
<1>1. IInv => TypeOK
  BY SamePlans, SameJobs DEF IInv, RunnersKnow, PlansP!IInv, JobsP!IInv, TypeOK
<1> QED
  BY <1>1, Invariance, PTL

(* However many generations, publications and cancellations overlap, and
   whichever calls fail, the versions of the exam form one gapless chain. *)
THEOREM VersionsFormAChain == Spec => []VersionChain
<1>1. IInv => VersionChain
  BY SamePlans DEF IInv, PlansP!IInv, VersionChain
<1> QED
  BY <1>1, Invariance, PTL

(* ... at most one job of the exam is active ... *)
THEOREM AtMostOneActive == Spec => []OneActiveJob
<1>1. IInv => OneActiveJob
  BY SameJobs DEF IInv, JobsP!IInv, OneActiveJob
<1> QED
  BY <1>1, Invariance, PTL

(* ... and no job has a verdict that was not started. *)
THEOREM VerdictsNeedAStart == Spec => []VerdictsWereStarted
<1>1. IInv => VerdictsWereStarted
  BY SameJobs DEF IInv, JobsP!IInv, VerdictsWereStarted
<1> QED
  BY <1>1, Invariance, PTL

(* The generations refine the plans: their steps are steps of SeatingPlans
   or stutter. *)
THEOREM GenerationsImplementPlans == Spec => Plans!Spec
<1>1. Init => Plans!Init
  BY DEF Init
<1> QED
  BY <1>1, StepOfPlans, PTL DEF Spec, Plans!Spec

(* ... and the jobs. *)
THEOREM GenerationsImplementJobs == Spec => Jobs!Spec
<1>1. Init => Jobs!Init
  BY DEF Init
<1>2. IInv => RunnersKnow
  BY DEF IInv
<1> QED
  BY <1>1, <1>2, StepOfJobs, Invariance, PTL DEF Spec, Jobs!Spec

-----------------------------------------------------------------------------
(* Verdicts and versions.  A runner owns the job it inserted: no other runner
   writes it, and what the runner has done for it can be told from its stage.
   Operators and the reaper write it too, but never a verdict. *)

(* A runner and its job belong to each other: nobody else has that job, and
   a write the runner is about to make is the one of its stage, on it. *)
JobsAreOwned ==
  /\ \A g, h \in Runner : mine[g] = mine[h] /\ mine[g] # NoJob => g = h
  /\ \A g \in Runner : mine[g] # NoJob => job[mine[g]] # "ABSENT"
  /\ \A g \in Runner : stage[g] = "request" => mine[g] = NoJob

CallsAreOwn ==
  /\ \A g \in Runner : call[g] \in Jobs!JobStatus \cup {"beat"} =>
       /\ subject[g] = mine[g]
       /\ <<stage[g], call[g]>> \in {<<"start", "RUNNING">>, <<"complete", "SUCCEEDED">>,
                                     <<"fail", "FAILED">>, <<"infeasible", "INFEASIBLE">>}
  /\ \A o \in Operator : call[o] \in {"none", "beat", "CANCELLED"}

(* Only rows that exist were made by a job, and by one that exists. *)
MadeByJobs ==
  \A p \in PlanId :
    /\ status[p] = "ABSENT" => madeBy[p] = NoJob
    /\ madeBy[p] # NoJob => job[madeBy[p]] # "ABSENT"

(* What a runner's stage says of the plans its job has made. *)
StagesKnow ==
  \A g \in Runner : mine[g] # NoJob =>
    /\ stage[g] \in {"start", "generate", "persist", "infeasible"} => PlansOf(mine[g]) = {}
    /\ stage[g] \in {"start", "generate", "persist"} =>
         job[mine[g]] \notin {"SUCCEEDED", "INFEASIBLE"}
    /\ stage[g] = "complete" => \E p \in PlanId : PlansOf(mine[g]) = {p}

(* A job has at most one plan, and its verdict agrees with it. *)
VerdictsAreRight ==
  \A j \in JobId :
    /\ PlansOf(j) = {} \/ \E p \in PlanId : PlansOf(j) = {p}
    /\ job[j] = "SUCCEEDED" => PlansOf(j) # {}
    /\ job[j] = "INFEASIBLE" => PlansOf(j) = {}

OwnInv == JobsAreOwned /\ CallsAreOwn /\ MadeByJobs /\ StagesKnow /\ VerdictsAreRight

(* The types of what the proofs below read. *)
Types ==
  /\ RunnersKnow
  /\ status \in [PlanId -> Plans!PlanStatus \cup {"ABSENT"}]
  /\ job \in [JobId -> Jobs!JobStatus \cup {"ABSENT"}]
  /\ call \in [Runner \cup Operator -> Jobs!JobStatus \cup {"none", "insert", "beat"}]
  /\ subject \in [Runner \cup Operator -> JobId \cup {NoJob}]
  /\ stale \subseteq JobId
  /\ pc \in [Runner \cup Admin -> Plans!PC]
  /\ target \in [Runner \cup Admin -> PlanId \cup {NoPlan}]
  /\ \A r \in Runner : pc[r] = "create" =>
       \A p \in PlanId : status[p] = "ABSENT" => demoted[r] # p

(* All of it follows from what is proved of the components. *)
LEMMA TypesHold == IInv => Types
<1> SUFFICES ASSUME IInv PROVE Types
  OBVIOUS
<1>1. \A r \in Runner : pc[r] = "create" =>
        \A p \in PlanId : status[p] = "ABSENT" => demoted[r] # p
  BY IdsAssumption DEF IInv, PlansP!IInv, PlansP!RequestsKnow, PlansP!Existing
<1> QED
  BY <1>1, SamePlans, SameJobs DEF IInv, PlansP!IInv, JobsP!IInv, Types, Plans!TypeOK, Jobs!TypeOK

(* No job, no call, no plan. *)
LEMMA InitOwns == Init => OwnInv
<1> SUFFICES ASSUME Init PROVE OwnInv
  OBVIOUS
<1>1. JobsAreOwned /\ MadeByJobs /\ StagesKnow
  BY DEF Init, JobsAreOwned, MadeByJobs, StagesKnow
<1>2. CallsAreOwn
  BY DEF Init, Jobs!Init, CallsAreOwn, Jobs!JobStatus, Jobs!Active, Jobs!Terminal
<1>3. VerdictsAreRight
  <2>1. \A j \in JobId : PlansOf(j) = {}
    BY IdsAssumption DEF Init, PlansOf
  <2> QED
    BY <2>1 DEF Init, Jobs!Init, VerdictsAreRight
<1> QED
  BY <1>1, <1>2, <1>3 DEF OwnInv

(* A step that ends, or leaves alone, the calls of one runner, and moves it
   to a stage that promises nothing it did not know. *)
LEMMA CallEnds ==
  ASSUME Types, OwnInv, NEW g \in Runner, NEW s,
         stage' = [stage EXCEPT ![g] = s],
         \/ s \in {"completed", "reported", "escaped", "fail"}
         \/ s = "persist" /\ stage[g] = "generate"
         \/ s = "infeasible" /\ stage[g] = "generate",
         \A c \in Runner \cup Operator : c # g => call'[c] = call[c] /\ subject'[c] = subject[c],
         call'[g] \notin Jobs!JobStatus \cup {"beat"},
         UNCHANGED <<job, mine, madeBy>>,
         \A p \in PlanId : status'[p] = "ABSENT" => status[p] = "ABSENT"
  PROVE  OwnInv'
<1>1. stage'[g] = s /\ \A h \in Runner : h # g => stage'[h] = stage[h]
  BY DEF Types, RunnersKnow
<1>2. \A j : PlansOf(j)' = PlansOf(j)
  BY DEF PlansOf
<1>3. JobsAreOwned'
  BY <1>1 DEF OwnInv, JobsAreOwned
<1>4. CallsAreOwn'
  BY <1>1, ActorsAssumption DEF OwnInv, CallsAreOwn
<1>5. MadeByJobs'
  BY DEF OwnInv, MadeByJobs
<1>6. StagesKnow'
  BY <1>1, <1>2 DEF OwnInv, StagesKnow
<1>7. VerdictsAreRight'
  BY <1>2 DEF OwnInv, VerdictsAreRight
<1> QED
  BY <1>3, <1>4, <1>5, <1>6, <1>7 DEF OwnInv

(* A write of the runner's job, with the verdict of its stage. *)
LEMMA WriteOwn ==
  ASSUME Types, OwnInv, NEW g \in Runner, NEW s,
         Jobs!Write(g), stage' = [stage EXCEPT ![g] = s],
         \/ s \in {"completed", "reported", "escaped", "fail"}
         \/ s = "generate" /\ stage[g] = "start",
         UNCHANGED <<status, mine, madeBy>>
  PROVE  OwnInv'
<1> DEFINE j == mine[g]
<1>1. stage'[g] = s /\ \A h \in Runner : h # g => stage'[h] = stage[h]
  BY DEF Types, RunnersKnow
<1>2. \A k : PlansOf(k)' = PlansOf(k)
  BY DEF PlansOf
<1>3. /\ call[g] \in Jobs!JobStatus /\ subject[g] = j
      /\ <<stage[g], call[g]>> \in {<<"start", "RUNNING">>, <<"complete", "SUCCEEDED">>,
                                     <<"fail", "FAILED">>, <<"infeasible", "INFEASIBLE">>}
  BY DEF Jobs!Write, OwnInv, CallsAreOwn
<1>4. j \in JobId
  BY <1>3 DEF Types, RunnersKnow, Driving
<1>5. job' = [job EXCEPT ![j] = call[g]] /\ Jobs!Finish(g)
  BY <1>3 DEF Jobs!Write
<1>6. call'[g] = "none" /\ \A c \in Runner \cup Operator : c # g =>
        call'[c] = call[c] /\ subject'[c] = subject[c]
  BY <1>5 DEF Jobs!Finish, Types
<1>7. job'[j] = call[g] /\ \A k \in JobId : k # j => job'[k] = job[k]
  BY <1>4, <1>5 DEF Types
<1>8. "none" \notin Jobs!JobStatus \cup {"beat"} /\ "ABSENT" \notin Jobs!JobStatus
  BY DEF Jobs!JobStatus, Jobs!Active, Jobs!Terminal
<1>9. JobsAreOwned'
  BY <1>1, <1>3, <1>7, <1>8 DEF OwnInv, JobsAreOwned, Types, RunnersKnow
<1>10. CallsAreOwn'
  BY <1>1, <1>6, <1>8, ActorsAssumption DEF OwnInv, CallsAreOwn
<1>11. MadeByJobs'
  BY <1>3, <1>7, <1>8 DEF OwnInv, MadeByJobs, Types, RunnersKnow
<1>12. StagesKnow'
  <2> SUFFICES ASSUME NEW h \in Runner, mine[h] # NoJob
               PROVE  /\ stage'[h] \in {"start", "generate", "persist", "infeasible"} => PlansOf(mine[h]) = {}
                      /\ stage'[h] \in {"start", "generate", "persist"} =>
                           job'[mine[h]] \notin {"SUCCEEDED", "INFEASIBLE"}
                      /\ stage'[h] = "complete" => \E p \in PlanId : PlansOf(mine[h]) = {p}
    BY <1>2 DEF StagesKnow
  <2>1. CASE h = g
    BY <1>1, <1>3, <1>7, <2>1 DEF OwnInv, StagesKnow
  <2>2. CASE h # g
    <3>1. mine[h] \in JobId /\ mine[h] # j
      BY <2>2 DEF OwnInv, JobsAreOwned, Types, RunnersKnow
    <3> QED
      BY <1>1, <1>7, <2>2, <3>1 DEF OwnInv, StagesKnow
  <2> QED
    BY <2>1, <2>2
<1>13. VerdictsAreRight'
  <2>1. j # NoJob
    BY <1>4, IdsAssumption
  <2>2. /\ call[g] = "SUCCEEDED" => PlansOf(j) # {}
        /\ call[g] = "INFEASIBLE" => PlansOf(j) = {}
    BY <1>3, <2>1 DEF OwnInv, StagesKnow
  <2> QED
    BY <1>2, <1>4, <1>7, <2>2 DEF OwnInv, VerdictsAreRight
<1> QED
  BY <1>9, <1>10, <1>11, <1>12, <1>13 DEF OwnInv

(* A runner begins the write of its stage. *)
LEMMA ReadOwn ==
  ASSUME Types, OwnInv, NEW g \in Runner, NEW to,
         Jobs!Read(g, mine[g], to),
         <<stage[g], to>> \in {<<"start", "RUNNING">>, <<"complete", "SUCCEEDED">>,
                               <<"fail", "FAILED">>, <<"infeasible", "INFEASIBLE">>},
         UNCHANGED <<status, stage, mine, madeBy>>
  PROVE  OwnInv'
<1>1. \A j : PlansOf(j)' = PlansOf(j)
  BY DEF PlansOf
<1>2. UNCHANGED job /\ call'[g] = to /\ subject'[g] = mine[g]
      /\ \A c \in Runner \cup Operator : c # g => call'[c] = call[c] /\ subject'[c] = subject[c]
  BY DEF Jobs!Read, Jobs!Begin, Jobs!table, Types
<1>3. CallsAreOwn'
  BY <1>2, ActorsAssumption DEF OwnInv, CallsAreOwn
<1> QED
  BY <1>1, <1>2, <1>3 DEF OwnInv, JobsAreOwned, MadeByJobs, StagesKnow, VerdictsAreRight

(* The insert of a new job, which its runner gets to know or not. *)
LEMMA InsertOwn ==
  ASSUME Types, OwnInv, NEW g \in Runner, NEW j \in JobId, stage[g] = "request",
         Jobs!RequestInsert(g, j),
         \/ stage' = [stage EXCEPT ![g] = "start"] /\ mine' = [mine EXCEPT ![g] = j]
         \/ stage' = [stage EXCEPT ![g] = "escaped"] /\ mine' = mine,
         UNCHANGED <<status, madeBy>>
  PROVE  OwnInv'
<1>1. job[j] = "ABSENT" /\ job' = [job EXCEPT ![j] = "QUEUED"]
  BY DEF Jobs!RequestInsert
<1>2. call'[g] = "none" /\ \A c \in Runner \cup Operator : c # g =>
        call'[c] = call[c] /\ subject'[c] = subject[c]
  BY DEF Jobs!RequestInsert, Jobs!Finish, Types
<1>3. job'[j] = "QUEUED" /\ \A k \in JobId : k # j => job'[k] = job[k]
  BY <1>1 DEF Types
<1>4. \A k : PlansOf(k)' = PlansOf(k)
  BY DEF PlansOf
<1>5. PlansOf(j) = {} /\ j # NoJob
  BY <1>1, IdsAssumption DEF OwnInv, MadeByJobs, PlansOf
<1>6. \A h \in Runner : mine[h] # j
  BY <1>1, <1>5 DEF OwnInv, JobsAreOwned
<1>7. /\ stage'[g] \in {"start", "escaped"} /\ mine'[g] \in {j, NoJob}
      /\ stage'[g] = "start" => mine'[g] = j
      /\ \A h \in Runner : h # g => stage'[h] = stage[h] /\ mine'[h] = mine[h]
  BY DEF Types, RunnersKnow, OwnInv, JobsAreOwned
<1>8. JobsAreOwned'
  BY <1>3, <1>6, <1>7 DEF OwnInv, JobsAreOwned, Types, RunnersKnow
<1>9. CallsAreOwn'
  BY <1>2, <1>7, ActorsAssumption DEF OwnInv, CallsAreOwn, Jobs!JobStatus, Jobs!Active, Jobs!Terminal
<1>10. MadeByJobs'
  BY <1>1, <1>3 DEF OwnInv, MadeByJobs, Types, RunnersKnow
<1>11. StagesKnow'
  BY <1>3, <1>4, <1>5, <1>6, <1>7 DEF OwnInv, StagesKnow, Types, RunnersKnow
<1>12. VerdictsAreRight'
  BY <1>3, <1>4, <1>5 DEF OwnInv, VerdictsAreRight
<1> QED
  BY <1>8, <1>9, <1>10, <1>11, <1>12 DEF OwnInv

(* The commit of a version: the row is new, and the job's first. *)
LEMMA CommitOwn ==
  ASSUME Types, OwnInv, NEW g \in Runner, NEW p \in PlanId, stage[g] = "persist",
         Plans!CreateCommit(g, p),
         madeBy' = [madeBy EXCEPT ![p] = mine[g]],
         stage' = [stage EXCEPT ![g] = "complete"] \/ stage' = [stage EXCEPT ![g] = "fail"],
         UNCHANGED <<jobs, mine>>
  PROVE  OwnInv'
<1> DEFINE j == mine[g]
<1>1. j \in JobId /\ j # NoJob
  BY IdsAssumption DEF Types, RunnersKnow, Driving
<1>2. /\ status[p] = "ABSENT" /\ madeBy[p] = NoJob /\ status'[p] # "ABSENT"
      /\ \A q \in PlanId : status'[q] = "ABSENT" => status[q] = "ABSENT"
  <2>1. p \notin Plans!Existing /\ Plans!CommitVersion(p, target[g], demoted[g])
    BY DEF Plans!CreateCommit
  <2>2. \A q \in PlanId : status'[q] \in {"DRAFT", "SUPERSEDED", status[q]}
    BY <2>1 DEF Plans!CommitVersion
  <2>3. p # demoted[g]
    BY <2>1 DEF Plans!CreateCommit, Plans!Existing, Types
  <2>4. status'[p] = "DRAFT"
    BY <2>1, <2>3 DEF Plans!CommitVersion
  <2> QED
    BY <2>1, <2>2, <2>4 DEF Plans!Existing, OwnInv, MadeByJobs
<1>3. UNCHANGED <<job, call, subject>>
  BY DEF jobs
<1>4. /\ stage'[g] \in {"complete", "fail"}
      /\ \A h \in Runner : h # g => stage'[h] = stage[h]
      /\ madeBy'[p] = j /\ \A q \in PlanId : q # p => madeBy'[q] = madeBy[q]
  BY DEF Types, RunnersKnow
<1>5. PlansOf(j) = {}
  BY <1>1 DEF OwnInv, StagesKnow
<1>6. PlansOf(j)' = {p} /\ \A k \in JobId : k # j => PlansOf(k)' = PlansOf(k)
  <2>1. \A q \in PlanId : madeBy'[q] = j <=> q = p
    BY <1>4, <1>5 DEF PlansOf
  <2>2. \A k \in JobId, q \in PlanId : k # j => (madeBy'[q] = k <=> madeBy[q] = k)
    BY <1>2, <1>4, IdsAssumption
  <2> QED
    BY <2>1, <2>2 DEF PlansOf
<1>7. JobsAreOwned'
  BY <1>3, <1>4 DEF OwnInv, JobsAreOwned
<1>8. CallsAreOwn'
  BY <1>3, <1>4, ActorsAssumption DEF OwnInv, CallsAreOwn
<1>9. MadeByJobs'
  BY <1>1, <1>2, <1>3, <1>4 DEF OwnInv, MadeByJobs, JobsAreOwned
<1>10. StagesKnow'
  <2> SUFFICES ASSUME NEW h \in Runner, mine[h] # NoJob
               PROVE  /\ stage'[h] \in {"start", "generate", "persist", "infeasible"} => PlansOf(mine[h])' = {}
                      /\ stage'[h] \in {"start", "generate", "persist"} =>
                           job[mine[h]] \notin {"SUCCEEDED", "INFEASIBLE"}
                      /\ stage'[h] = "complete" => \E q \in PlanId : PlansOf(mine[h])' = {q}
    BY <1>3 DEF StagesKnow, PlansOf
  <2>1. CASE h = g
    BY <1>4, <1>6, <2>1
  <2>2. CASE h # g
    <3>1. mine[h] \in JobId /\ mine[h] # j
      BY <2>2 DEF OwnInv, JobsAreOwned, Types, RunnersKnow
    <3>2. PlansOf(mine[h])' = PlansOf(mine[h])
      BY <1>6, <3>1 DEF PlansOf
    <3> QED
      BY <1>4, <2>2, <3>2 DEF OwnInv, StagesKnow
  <2> QED
    BY <2>1, <2>2
<1>11. VerdictsAreRight'
  <2>1. job[j] # "INFEASIBLE" /\ job[j] # "SUCCEEDED"
    BY <1>1 DEF OwnInv, StagesKnow
  <2> QED
    BY <1>1, <1>3, <1>6, <2>1 DEF OwnInv, VerdictsAreRight
<1> QED
  BY <1>7, <1>8, <1>9, <1>10, <1>11 DEF OwnInv

(* Nobody deletes a plan. *)
LEMMA RowsStay ==
  ASSUME IInv, [Plans!Next]_(Plans!vars)
  PROVE  \A p \in PlanId : status'[p] = "ABSENT" => status[p] = "ABSENT"
<1> SUFFICES ASSUME NEW p \in PlanId, status[p] # "ABSENT" PROVE status'[p] # "ABSENT"
  OBVIOUS
<1>0. status \in [PlanId -> Plans!PlanStatus \cup {"ABSENT"}]
  BY TypesHold DEF Types
<1>1. CASE UNCHANGED Plans!vars
  BY <1>1 DEF Plans!vars, Plans!table
<1>2. ASSUME NEW s \in {"APPROVED", "PUBLISHED", "SUPERSEDED"}, NEW q, Plans!SetStatus(q, s)
      PROVE  status'[p] # "ABSENT"
  BY <1>0, <1>2 DEF Plans!SetStatus
<1>3. ASSUME NEW q, NEW l, NEW d, Plans!CommitVersion(q, l, d)
      PROVE  status'[p] # "ABSENT"
  <2>1. status'[p] \in {"DRAFT", "SUPERSEDED", status[p]}
    BY <1>3 DEF Plans!CommitVersion
  <2> QED
    BY <2>1
<1>4. CASE UNCHANGED Plans!table
  BY <1>4 DEF Plans!table
<1>5. CASE Plans!Next
  BY <1>2, <1>3, <1>4, <1>5
  DEF Plans!Next, Plans!ApproveRead, Plans!PublishRead, Plans!SupersedeRead, Plans!CreateRead,
      Plans!Begin, Plans!CreateCommit, Plans!ApproveWrite, Plans!PublishFindOther,
      Plans!PublishDemote, Plans!PublishWrite, Plans!PublishRejected, Plans!SupersedeWrite,
      Plans!CreateRolledBack, Plans!Abandon
<1> QED
  BY <1>1, <1>5

(* What the others do: nobody's stage, and no verdict. *)
LEMMA OthersKeepOwn ==
  ASSUME Types, OwnInv, UNCHANGED runners,
         \A p \in PlanId : status'[p] = "ABSENT" => status[p] = "ABSENT",
         \A c \in Runner : call'[c] = call[c] /\ subject'[c] = subject[c],
         \A o \in Operator : call'[o] \in {"none", "beat", "CANCELLED"},
         \A j \in JobId : job'[j] = job[j] \/ job'[j] \in {"FAILED", "CANCELLED"}
  PROVE  OwnInv'
<1>1. UNCHANGED <<stage, mine, madeBy>> /\ \A j : PlansOf(j)' = PlansOf(j)
  BY DEF runners, PlansOf
<1>2. JobsAreOwned'
  BY <1>1 DEF OwnInv, JobsAreOwned, Types, RunnersKnow
<1>3. CallsAreOwn'
  BY <1>1 DEF OwnInv, CallsAreOwn
<1>4. MadeByJobs'
  BY <1>1 DEF OwnInv, MadeByJobs, Types, RunnersKnow
<1>5. StagesKnow'
  BY <1>1 DEF OwnInv, StagesKnow, Types, RunnersKnow
<1>6. VerdictsAreRight'
  BY <1>1 DEF OwnInv, VerdictsAreRight
<1> QED
  BY <1>2, <1>3, <1>4, <1>5, <1>6 DEF OwnInv

(* startSolve, completeSolve, failSolve and markInfeasible, each in its stage. *)
LEMMA MoveJobOwn ==
  ASSUME Types, OwnInv, NEW g \in Runner, NEW s, NEW to, NEW next, NEW otherwise,
         MoveJob(g, s, to, next, otherwise),
         \/ s = "start" /\ to = "RUNNING" /\ next = "generate"
         \/ s = "complete" /\ to = "SUCCEEDED" /\ next = "completed"
         \/ s = "fail" /\ to = "FAILED" /\ next = "reported"
         \/ s = "infeasible" /\ to = "INFEASIBLE" /\ next = "reported",
         otherwise \in {"escaped", "fail"}
  PROVE  OwnInv'
<1>1. stage[g] = s /\ UNCHANGED status
  BY DEF MoveJob, plans
<1>2. CASE Jobs!Read(g, mine[g], to) /\ Stay
  BY <1>1, <1>2, ReadOwn DEF Stay, runners
<1>3. CASE Jobs!Write(g) /\ Advance(g, next)
  BY <1>1, <1>3, WriteOwn DEF Advance, Goto
<1>4. ASSUME Advance(g, otherwise), UNCHANGED job, call'[g] \notin Jobs!JobStatus \cup {"beat"},
             \A c \in Runner \cup Operator : c # g => call'[c] = call[c] /\ subject'[c] = subject[c]
      PROVE  OwnInv'
  BY <1>1, <1>4, CallEnds DEF Advance, Goto
<1>5. "none" \notin Jobs!JobStatus \cup {"beat"}
  BY DEF Jobs!JobStatus, Jobs!Active, Jobs!Terminal
<1>6. CASE Jobs!Idle(g) /\ Advance(g, otherwise) /\ UNCHANGED jobs
  BY <1>4, <1>5, <1>6 DEF Jobs!Idle, jobs
<1>7. CASE Jobs!WriteRejected(g) /\ Advance(g, otherwise)
  BY <1>4, <1>5, <1>7 DEF Jobs!WriteRejected, Jobs!Finish, Jobs!table, Types
<1> QED
  BY <1>2, <1>3, <1>6, <1>7 DEF MoveJob

(* Every step keeps it, whoever makes it. *)
LEMMA StepKeepsOwn == IInv /\ OwnInv /\ [Next]_vars => OwnInv'
<1> SUFFICES ASSUME IInv, OwnInv, [Next]_vars PROVE OwnInv'
  OBVIOUS
<1>0. /\ Types
      /\ \A p \in PlanId : status'[p] = "ABSENT" => status[p] = "ABSENT"
  BY TypesHold, RowsStay, StepOfPlans
<1>n. "none" \notin Jobs!JobStatus \cup {"beat"} /\ "insert" \notin Jobs!JobStatus \cup {"beat"}
  BY DEF Jobs!JobStatus, Jobs!Active, Jobs!Terminal
<1>1. ASSUME NEW g \in Runner, RequestJob(g) PROVE OwnInv'
  <2>1. CASE Jobs!RequestReturnsActive(g) /\ Advance(g, "reported")
    <3>1. UNCHANGED <<job, call, subject>>
      BY <2>1 DEF Jobs!RequestReturnsActive, Jobs!vars, Jobs!table, Jobs!callers
    <3>2. call[g] \notin Jobs!JobStatus \cup {"beat"}
      BY <1>1 DEF RequestJob, OwnInv, CallsAreOwn
    <3> QED
      BY <1>0, <2>1, <3>1, <3>2, CallEnds DEF Advance, Goto
  <2>2. CASE Jobs!RequestFindsNone(g) /\ Stay
    <3>1. UNCHANGED <<job, stage, mine, madeBy>> /\ call'[g] = "insert"
          /\ \A c \in Runner \cup Operator : c # g => call'[c] = call[c] /\ subject'[c] = subject[c]
      BY <1>0, <2>2 DEF Jobs!RequestFindsNone, Jobs!Begin, Jobs!table, Types, Stay, runners
    <3>2. CallsAreOwn'
      BY <1>n, <3>1, ActorsAssumption DEF OwnInv, CallsAreOwn
    <3>3. \A j : PlansOf(j)' = PlansOf(j)
      BY <3>1 DEF PlansOf
    <3> QED
      BY <1>0, <3>1, <3>2, <3>3 DEF OwnInv, JobsAreOwned, MadeByJobs, StagesKnow, VerdictsAreRight
  <2>3. ASSUME NEW j \in JobId, Jobs!RequestInsert(g, j), Goto(g, "start"),
               mine' = [mine EXCEPT ![g] = j], UNCHANGED madeBy
        PROVE  OwnInv'
    BY <1>0, <1>1, <2>3, InsertOwn DEF RequestJob, plans, Goto
  <2>4. CASE Jobs!RequestRejected(g) /\ Advance(g, "escaped")
    <3>1. UNCHANGED job /\ call'[g] = "none"
          /\ \A c \in Runner \cup Operator : c # g => call'[c] = call[c] /\ subject'[c] = subject[c]
      BY <1>0, <2>4 DEF Jobs!RequestRejected, Jobs!Finish, Jobs!table, Types
    <3> QED
      BY <1>0, <1>n, <2>4, <3>1, CallEnds DEF Advance, Goto
  <2> QED
    BY <1>1, <2>1, <2>2, <2>3, <2>4 DEF RequestJob
<1>2. ASSUME NEW g \in Runner, Generate(g) PROVE OwnInv'
  <2>1. PICK o \in Outcomes : Advance(g, AfterGenerating[o])
    BY <1>2 DEF Generate
  <2>2. AfterGenerating[o] \in {"persist", "infeasible", "fail", "reported", "escaped"}
    BY OutcomesAssumption DEF AllOutcomes, AfterGenerating
  <2>3. UNCHANGED <<job, call, subject>> /\ stage[g] = "generate"
    BY <1>2 DEF Generate, jobs
  <2>4. call[g] \notin Jobs!JobStatus \cup {"beat"}
    BY <2>3 DEF OwnInv, CallsAreOwn
  <2> QED
    BY <1>0, <2>1, <2>2, <2>3, <2>4, CallEnds DEF Advance, Goto
<1>3. ASSUME NEW g \in Runner, Persist(g) PROVE OwnInv'
  <2>0. UNCHANGED <<job, call, subject>> /\ stage[g] = "persist" /\ UNCHANGED jobs
    BY <1>3 DEF Persist, jobs
  <2>1. CASE Stay
    <3>1. UNCHANGED runners
      BY <2>1 DEF Stay
    <3> QED
      BY <1>0, <2>0, <3>1, OthersKeepOwn DEF OwnInv, CallsAreOwn
  <2>2. ASSUME NEW p \in PlanId, Plans!CreateCommit(g, p),
               madeBy' = [madeBy EXCEPT ![p] = mine[g]], Goto(g, "complete"), UNCHANGED mine
        PROVE  OwnInv'
    BY <1>0, <2>0, <2>2, CommitOwn DEF Goto
  <2>3. CASE Advance(g, "fail")
    <3>1. call[g] \notin Jobs!JobStatus \cup {"beat"}
      BY <2>0 DEF OwnInv, CallsAreOwn
    <3> QED
      BY <1>0, <2>0, <2>3, <3>1, CallEnds DEF Advance, Goto
  <2> QED
    BY <1>3, <2>1, <2>2, <2>3 DEF Persist
<1>4. ASSUME NEW g \in Runner, RunnerStep(g) PROVE OwnInv'
  <2>1. CASE MoveJob(g, "start", "RUNNING", "generate", "escaped")
    BY <1>0, <2>1, MoveJobOwn
  <2>2. CASE MoveJob(g, "complete", "SUCCEEDED", "completed", "fail")
    BY <1>0, <2>2, MoveJobOwn
  <2>3. CASE MoveJob(g, "fail", "FAILED", "reported", "escaped")
    BY <1>0, <2>3, MoveJobOwn
  <2>4. CASE MoveJob(g, "infeasible", "INFEASIBLE", "reported", "escaped")
    BY <1>0, <2>4, MoveJobOwn
  <2> QED
    BY <1>1, <1>2, <1>3, <1>4, <2>1, <2>2, <2>3, <2>4 DEF RunnerStep
<1>5. ASSUME NEW g \in Runner, CallFails(g) \/ Crash(g) PROVE OwnInv'
  <2>1. DropCalls(g) /\ \E s \in {"fail", "escaped"} : Advance(g, s)
    BY <1>5 DEF CallFails, Crash
  <2>2. UNCHANGED job /\ call'[g] = "none"
        /\ \A c \in Runner \cup Operator : c # g => call'[c] = call[c] /\ subject'[c] = subject[c]
    BY <1>0, <2>1 DEF DropCalls, Jobs!Abandon, Jobs!Finish, Jobs!Idle, Jobs!table, jobs, Types
  <2> QED
    BY <1>0, <1>n, <2>1, <2>2, CallEnds DEF Advance, Goto
<1>6. ASSUME NEW g \in Runner, AnswerLost(g) PROVE OwnInv'
  <2>1. ASSUME NEW j \in JobId, stage[g] = "request", Jobs!RequestInsert(g, j),
               Advance(g, "escaped"), UNCHANGED plans
        PROVE  OwnInv'
    BY <1>0, <2>1, InsertOwn DEF plans, Advance, Goto
  <2>2. ASSUME NEW s \in {"fail", "escaped"}, Jobs!Write(g), Advance(g, s), UNCHANGED plans
        PROVE  OwnInv'
    BY <1>0, <2>2, WriteOwn DEF plans, Advance, Goto
  <2>3. ASSUME NEW p \in PlanId, stage[g] = "persist", Plans!CreateCommit(g, p),
               madeBy' = [madeBy EXCEPT ![p] = mine[g]], Goto(g, "fail"), UNCHANGED <<mine, jobs>>
        PROVE  OwnInv'
    BY <1>0, <2>3, CommitOwn DEF Goto
  <2> QED
    BY <1>6, <2>1, <2>2, <2>3 DEF AnswerLost
<1>7. ASSUME NEW a \in Admin, AdminStep(a) PROVE OwnInv'
  BY <1>0, <1>7, OthersKeepOwn DEF AdminStep, jobs, OwnInv, CallsAreOwn
<1>8. ASSUME NEW o \in Operator, OperatorStep(o) PROVE OwnInv'
  <2>1. UNCHANGED runners
    BY <1>8 DEF OperatorStep
  <2>2. /\ \A c \in Runner \cup Operator : c # o => call'[c] = call[c] /\ subject'[c] = subject[c]
        /\ call'[o] \in {"none", "beat", "CANCELLED"}
        /\ \A j \in JobId : job'[j] = job[j] \/ job'[j] = "CANCELLED"
    <3>1. CASE \E j \in JobId : Jobs!Read(o, j, "CANCELLED") \/ Jobs!HeartbeatRead(o, j)
      BY <1>0, <3>1 DEF Jobs!Read, Jobs!HeartbeatRead, Jobs!Begin, Jobs!table, Types
    <3>2. CASE Jobs!Write(o)
      <4>0. call[o] \in Jobs!JobStatus
        BY <3>2 DEF Jobs!Write
      <4>1. call[o] = "CANCELLED"
        BY <4>0 DEF OwnInv, CallsAreOwn, Jobs!JobStatus, Jobs!Active, Jobs!Terminal
      <4> QED
        BY <1>0, <3>2, <4>1 DEF Jobs!Write, Jobs!Finish, Types
    <3>3. CASE Jobs!WriteRejected(o) \/ Jobs!HeartbeatWrite(o) \/ Jobs!Abandon(o)
      BY <1>0, <3>3 DEF Jobs!WriteRejected, Jobs!HeartbeatWrite, Jobs!Abandon, Jobs!Finish,
         Jobs!table, Types
    <3> QED
      BY <1>8, <3>1, <3>2, <3>3 DEF OperatorStep, Jobs!Moves, Jobs!Heartbeats
  <2> QED
    BY <1>0, <2>1, <2>2, ActorsAssumption, OthersKeepOwn DEF OwnInv, CallsAreOwn
<1>9. CASE ReaperStep
  <2>1. UNCHANGED <<call, subject>> /\ UNCHANGED runners
        /\ \A j \in JobId : job'[j] = job[j] \/ job'[j] = "FAILED"
    BY <1>0, <1>9 DEF ReaperStep, Jobs!Reaper, Jobs!ReapFind, Jobs!ReapWrite, Jobs!ReapAbandon,
       Jobs!HeartbeatAges, Jobs!table, Jobs!callers, Types
  <2> QED
    BY <1>0, <2>1, OthersKeepOwn DEF OwnInv, CallsAreOwn
<1>10. CASE UNCHANGED vars
  BY <1>0, <1>10, OthersKeepOwn DEF vars, jobs, OwnInv, CallsAreOwn
<1> QED
  BY <1>4, <1>5, <1>6, <1>7, <1>8, <1>9, <1>10 DEF Next

(* What the runners know of their own jobs holds throughout. *)
THEOREM RunnersOwnTheirJobs == Spec => []OwnInv
  BY InitOwns, StepKeepsOwn, Invariance, PTL DEF Spec

(* A job's generation commits at most one plan version, even when its
   completion fails, its answer is lost, or the job is cancelled, reaped or
   failed meanwhile: persist is left with the commit and never entered
   again. *)
THEOREM OneVersionEach == Spec => []OneVersionPerJob
<1>1. OwnInv => OneVersionPerJob
  <2> SUFFICES ASSUME OwnInv, NEW j \in JobId PROVE Cardinality(PlansOf(j)) <= 1
    BY DEF OneVersionPerJob
  <2>1. CASE PlansOf(j) = {}
    BY <2>1, FS_EmptySet
  <2>2. ASSUME NEW p \in PlanId, PlansOf(j) = {p} PROVE Cardinality(PlansOf(j)) <= 1
    <3>1. Cardinality(PlansOf(j)) = 1
      BY <2>2, FS_Singleton, Zenon
    <3> QED
      BY <3>1
  <2> QED
    BY <2>1, <2>2 DEF OwnInv, VerdictsAreRight
<1> QED
  BY <1>1, RunnersOwnTheirJobs, PTL

(* persistValidatedGeneration and completeSolve in that order: a SUCCEEDED
   job has committed exactly one version, an INFEASIBLE one none. *)
THEOREM VerdictsMatchPlans == Spec => []VerdictMatchesPlans
<1>1. OwnInv => VerdictMatchesPlans
  <2> SUFFICES ASSUME OwnInv, NEW j \in JobId
               PROVE  /\ job[j] = "SUCCEEDED" => Cardinality(PlansOf(j)) = 1
                      /\ job[j] = "INFEASIBLE" => PlansOf(j) = {}
    BY DEF VerdictMatchesPlans
  <2>1. ASSUME NEW p \in PlanId, PlansOf(j) = {p} PROVE Cardinality(PlansOf(j)) = 1
    BY <2>1, FS_Singleton
  <2> QED
    BY <2>1 DEF OwnInv, VerdictsAreRight
<1> QED
  BY <1>1, RunnersOwnTheirJobs, PTL

-----------------------------------------------------------------------------
(* As the product is wired: nobody cancels a job or sends its heartbeat,
   and nothing reaps. *)
Wired == Operator = {} /\ ~Reaping

(* Where runner g's job stands at each of its stages. *)
Flies(g) ==
  /\ stage[g] = "start" => job[mine[g]] = "QUEUED"
  /\ stage[g] \in {"generate", "persist", "complete", "infeasible"} => job[mine[g]] = "RUNNING"
  /\ stage[g] = "fail" /\ call[g] = "FAILED" => job[mine[g]] \in Jobs!Active

(* The transaction a runner has open is that of persist, and what it read
   is still the latest plan. *)
ReadsStand(g) == pc[g] = "create" => stage[g] = "persist" /\ Plans!LatestRead(target[g])

FlightInv == \A g \in Runner : Flies(g) /\ ReadsStand(g)

(* A step of runner g or a fault of its calls. *)
RunnerActs(g) == RunnerStep(g) \/ CallFails(g) \/ AnswerLost(g) \/ Crash(g)

(* The active-job index makes the runner that flies the only one. *)
LEMMA FlightsAreAlone == Types /\ IInv /\ OwnInv /\ FlightInv => SingleFlight
<1> SUFFICES ASSUME Types, IInv, OwnInv, FlightInv, NEW g \in Runner, NEW h \in Runner,
                    Working(g), Working(h)
             PROVE  g = h
  BY DEF SingleFlight
<1>1. /\ mine[g] \in JobId /\ job[mine[g]] \in Jobs!Active
      /\ mine[h] \in JobId /\ job[mine[h]] \in Jobs!Active
  BY DEF Types, RunnersKnow, Driving, Working, FlightInv, Flies, Jobs!Active
<1>2. mine[g] = mine[h]
  <2>1. \A i, j \in JobId : job[i] \in Jobs!Active /\ job[j] \in Jobs!Active => i = j
    BY DEF IInv, JobsP!IInv, JobsP!OneActiveJob, JobsP!ActiveJobs, JobsP!Active, Jobs!Active
  <2> QED
    BY <1>1, <2>1
<1> QED
  BY <1>1, <1>2, IdsAssumption DEF OwnInv, JobsAreOwned

(* What a runner's step does to jobs and to the other runners. *)
LEMMA RunnerMovesOwnJob ==
  ASSUME Types, OwnInv, NEW g \in Runner, RunnerActs(g)
  PROVE  /\ \A h \in Runner : h # g =>
              /\ stage'[h] = stage[h] /\ mine'[h] = mine[h]
              /\ call'[h] = call[h] /\ pc'[h] = pc[h] /\ target'[h] = target[h]
         /\ \/ job' = job
            \/ \E j \in JobId : job[j] = "ABSENT" /\ job' = [job EXCEPT ![j] = "QUEUED"]
            \/ call[g] \in Jobs!JobStatus /\ job' = [job EXCEPT ![mine[g]] = call[g]]
<1> DEFINE Others == \A h \in Runner : h # g =>
                       stage'[h] = stage[h] /\ mine'[h] = mine[h]
           OtherCalls == \A h \in Runner : h # g => call'[h] = call[h]
           OtherReads == \A h \in Runner : h # g => pc'[h] = pc[h] /\ target'[h] = target[h]
           Moved == \/ job' = job
                    \/ \E j \in JobId : job[j] = "ABSENT" /\ job' = [job EXCEPT ![j] = "QUEUED"]
                    \/ call[g] \in Jobs!JobStatus /\ job' = [job EXCEPT ![mine[g]] = call[g]]
<1>1. /\ UNCHANGED plans => OtherReads
      /\ UNCHANGED jobs => OtherCalls /\ Moved
      /\ Stay => Others
      /\ \A s : Advance(g, s) => Others
      /\ \A s, j : Goto(g, s) /\ mine' = [mine EXCEPT ![g] = j] => Others
      /\ \A s : Goto(g, s) /\ UNCHANGED mine => Others
  BY DEF plans, jobs, Stay, runners, Advance, Goto, Types, RunnersKnow
<1>2. /\ Plans!Finish(g) => OtherReads
      /\ \A q : Plans!CreateRead(g, q) => OtherReads
      /\ \A q : Plans!CreateCommit(g, q) => OtherReads
      /\ Plans!CreateRolledBack(g) => OtherReads
      /\ Plans!Abandon(g) => OtherReads
  BY DEF Plans!Finish, Plans!CreateRead, Plans!Begin, Plans!CreateCommit,
     Plans!CreateRolledBack, Plans!Abandon, Types
<1>3. /\ Jobs!Finish(g) => OtherCalls
      /\ \A j, s : Jobs!Begin(g, s, j) => OtherCalls /\ Moved
      /\ Jobs!RequestReturnsActive(g) => OtherCalls /\ Moved
      /\ \A j \in JobId : Jobs!RequestInsert(g, j) => OtherCalls /\ Moved
      /\ Jobs!RequestRejected(g) => OtherCalls /\ Moved
      /\ Jobs!WriteRejected(g) => OtherCalls /\ Moved
      /\ Jobs!Abandon(g) => OtherCalls /\ Moved
  BY DEF Jobs!Finish, Jobs!Begin, Jobs!RequestReturnsActive, Jobs!RequestInsert,
     Jobs!RequestRejected, Jobs!WriteRejected, Jobs!Abandon, Jobs!vars, Jobs!table,
     Jobs!callers, Types
<1>4. Jobs!Write(g) => OtherCalls /\ Moved
  BY <1>3 DEF Jobs!Write, OwnInv, CallsAreOwn
<1>5. CASE RequestJob(g)
  BY <1>1, <1>3, <1>5 DEF RequestJob, Jobs!RequestFindsNone
<1>6. ASSUME NEW s, NEW to, NEW next, NEW otherwise, MoveJob(g, s, to, next, otherwise)
      PROVE  Others /\ OtherCalls /\ OtherReads /\ Moved
  BY <1>1, <1>3, <1>4, <1>6 DEF MoveJob, Jobs!Read
<1>7. CASE Generate(g)
  BY <1>1, <1>7 DEF Generate
<1>8. CASE Persist(g)
  BY <1>1, <1>2, <1>8 DEF Persist
<1>9. DropCalls(g) => OtherCalls /\ OtherReads /\ Moved
  BY <1>1, <1>2, <1>3 DEF DropCalls
<1>10. CASE CallFails(g) \/ Crash(g)
  BY <1>1, <1>9, <1>10 DEF CallFails, Crash
<1>11. CASE AnswerLost(g)
  BY <1>1, <1>2, <1>3, <1>4, <1>11 DEF AnswerLost
<1> QED
  BY <1>5, <1>6, <1>7, <1>8, <1>10, <1>11 DEF RunnerActs, RunnerStep

(* A runner that is told to stop, or that fails with no call open, flies. *)
LEMMA Landing ==
  ASSUME Types, NEW g \in Runner, NEW s, stage' = [stage EXCEPT ![g] = s],
         s \in {"completed", "reported", "escaped"} \/ (s = "fail" /\ call'[g] # "FAILED")
  PROVE  Flies(g)'
BY DEF Types, RunnersKnow, Flies

(* The stages of a runner's own job. *)
LEMMA RunnerFlies ==
  ASSUME Types, OwnInv, NEW g \in Runner, Flies(g), RunnerActs(g)
  PROVE  Flies(g)'
<1>0. stage \in [Runner -> Stage] /\ mine \in [Runner -> JobId \cup {NoJob}]
  BY DEF Types, RunnersKnow
<1>1. Jobs!Finish(g) => call'[g] = "none"
  BY DEF Jobs!Finish, Types
<1>2. /\ \A s : Advance(g, s) /\ s \in {"completed", "reported", "escaped"} => Flies(g)'
      /\ Advance(g, "fail") /\ call'[g] # "FAILED" => Flies(g)'
  BY <1>0 DEF Advance, Goto, Flies
<1>3. CASE RequestJob(g)
  <2>1. CASE Stay
    BY <1>3, <2>1 DEF RequestJob, Stay, runners, Flies
  <2>2. ASSUME NEW j \in JobId, Jobs!RequestInsert(g, j), Goto(g, "start"),
               mine' = [mine EXCEPT ![g] = j]
        PROVE  Flies(g)'
    BY <1>0, <2>2 DEF Jobs!RequestInsert, Goto, Flies, Types
  <2> QED
    BY <1>2, <1>3, <2>1, <2>2 DEF RequestJob
<1>4. ASSUME NEW s, NEW to, NEW next, NEW otherwise, MoveJob(g, s, to, next, otherwise),
             \/ s = "start" /\ to = "RUNNING" /\ next = "generate" /\ otherwise = "escaped"
             \/ s = "complete" /\ to = "SUCCEEDED" /\ next = "completed" /\ otherwise = "fail"
             \/ s = "fail" /\ to = "FAILED" /\ next = "reported" /\ otherwise = "escaped"
             \/ s = "infeasible" /\ to = "INFEASIBLE" /\ next = "reported" /\ otherwise = "escaped"
      PROVE  Flies(g)'
  <2>1. CASE Jobs!Read(g, mine[g], to) /\ Stay
    <3>1. /\ job[mine[g]] # "ABSENT" /\ to \in Jobs!JOB_TRANSITIONS[job[mine[g]]]
          /\ UNCHANGED <<job, stage, mine>> /\ call'[g] = to
      BY <2>1 DEF Jobs!Read, Jobs!MayBecome, Jobs!Begin, Jobs!table, Types, Stay, runners
    <3>2. stage[g] = s /\ mine[g] \in JobId
      BY <1>4 DEF MoveJob, Types, RunnersKnow, Driving
    <3>3. job[mine[g]] \in Jobs!JobStatus
      BY <3>1, <3>2 DEF Types
    <3>4. to = "FAILED" => job[mine[g]] \in Jobs!Active
      BY <3>1, <3>3 DEF Jobs!JOB_TRANSITIONS, Jobs!JobStatus, Jobs!Active, Jobs!Terminal
    <3> QED
      BY <1>4, <3>1, <3>2, <3>4 DEF Flies
  <2>2. CASE Jobs!Idle(g) /\ Advance(g, otherwise) /\ UNCHANGED jobs
    <3>1. call'[g] # "FAILED"
      BY <2>2 DEF Jobs!Idle, jobs
    <3> QED
      BY <1>2, <1>4, <2>2, <3>1
  <2>3. CASE Jobs!Write(g) /\ Advance(g, next)
    <3>1. CASE s = "start"
      <4>1. stage[g] = s /\ mine[g] \in JobId
        BY <1>4 DEF MoveJob, Types, RunnersKnow, Driving
      <4>2. call[g] \in Jobs!JobStatus
        BY <2>3 DEF Jobs!Write
      <4>3. call[g] = "RUNNING" /\ subject[g] = mine[g]
        BY <3>1, <4>1, <4>2 DEF OwnInv, CallsAreOwn
      <4>4. job' = [job EXCEPT ![mine[g]] = "RUNNING"]
        BY <2>3, <4>3 DEF Jobs!Write
      <4>5. stage'[g] = "generate" /\ mine'[g] = mine[g] /\ job'[mine[g]] = "RUNNING"
        BY <1>0, <1>4, <2>3, <3>1, <4>1, <4>4 DEF Advance, Goto, Types
      <4> QED
        BY <4>5 DEF Flies
    <3>2. CASE s # "start"
      BY <1>2, <1>4, <2>3, <3>2
    <3> QED
      BY <3>1, <3>2
  <2>4. CASE Jobs!WriteRejected(g) /\ Advance(g, otherwise)
    BY <1>1, <1>2, <1>4, <2>4 DEF Jobs!WriteRejected
  <2> QED
    BY <1>4, <2>1, <2>2, <2>3, <2>4 DEF MoveJob
<1>5. CASE Generate(g)
  <2>1. PICK o \in Outcomes : Advance(g, AfterGenerating[o])
    BY <1>5 DEF Generate
  <2>2. AfterGenerating[o] \in {"persist", "infeasible", "fail", "reported", "escaped"}
    BY OutcomesAssumption DEF AllOutcomes, AfterGenerating
  <2>3. UNCHANGED <<job, call, mine>> /\ stage[g] = "generate"
    BY <1>5, <2>1 DEF Generate, jobs, Advance
  <2>4. call[g] # "FAILED"
    BY <2>3 DEF OwnInv, CallsAreOwn, Jobs!JobStatus, Jobs!Terminal
  <2>5. stage'[g] = AfterGenerating[o]
    BY <1>0, <2>1 DEF Advance, Goto
  <2> QED
    BY <2>2, <2>3, <2>4, <2>5 DEF Flies
<1>6. CASE Persist(g)
  <2>1. UNCHANGED <<job, call>> /\ stage[g] = "persist"
    BY <1>6 DEF Persist, jobs
  <2>2. call[g] # "FAILED"
    BY <2>1 DEF OwnInv, CallsAreOwn, Jobs!JobStatus, Jobs!Terminal
  <2>3. CASE Stay
    BY <2>1, <2>3 DEF Stay, runners, Flies
  <2>4. CASE Goto(g, "complete") /\ UNCHANGED mine
    BY <1>0, <2>1, <2>4 DEF Goto, Flies
  <2> QED
    BY <1>2, <1>6, <2>1, <2>2, <2>3, <2>4 DEF Persist
<1>7. CASE CallFails(g) \/ Crash(g)
  <2>1. call'[g] # "FAILED"
    BY <1>1, <1>7 DEF CallFails, Crash, DropCalls, Jobs!Abandon, Jobs!Idle, jobs
  <2> QED
    BY <1>2, <1>7, <2>1 DEF CallFails, Crash
<1>8. CASE AnswerLost(g)
  <2>1. CASE Jobs!Write(g) /\ Advance(g, IF stage[g] = "complete" THEN "fail" ELSE "escaped")
    BY <1>1, <1>2, <2>1 DEF Jobs!Write
  <2>2. CASE stage[g] = "persist" /\ Goto(g, "fail") /\ UNCHANGED jobs
    <3>1. call'[g] # "FAILED"
      BY <2>2 DEF OwnInv, CallsAreOwn, Jobs!JobStatus, Jobs!Terminal, jobs
    <3> QED
      BY <2>2, <3>1, Landing DEF Goto
  <2> QED
    BY <1>2, <1>8, <2>1, <2>2 DEF AnswerLost
<1> QED
  BY <1>3, <1>4, <1>5, <1>6, <1>7, <1>8 DEF RunnerActs, RunnerStep

(* A runner's transaction reads the latest plan and ends with its stage. *)
LEMMA RunnerReads ==
  ASSUME Types, NEW g \in Runner, ReadsStand(g), RunnerActs(g)
  PROVE  ReadsStand(g)'
<1>0. stage \in [Runner -> Stage] /\ pc \in [Runner \cup Admin -> Plans!PC]
      /\ target \in [Runner \cup Admin -> PlanId \cup {NoPlan}]
  BY DEF Types, RunnersKnow
<1>1. Plans!Finish(g) => pc'[g] # "create"
  BY <1>0 DEF Plans!Finish
<1>2. UNCHANGED plans /\ stage[g] # "persist" => pc'[g] # "create"
  BY DEF plans, ReadsStand
<1>3. CASE pc'[g] # "create"
  BY <1>3 DEF ReadsStand
<1>4. CASE RequestJob(g)
  BY <1>2, <1>3, <1>4 DEF RequestJob
<1>5. ASSUME NEW s, NEW to, NEW next, NEW otherwise, MoveJob(g, s, to, next, otherwise),
             s # "persist"
      PROVE  ReadsStand(g)'
  BY <1>2, <1>3, <1>5 DEF MoveJob
<1>6. CASE Generate(g)
  BY <1>2, <1>3, <1>6 DEF Generate
<1>7. CASE Persist(g)
  <2>1. ASSUME NEW latest \in PlanId \cup {NoPlan}, Plans!CreateRead(g, latest), Stay
        PROVE  ReadsStand(g)'
    <3>1. /\ UNCHANGED <<status, version, stage>> /\ Plans!LatestRead(latest)
          /\ target'[g] = latest
      BY <1>0, <2>1 DEF Plans!CreateRead, Plans!Begin, Plans!table, Stay, runners
    <3>2. Plans!LatestRead(latest)'
      BY <3>1 DEF Plans!LatestRead, Plans!IsLatest, Plans!Existing
    <3> QED
      BY <1>7, <3>1, <3>2 DEF ReadsStand, Persist, Plans!LatestRead, Plans!IsLatest, Plans!Existing
  <2> QED
    BY <1>1, <1>3, <1>7, <2>1 DEF Persist, Plans!CreateCommit, Plans!CreateRolledBack
<1>8. CASE CallFails(g) \/ Crash(g)
  BY <1>1, <1>3, <1>8 DEF CallFails, Crash, DropCalls, Plans!Abandon, plans
<1>9. CASE AnswerLost(g)
  BY <1>1, <1>2, <1>3, <1>9 DEF AnswerLost, Plans!CreateCommit
<1> QED
  BY <1>4, <1>5, <1>6, <1>7, <1>8, <1>9 DEF RunnerActs, RunnerStep

(* Which plan is the latest is the business of the runner that persists. *)
LEMMA LatestStays ==
  ASSUME IInv, NEW g \in Runner, RunnerActs(g), stage[g] # "persist"
  PROVE  UNCHANGED <<status, version>>
<1>1. UNCHANGED plans \/ Plans!Abandon(g)
  BY DEF RunnerActs, RunnerStep, RequestJob, MoveJob, Generate, Persist, CallFails, Crash,
     DropCalls, AnswerLost
<1> QED
  BY <1>1 DEF plans, Plans!Abandon, Plans!table

(* A runner's step leaves the flights of the others alone: it writes no job
   of theirs, and a version is committed by the only runner that flies. *)
LEMMA OthersFlights ==
  ASSUME IInv, OwnInv, FlightInv, NEW g \in Runner, RunnerActs(g), NEW h \in Runner, h # g
  PROVE  Flies(h)' /\ ReadsStand(h)'
<1>0. Types
  BY TypesHold
<1>1. /\ stage'[h] = stage[h] /\ mine'[h] = mine[h] /\ call'[h] = call[h]
      /\ pc'[h] = pc[h] /\ target'[h] = target[h]
  BY <1>0, RunnerMovesOwnJob
<1>2. Flies(h)'
  <2>1. SUFFICES ASSUME Driving(h) PROVE job'[mine[h]] = job[mine[h]]
    BY <1>1 DEF FlightInv, Flies, Driving
  <2>2. mine[h] \in JobId /\ job[mine[h]] # "ABSENT" /\ mine[h] # mine[g]
    BY <1>0, <2>1, IdsAssumption DEF Types, RunnersKnow, OwnInv, JobsAreOwned
  <2>3. job \in [JobId -> Jobs!JobStatus \cup {"ABSENT"}]
    BY <1>0 DEF Types
  <2>4. CASE \E j \in JobId : job[j] = "ABSENT" /\ job' = [job EXCEPT ![j] = "QUEUED"]
    BY <2>2, <2>3, <2>4
  <2>5. CASE job' = [job EXCEPT ![mine[g]] = call[g]]
    BY <2>2, <2>3, <2>5
  <2> QED
    BY <1>0, <2>4, <2>5, RunnerMovesOwnJob
<1>3. ReadsStand(h)'
  <2>1. SUFFICES ASSUME pc[h] = "create" PROVE Plans!LatestRead(target[h])'
    BY <1>1 DEF FlightInv, ReadsStand
  <2>2. stage[h] = "persist" /\ Plans!LatestRead(target[h])
    BY <2>1 DEF FlightInv, ReadsStand
  <2>3. stage[g] # "persist"
    BY <1>0, <2>2, FlightsAreAlone DEF SingleFlight, Working
  <2> QED
    BY <1>1, <2>2, <2>3, LatestStays DEF Plans!LatestRead, Plans!IsLatest, Plans!Existing
<1> QED
  BY <1>2, <1>3

(* An admin moves plans that exist, and makes none. *)
LEMMA AdminsKeepVersions ==
  ASSUME IInv, NEW a \in Admin, AdminStep(a)
  PROVE  /\ Plans!Existing' = Plans!Existing /\ UNCHANGED version
         /\ \A g \in Runner : pc'[g] = pc[g] /\ target'[g] = target[g]
<1>1. /\ status \in [PlanId -> Plans!PlanStatus \cup {"ABSENT"}]
      /\ pc \in [Runner \cup Admin -> Plans!PC]
      /\ target \in [Runner \cup Admin -> PlanId \cup {NoPlan}]
  BY TypesHold DEF Types
<1>2. ASSUME NEW p \in Plans!Existing, NEW s \in {"APPROVED", "PUBLISHED", "SUPERSEDED"},
             Plans!SetStatus(p, s)
      PROVE  Plans!Existing' = Plans!Existing
  BY <1>1, <1>2 DEF Plans!SetStatus, Plans!Existing
<1>3. /\ pc[a] \in {"approve", "findOther", "demote", "publish", "supersede"}
           => target[a] \in Plans!Existing
      /\ pc[a] = "demote" => demoted[a] \in Plans!Existing
  BY DEF IInv, PlansP!IInv, PlansP!RequestsKnow, PlansP!Existing, Plans!Existing
<1>4. Plans!Existing' = Plans!Existing /\ UNCHANGED version
  <2>1. CASE Plans!ApproveWrite(a) \/ Plans!PublishDemote(a) \/ Plans!PublishWrite(a)
             \/ Plans!SupersedeWrite(a)
    BY <1>2, <1>3, <2>1 DEF Plans!ApproveWrite, Plans!PublishDemote, Plans!PublishWrite,
       Plans!SupersedeWrite
  <2>2. CASE UNCHANGED Plans!table
    BY <2>2 DEF Plans!table, Plans!Existing
  <2> QED
    BY <2>1, <2>2 DEF AdminStep, Plans!ApproveRead, Plans!PublishRead, Plans!SupersedeRead,
       Plans!Begin, Plans!PublishFindOther, Plans!PublishRejected, Plans!Abandon
<1>5. \A g \in Runner : pc'[g] = pc[g] /\ target'[g] = target[g]
  BY <1>1, ActorsAssumption
  DEF AdminStep, Plans!ApproveRead, Plans!PublishRead, Plans!SupersedeRead, Plans!Begin,
      Plans!Goto, Plans!Finish, Plans!PublishFindOther, Plans!PublishRejected, Plans!Abandon,
      Plans!ApproveWrite, Plans!PublishDemote, Plans!PublishWrite, Plans!SupersedeWrite
<1> QED
  BY <1>4, <1>5

(* Wired as the product is, every step is a runner's or an admin's. *)
LEMMA WiredSteps ==
  ASSUME Wired, [Next]_vars
  PROVE  \/ \E g \in Runner : RunnerActs(g)
         \/ \E a \in Admin : AdminStep(a)
         \/ UNCHANGED vars
BY DEF Wired, Next, RunnerActs, ReaperStep

(* Every step of the product as it is wired keeps the flights. *)
LEMMA FlightsGoOn == ASSUME Wired PROVE IInv /\ OwnInv /\ FlightInv /\ [Next]_vars => FlightInv'
<1> SUFFICES ASSUME IInv, OwnInv, FlightInv, [Next]_vars PROVE FlightInv'
  OBVIOUS
<1>1. ASSUME NEW g \in Runner, RunnerActs(g) PROVE FlightInv'
  <2>1. Flies(g)' /\ ReadsStand(g)'
    BY <1>1, TypesHold, RunnerFlies, RunnerReads DEF FlightInv
  <2> QED
    BY <1>1, <2>1, OthersFlights DEF FlightInv
<1>2. ASSUME NEW a \in Admin, AdminStep(a) PROVE FlightInv'
  <2>1. UNCHANGED <<job, call, stage, mine>>
    BY <1>2 DEF AdminStep, jobs, runners
  <2>2. /\ Plans!Existing' = Plans!Existing /\ UNCHANGED version
        /\ \A g \in Runner : pc'[g] = pc[g] /\ target'[g] = target[g]
    BY <1>2, AdminsKeepVersions
  <2>3. ASSUME NEW g \in Runner PROVE Flies(g)' /\ ReadsStand(g)'
    BY <2>1, <2>2 DEF FlightInv, Flies, ReadsStand, Plans!LatestRead, Plans!IsLatest
  <2> QED
    BY <2>3 DEF FlightInv
<1>3. CASE UNCHANGED vars
  BY <1>3 DEF vars, plans, jobs, runners, FlightInv, Flies, ReadsStand, Plans!LatestRead,
     Plans!IsLatest, Plans!Existing
<1> QED
  BY <1>1, <1>2, <1>3, WiredSteps

(* Nobody flies yet. *)
LEMMA InitFlies == Init => FlightInv
BY DEF Init, Plans!Init, FlightInv, Flies, ReadsStand

(* Wired as the product is, each runner's job stands where its stage says. *)
THEOREM FlightsHold == ASSUME Wired PROVE Spec => []FlightInv
  BY InitFlies, FlightsGoOn, RunnersOwnTheirJobs, Invariance, PTL DEF Spec

(* Generations of one exam never overlap between startSolve and their
   verdict: solve_jobs_one_active_per_exam serialises them, however many
   requests arrive and whichever calls fail or answers are lost. *)
THEOREM OneFlight == ASSUME Wired PROVE Spec => []SingleFlight
  BY FlightsHold, FlightsAreAlone, TypesHold, RunnersOwnTheirJobs, Invariance, PTL

(* ... so the latest plan a generation's transaction read is still the
   latest when it commits, whatever admins do to its status: the version
   index never has to reject a generation. *)
THEOREM NoVersionCollides == ASSUME Wired PROVE Spec => []VersionsNeverCollide
<1>1. FlightInv => VersionsNeverCollide
  BY DEF FlightInv, ReadsStand, VersionsNeverCollide
<1> QED
  BY <1>1, FlightsHold, PTL

(* A runner writes the status it read its job ready for: nobody else writes
   that job between the read and the write. *)
LEMMA StepIsLegal ==
  ASSUME Wired
  PROVE  IInv /\ OwnInv /\ FlightInv /\ [Next]_vars =>
           \A j \in JobId : job[j] # "ABSENT" /\ job'[j] # job[j]
                              => job'[j] \in Jobs!JOB_TRANSITIONS[job[j]]
<1> SUFFICES ASSUME IInv, OwnInv, FlightInv, [Next]_vars, NEW j \in JobId,
                    job[j] # "ABSENT", job'[j] # job[j]
             PROVE  job'[j] \in Jobs!JOB_TRANSITIONS[job[j]]
  OBVIOUS
<1>0. Types /\ job \in [JobId -> Jobs!JobStatus \cup {"ABSENT"}]
  BY TypesHold DEF Types
<1>1. PICK g \in Runner : RunnerActs(g)
  BY WiredSteps DEF AdminStep, vars, jobs
<1>2. call[g] \in Jobs!JobStatus /\ job' = [job EXCEPT ![mine[g]] = call[g]] /\ j = mine[g]
  BY <1>0, <1>1, RunnerMovesOwnJob
<1>3. <<stage[g], call[g]>> \in {<<"start", "RUNNING">>, <<"complete", "SUCCEEDED">>,
                                 <<"fail", "FAILED">>, <<"infeasible", "INFEASIBLE">>}
  BY <1>2 DEF OwnInv, CallsAreOwn
<1>4. \/ call[g] = "RUNNING" /\ job[j] = "QUEUED"
      \/ call[g] \in {"SUCCEEDED", "INFEASIBLE"} /\ job[j] = "RUNNING"
      \/ call[g] = "FAILED" /\ job[j] \in Jobs!Active
  BY <1>2, <1>3 DEF FlightInv, Flies
<1>5. job'[j] = call[g]
  BY <1>0, <1>2
<1> QED
  BY <1>4, <1>5 DEF Jobs!JOB_TRANSITIONS, Jobs!Active

(* Every change of a job's status is one JOB_TRANSITIONS allows, although no
   update repeats the check the read made. *)
THEOREM JobsFollowTheirTable == ASSUME Wired PROVE Spec => JobsFollowTable
  BY StepIsLegal, FlightsHold, RunnersOwnTheirJobs, Invariance, PTL
     DEF Spec, JobsFollowTable, Jobs!LegalJobTransitions
=============================================================================
