---------------------------- MODULE SeatingPlans ----------------------------
(***************************************************************************)
(* The versioned seating plans of ONE exam (src/src/services/              *)
(* seatingPlan.service.ts) and the requests that move them through         *)
(* DRAFT, APPROVED, PUBLISHED and SUPERSEDED.                              *)
(*                                                                         *)
(* The seating_plans table is kept by columns.  Every awaited prisma call  *)
(* of a request is one atomic step of the database: a request that reads a *)
(* plan, checks it and updates it in a later call is two steps, and other  *)
(* requests may run between them.  A prisma.$transaction is a read step    *)
(* and a commit step: its own writes become visible together, or not at    *)
(* all.  No query of this service crosses exams, so one exam is enough.    *)
(***************************************************************************)
EXTENDS Naturals, FiniteSets

CONSTANTS
  PlanId,    \* row ids a plan can be given; bounds how many plans are made
  NoPlan,    \* "null": no plan
  Request    \* the request handlers that may be in flight together

ASSUME NoPlanAssumption == NoPlan \notin PlanId

VARIABLES
  status,      \* plan id -> its status, "ABSENT" before the row exists
  version,     \* plan id -> its version, 0 before the row exists
  supersedes,  \* plan id -> supersedesPlanId
  approved,    \* plan id -> approvedAt is set
  pc,          \* request -> the database call it makes next
  target,      \* request -> the plan it acts on (the latest one, when creating)
  demoted      \* request -> the other plan it has decided to supersede

table == <<status, version, supersedes, approved>>
requests == <<pc, target, demoted>>
vars == <<table, requests>>

PlanStatus == {"DRAFT", "APPROVED", "PUBLISHED", "SUPERSEDED"}

PLAN_TRANSITIONS ==
  [DRAFT      |-> {"APPROVED", "SUPERSEDED"},
   APPROVED   |-> {"PUBLISHED", "SUPERSEDED"},
   PUBLISHED  |-> {"SUPERSEDED"},
   SUPERSEDED |-> {}]

Existing == {p \in PlanId : status[p] # "ABSENT"}

Published == {p \in Existing : status[p] = "PUBLISHED"}

(* findFirst(where examId, orderBy version desc). *)
IsLatest(p) == p \in Existing /\ \A q \in Existing : version[q] <= version[p]

(* assertPlanTransition does not throw. *)
MayBecome(p, s) == p \in Existing /\ s \in PLAN_TRANSITIONS[status[p]]

PC == {"idle", "approve", "findOther", "demote", "publish", "supersede", "create"}

TypeOK ==
  /\ status \in [PlanId -> PlanStatus \cup {"ABSENT"}]
  /\ version \in [PlanId -> Nat]
  /\ \A p \in PlanId : version[p] = 0 <=> status[p] = "ABSENT"
  /\ supersedes \in [PlanId -> PlanId \cup {NoPlan}]
  /\ approved \in [PlanId -> BOOLEAN]
  /\ pc \in [Request -> PC]
  /\ target \in [Request -> PlanId \cup {NoPlan}]
  /\ demoted \in [Request -> PlanId \cup {NoPlan}]

Init ==
  /\ status = [p \in PlanId |-> "ABSENT"]
  /\ version = [p \in PlanId |-> 0]
  /\ supersedes = [p \in PlanId |-> NoPlan]
  /\ approved = [p \in PlanId |-> FALSE]
  /\ pc = [r \in Request |-> "idle"]
  /\ target = [r \in Request |-> NoPlan]
  /\ demoted = [r \in Request |-> NoPlan]

-----------------------------------------------------------------------------
(* Steps of a request.                                                     *)

(* An idle request takes up plan p and its next database call is "next".   *)
Begin(r, next, p) ==
  /\ pc[r] = "idle"
  /\ pc' = [pc EXCEPT ![r] = next]
  /\ target' = [target EXCEPT ![r] = p]
  /\ UNCHANGED table

Goto(r, next) == pc' = [pc EXCEPT ![r] = next]

(* The request returns or throws; its locals are gone. *)
Finish(r) ==
  /\ pc' = [pc EXCEPT ![r] = "idle"]
  /\ target' = [target EXCEPT ![r] = NoPlan]
  /\ demoted' = [demoted EXCEPT ![r] = NoPlan]

(* seatingPlan.update({where: {id}, data: {status}}): whatever the row holds
   now.  The columns the update leaves alone are the caller's to state. *)
SetStatus(p, s) == status' = [status EXCEPT ![p] = s]

-----------------------------------------------------------------------------
(* approvePlan: getPlan and its checks, then an update by id.  A request
   that a check rejects has written nothing: it is a stuttering step. *)

(* Mutant: only SUPERSEDED plans are refused. *)
CanReapprove(p) == p \in Existing /\ status[p] # "SUPERSEDED"

CanApprove(p) == MayBecome(p, "APPROVED")

ApproveRead(r, p) == CanApprove(p) /\ Begin(r, "approve", p) /\ UNCHANGED demoted

ApproveWrite(r) ==
  /\ pc[r] = "approve"
  /\ SetStatus(target[r], "APPROVED")
  /\ approved' = [approved EXCEPT ![target[r]] = TRUE]
  /\ Finish(r)
  /\ UNCHANGED <<version, supersedes>>

-----------------------------------------------------------------------------
(* publishPlan: getPlan and its checks, a look for another PUBLISHED plan,
   its demotion, and the publication, each a call of its own. *)

(* Mutant: approval is not asked for. *)
CanPublishDrafts(p) == p \in Existing /\ status[p] \in {"DRAFT", "APPROVED"}

CanPublish(p) == MayBecome(p, "PUBLISHED")

PublishRead(r, p) == CanPublish(p) /\ Begin(r, "findOther", p) /\ UNCHANGED demoted

PublishFindOther(r) ==
  /\ pc[r] = "findOther"
  /\ \/ \E q \in Published \ {target[r]} :
          /\ Goto(r, "demote")
          /\ demoted' = [demoted EXCEPT ![r] = q]
     \/ /\ Published \subseteq {target[r]}
        /\ Goto(r, "publish")
        /\ UNCHANGED demoted
  /\ UNCHANGED <<table, target>>

PublishDemote(r) ==
  /\ pc[r] = "demote"
  /\ SetStatus(demoted[r], "SUPERSEDED")
  /\ Goto(r, "publish")
  /\ UNCHANGED <<version, supersedes, approved, target, demoted>>

(* Mutant: the migration without the index. *)
NoPublishedIndex(p) == TRUE

(* The partial unique index seating_plans_one_published_per_exam accepts p. *)
PublishedIndexAdmits(p) == Published \subseteq {p}

PublishWrite(r) ==
  /\ pc[r] = "publish"
  /\ PublishedIndexAdmits(target[r])
  /\ SetStatus(target[r], "PUBLISHED")
  /\ Finish(r)
  /\ UNCHANGED <<version, supersedes, approved>>

(* P2002: the index rejects the update, which throws. *)
PublishRejected(r) ==
  /\ pc[r] = "publish"
  /\ ~PublishedIndexAdmits(target[r])
  /\ Finish(r)
  /\ UNCHANGED table

-----------------------------------------------------------------------------
(* supersedePlan: getPlan and its check, then an update by id. *)

CanSupersede(p) == MayBecome(p, "SUPERSEDED")

SupersedeRead(r, p) == CanSupersede(p) /\ Begin(r, "supersede", p) /\ UNCHANGED demoted

SupersedeWrite(r) ==
  /\ pc[r] = "supersede"
  /\ SetStatus(target[r], "SUPERSEDED")
  /\ Finish(r)
  /\ UNCHANGED <<version, supersedes, approved>>

-----------------------------------------------------------------------------
(* The transaction of createPlan, which persistValidatedGeneration repeats
   with the seat assignments of the new version: read the latest plan, then
   supersede it and insert the next version as one commit. *)

(* Mutant: versions count from 0. *)
NextVersionFromZero(latest) == IF latest = NoPlan THEN 0 ELSE version[latest] + 1

NextVersion(latest) == IF latest = NoPlan THEN 1 ELSE version[latest] + 1

(* What tx.seatingPlan.findFirst may return. *)
LatestRead(latest) ==
  IF Existing = {} THEN latest = NoPlan ELSE IsLatest(latest)

(* Mutant: only an unapproved latest plan is superseded. *)
ToRetireDrafts(latest) ==
  IF latest \in PlanId /\ status[latest] = "DRAFT" THEN latest ELSE NoPlan

(* The plan the transaction decides to supersede: the latest one, unless it
   was SUPERSEDED when it was read. *)
ToRetire(latest) ==
  IF latest \in PlanId /\ status[latest] # "SUPERSEDED" THEN latest ELSE NoPlan

(* Mutant: the table without the index. *)
NoVersionIndex(v) == TRUE

(* The unique index seating_plans(exam_id, version) accepts version v. *)
VersionIndexAdmits(v) == \A q \in Existing : version[q] # v

(* Mutant: the new version is inserted beside the old one. *)
CommitBeside(p, latest, retired) ==
  /\ status' = [status EXCEPT ![p] = "DRAFT"]
  /\ version' = [version EXCEPT ![p] = NextVersion(latest)]
  /\ supersedes' = [supersedes EXCEPT ![p] = latest]
  /\ UNCHANGED approved

(* The commit: retired is superseded, and p is the DRAFT successor of latest. *)
CommitVersion(p, latest, retired) ==
  /\ status' = [q \in PlanId |-> CASE q = p       -> "DRAFT"
                                   [] q = retired -> "SUPERSEDED"
                                   [] OTHER       -> status[q]]
  /\ version' = [version EXCEPT ![p] = NextVersion(latest)]
  /\ supersedes' = [supersedes EXCEPT ![p] = latest]
  /\ UNCHANGED approved

CreateRead(r, latest) ==
  /\ LatestRead(latest)
  /\ Begin(r, "create", latest)
  /\ demoted' = [demoted EXCEPT ![r] = ToRetire(latest)]

CreateCommit(r, p) ==
  /\ pc[r] = "create"
  /\ p \notin Existing
  /\ VersionIndexAdmits(NextVersion(target[r]))
  /\ CommitVersion(p, target[r], demoted[r])
  /\ Finish(r)

(* P2002 inside the transaction: everything it did is rolled back. *)
CreateRolledBack(r) ==
  /\ pc[r] = "create"
  /\ ~VersionIndexAdmits(NextVersion(target[r]))
  /\ Finish(r)
  /\ UNCHANGED table

-----------------------------------------------------------------------------
(* The next call of the request fails, or its process dies: what the calls
   before it committed stays, the rest never happens. *)
Abandon(r) == pc[r] # "idle" /\ Finish(r) /\ UNCHANGED table

Next ==
  \E r \in Request :
    \/ \E p \in PlanId : \/ ApproveRead(r, p)
                         \/ PublishRead(r, p)
                         \/ SupersedeRead(r, p)
                         \/ CreateCommit(r, p)
    \/ \E latest \in PlanId \cup {NoPlan} : CreateRead(r, latest)
    \/ ApproveWrite(r)
    \/ PublishFindOther(r)
    \/ PublishDemote(r)
    \/ PublishWrite(r)
    \/ PublishRejected(r)
    \/ SupersedeWrite(r)
    \/ CreateRolledBack(r)
    \/ Abandon(r)

Spec == Init /\ [][Next]_vars

-----------------------------------------------------------------------------
(* Properties that hold however many requests overlap.                     *)

(* Readers of the exam (getSeatingPlanForExam) find at most one PUBLISHED
   plan, although publishPlan looks for the other one and demotes it in
   calls of their own: the index settles every race. *)
OnePublished == \A p, q \in Published : p = q

(* The versions of the exam form one chain without gaps, forks or
   duplicates: version 1 supersedes nothing, version n + 1 supersedes the
   plan that is version n.  Two transactions that read the same latest plan
   cannot both commit. *)
VersionChain ==
  /\ \A p, q \in Existing : version[p] = version[q] => p = q
  /\ \A p \in Existing :
       IF version[p] = 1
       THEN supersedes[p] = NoPlan
       ELSE /\ supersedes[p] \in Existing
            /\ version[p] = version[supersedes[p]] + 1

(* Approval gates publication: a plan that is APPROVED or PUBLISHED has been
   approved, whatever ran between the reads and the writes of publishPlan. *)
ApprovalGatesPublication ==
  \A p \in Existing : status[p] \in {"APPROVED", "PUBLISHED"} => approved[p]

(* The schema's status table as a step property: every change of a row's
   status is one PLAN_TRANSITIONS allows. *)
LegalTransitions ==
  [][\A p \in Existing :
       status'[p] # status[p] => status'[p] \in PLAN_TRANSITIONS[status[p]]]_vars

(* Only the newest version is alive: creating version n + 1 retires n for
   good, so what is PUBLISHED is the newest plan. *)
OnlyNewestAlive ==
  \A p \in Existing : status[p] # "SUPERSEDED" => IsLatest(p)
=============================================================================
