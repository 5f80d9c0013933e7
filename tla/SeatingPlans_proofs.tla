-------------------------- MODULE SeatingPlans_proofs --------------------------
(***************************************************************************)
(* What holds of the plans of an exam for any number of plans and any      *)
(* number of overlapping requests.                                         *)
(*                                                                         *)
(* The three invariants are not inductive alone: a write is as good as the *)
(* read it follows, so the induction carries what each request still knows *)
(* about the plans it read (RequestsKnow).  What a request cannot know,    *)
(* that no other request has moved its plan, is left to the two unique     *)
(* indexes, whose acceptance is the guard of the writes.                   *)
(***************************************************************************)
EXTENDS SerialPlans, Sequences, FiniteSetTheorems, TLAPS

(* What is still true of the plans a request has read: rows are never
   deleted, and a plan that was approved stays so marked. *)
RequestsKnow ==
  \A r \in Request :
    /\ pc[r] \in {"approve", "findOther", "demote", "publish", "supersede"}
         => target[r] \in Existing
    /\ pc[r] \in {"findOther", "demote", "publish"} => approved[target[r]]
    /\ pc[r] = "demote" => demoted[r] \in Existing
    /\ pc[r] = "create" => /\ target[r] \in Existing \cup {NoPlan}
                           /\ demoted[r] \in Existing \cup {NoPlan}

IInv ==
  /\ TypeOK
  /\ RequestsKnow
  /\ OnePublished
  /\ VersionChain
  /\ ApprovalGatesPublication

-----------------------------------------------------------------------------
(* The initial state: an empty table and idle requests satisfy all of it. *)
LEMMA InitEstablishes == Init => IInv
  BY DEF Init, IInv, TypeOK, RequestsKnow, OnePublished, VersionChain,
         ApprovalGatesPublication, Existing, Published, PC

(* A step that changes the requests alone keeps what is said of the table. *)
LEMMA TableUnchanged ==
  ASSUME UNCHANGED table
  PROVE  /\ Existing' = Existing
         /\ OnePublished => OnePublished'
         /\ VersionChain => VersionChain'
         /\ ApprovalGatesPublication => ApprovalGatesPublication'
  BY DEF table, Existing, Published, OnePublished, VersionChain,
         ApprovalGatesPublication

(* An update of the status of a row that exists, to a status other than
   ABSENT, adds no row and deletes none. *)
LEMMA UpdateKeepsRows ==
  ASSUME TypeOK, NEW p \in Existing, NEW s \in PlanStatus, SetStatus(p, s)
  PROVE  Existing' = Existing
  BY DEF TypeOK, PlanStatus, SetStatus, Existing

(* ... and therefore keeps the chain of versions, which it leaves alone. *)
LEMMA UpdateKeepsChain ==
  ASSUME VersionChain, Existing' = Existing, UNCHANGED <<version, supersedes>>
  PROVE  VersionChain'
  BY DEF VersionChain

(* A request that ends knows nothing, and the others know what they knew if
   no row is deleted and no approval withdrawn. *)
LEMMA OthersStillKnow ==
  ASSUME TypeOK, RequestsKnow, NEW r \in Request, Finish(r),
         Existing \subseteq Existing',
         \A p \in PlanId : approved[p] => approved'[p]
  PROVE  RequestsKnow'
  BY DEF TypeOK, RequestsKnow, Finish, Existing

(* Beginning or ending a request keeps the types of its locals. *)
LEMMA FinishTypes ==
  ASSUME TypeOK, NEW r \in Request, Finish(r)
  PROVE  /\ pc' \in [Request -> PC]
         /\ target' \in [Request -> PlanId \cup {NoPlan}]
         /\ demoted' \in [Request -> PlanId \cup {NoPlan}]
  BY DEF TypeOK, Finish, PC

-----------------------------------------------------------------------------
(* The reads: Begin, and which plan was read. *)
LEMMA ReadPreserves ==
  ASSUME IInv, NEW r \in Request, NEW p \in PlanId,
         ApproveRead(r, p) \/ PublishRead(r, p) \/ SupersedeRead(r, p)
  PROVE  IInv'
<1>1. p \in Existing /\ UNCHANGED table
  BY DEF ApproveRead, PublishRead, SupersedeRead, CanApprove, CanPublish,
         CanSupersede, MayBecome, Begin
<1>2. TypeOK'
  BY <1>1 DEF IInv, TypeOK, ApproveRead, PublishRead, SupersedeRead, Begin, PC, table
<1>3. PublishRead(r, p) => approved[p]
  BY <1>1 DEF IInv, TypeOK, PublishRead, CanPublish, MayBecome, PLAN_TRANSITIONS,
              ApprovalGatesPublication, Existing, PlanStatus
<1>4. RequestsKnow'
  BY <1>1, <1>3, TableUnchanged
     DEF IInv, TypeOK, RequestsKnow, ApproveRead, PublishRead, SupersedeRead, Begin, table
<1> QED
  BY <1>1, <1>2, <1>4, TableUnchanged DEF IInv

(* The read of the transaction: the latest plan, and whether to retire it. *)
LEMMA CreateReadPreserves ==
  ASSUME IInv, NEW r \in Request, NEW latest \in PlanId \cup {NoPlan},
         CreateRead(r, latest)
  PROVE  IInv'
<1>1. latest \in Existing \cup {NoPlan} /\ UNCHANGED table
  BY DEF CreateRead, LatestRead, IsLatest, Begin
<1>2. ToRetire(latest) \in Existing \cup {NoPlan}
  BY <1>1, NoPlanAssumption DEF ToRetire, Existing
<1>3. TypeOK'
  BY <1>1, <1>2 DEF IInv, TypeOK, CreateRead, Begin, PC, table, Existing
<1>4. RequestsKnow'
  BY <1>1, <1>2, TableUnchanged DEF IInv, TypeOK, RequestsKnow, CreateRead, Begin, table
<1> QED
  BY <1>1, <1>3, <1>4, TableUnchanged DEF IInv

(* publishPlan's look for another PUBLISHED plan. *)
LEMMA FindOtherPreserves ==
  ASSUME IInv, NEW r \in Request, PublishFindOther(r)
  PROVE  IInv'
<1>1. UNCHANGED <<table, target>>
  BY DEF PublishFindOther
<1>2. TypeOK'
  BY <1>1 DEF IInv, TypeOK, PublishFindOther, Goto, PC, table, Published, Existing
<1>3. RequestsKnow'
  <2>1. pc[r] = "findOther" /\ target[r] \in Existing /\ approved[target[r]]
    BY DEF PublishFindOther, IInv, RequestsKnow
  <2>2. CASE \E q \in Published \ {target[r]} :
               Goto(r, "demote") /\ demoted' = [demoted EXCEPT ![r] = q]
    BY <1>1, <2>1, <2>2, TableUnchanged
       DEF IInv, TypeOK, RequestsKnow, Goto, Published, table
  <2>3. CASE Goto(r, "publish") /\ UNCHANGED demoted
    BY <1>1, <2>1, <2>3, TableUnchanged DEF IInv, TypeOK, RequestsKnow, Goto, table
  <2> QED
    BY <2>2, <2>3 DEF PublishFindOther
<1> QED
  BY <1>1, <1>2, <1>3, TableUnchanged DEF IInv

-----------------------------------------------------------------------------
(* The updates by id. *)

(* approvePlan's update marks the row it makes APPROVED, whatever the row
   was, so the gate holds even of the out-of-date approval. *)
LEMMA ApproveWritePreserves ==
  ASSUME IInv, NEW r \in Request, ApproveWrite(r)
  PROVE  IInv'
<1> DEFINE p == target[r]
<1>1. p \in Existing /\ SetStatus(p, "APPROVED") /\ Finish(r)
  BY DEF IInv, RequestsKnow, ApproveWrite
<1>2. Existing' = Existing
  BY <1>1, UpdateKeepsRows DEF IInv, PlanStatus
<1>3. approved' = [approved EXCEPT ![p] = TRUE] /\ UNCHANGED <<version, supersedes>>
  BY DEF ApproveWrite
<1>4. TypeOK'
  BY <1>1, <1>2, <1>3, FinishTypes DEF IInv, TypeOK, SetStatus, PlanStatus, Existing
<1>5. RequestsKnow'
  BY <1>1, <1>2, <1>3, OthersStillKnow DEF IInv, TypeOK
<1>6. OnePublished'
  BY <1>1, <1>2 DEF IInv, TypeOK, OnePublished, Published, SetStatus, Existing
<1>7. VersionChain'
  BY <1>2, <1>3, UpdateKeepsChain DEF IInv
<1>8. ApprovalGatesPublication'
  BY <1>1, <1>2, <1>3 DEF IInv, TypeOK, ApprovalGatesPublication, SetStatus, Existing
<1> QED
  BY <1>4, <1>5, <1>6, <1>7, <1>8 DEF IInv

(* Any update that makes a row SUPERSEDED: publishPlan's demotion of the
   other plan and supersedePlan. *)
LEMMA SupersedingKeepsTable ==
  ASSUME IInv, NEW p \in Existing, SetStatus(p, "SUPERSEDED"),
         UNCHANGED <<version, supersedes, approved>>
  PROVE  /\ Existing' = Existing
         /\ status' \in [PlanId -> PlanStatus \cup {"ABSENT"}]
         /\ \A q \in PlanId : version'[q] = 0 <=> status'[q] = "ABSENT"
         /\ OnePublished'
         /\ VersionChain'
         /\ ApprovalGatesPublication'
<1>1. Existing' = Existing
  BY UpdateKeepsRows DEF IInv, PlanStatus
<1>2. /\ status' \in [PlanId -> PlanStatus \cup {"ABSENT"}]
      /\ \A q \in PlanId : version'[q] = 0 <=> status'[q] = "ABSENT"
  BY DEF IInv, TypeOK, SetStatus, PlanStatus, Existing
<1>3. OnePublished'
  BY <1>1 DEF IInv, TypeOK, OnePublished, Published, SetStatus, Existing
<1>4. ApprovalGatesPublication'
  BY <1>1 DEF IInv, TypeOK, ApprovalGatesPublication, SetStatus, Existing
<1> QED
  BY <1>1, <1>2, <1>3, <1>4, UpdateKeepsChain DEF IInv

LEMMA DemotePreserves ==
  ASSUME IInv, NEW r \in Request, PublishDemote(r)
  PROVE  IInv'
<1>1. /\ demoted[r] \in Existing
      /\ SetStatus(demoted[r], "SUPERSEDED")
      /\ UNCHANGED <<version, supersedes, approved>>
  BY DEF IInv, RequestsKnow, PublishDemote
<1>2. TypeOK'
  BY <1>1, SupersedingKeepsTable DEF IInv, TypeOK, PublishDemote, Goto, PC
<1>3. RequestsKnow'
  BY <1>1, SupersedingKeepsTable DEF IInv, TypeOK, RequestsKnow, PublishDemote, Goto
<1> QED
  BY <1>1, <1>2, <1>3, SupersedingKeepsTable DEF IInv

LEMMA SupersedeWritePreserves ==
  ASSUME IInv, NEW r \in Request, SupersedeWrite(r)
  PROVE  IInv'
<1>1. /\ target[r] \in Existing
      /\ SetStatus(target[r], "SUPERSEDED")
      /\ Finish(r)
      /\ UNCHANGED <<version, supersedes, approved>>
  BY DEF IInv, RequestsKnow, SupersedeWrite
<1>2. TypeOK'
  BY <1>1, SupersedingKeepsTable, FinishTypes DEF IInv, TypeOK
<1>3. RequestsKnow'
  BY <1>1, SupersedingKeepsTable, OthersStillKnow DEF IInv
<1> QED
  BY <1>1, <1>2, <1>3, SupersedingKeepsTable DEF IInv

(* The publication: the partial unique index is what makes it the only one,
   and that the plan was APPROVED when it was read what keeps the gate. *)
LEMMA PublishWritePreserves ==
  ASSUME IInv, NEW r \in Request, PublishWrite(r)
  PROVE  IInv'
<1> DEFINE p == target[r]
<1>1. /\ p \in Existing /\ approved[p]
      /\ SetStatus(p, "PUBLISHED") /\ Finish(r)
      /\ UNCHANGED <<version, supersedes, approved>>
  BY DEF IInv, RequestsKnow, PublishWrite
<1>2. Existing' = Existing
  BY <1>1, UpdateKeepsRows DEF IInv, PlanStatus
<1>3. TypeOK'
  BY <1>1, <1>2, FinishTypes DEF IInv, TypeOK, SetStatus, PlanStatus, Existing
<1>4. RequestsKnow'
  BY <1>1, <1>2, OthersStillKnow DEF IInv, TypeOK
<1>5. OnePublished'
  <2>1. Published \subseteq {p}
    BY DEF PublishWrite, PublishedIndexAdmits
  <2>2. Published' \subseteq {p}
    BY <1>1, <1>2, <2>1 DEF IInv, TypeOK, Published, SetStatus, Existing
  <2> QED
    BY <2>2 DEF OnePublished
<1>6. VersionChain'
  BY <1>1, <1>2, UpdateKeepsChain DEF IInv
<1>7. ApprovalGatesPublication'
  BY <1>1, <1>2 DEF IInv, TypeOK, ApprovalGatesPublication, SetStatus, Existing
<1> QED
  BY <1>3, <1>4, <1>5, <1>6, <1>7 DEF IInv

-----------------------------------------------------------------------------
(* The commit of a new version. *)
LEMMA CreateCommitPreserves ==
  ASSUME IInv, NEW r \in Request, NEW p \in PlanId, CreateCommit(r, p)
  PROVE  IInv'
<1> DEFINE latest == target[r]
           v == NextVersion(latest)
<1>1. /\ p \notin Existing
      /\ latest \in Existing \cup {NoPlan}
      /\ demoted[r] \in Existing \cup {NoPlan}
      /\ VersionIndexAdmits(v)
      /\ Finish(r)
  BY DEF IInv, RequestsKnow, CreateCommit
<1>2. /\ status' = [q \in PlanId |-> CASE q = p          -> "DRAFT"
                                       [] q = demoted[r] -> "SUPERSEDED"
                                       [] OTHER          -> status[q]]
      /\ version' = [version EXCEPT ![p] = v]
      /\ supersedes' = [supersedes EXCEPT ![p] = latest]
      /\ approved' = approved
  BY DEF CreateCommit, CommitVersion
<1> p # demoted[r]
  BY <1>1, NoPlanAssumption
<1>3. /\ \A q \in PlanId : /\ q = p => status'[q] = "DRAFT"
                           /\ q = demoted[r] => status'[q] = "SUPERSEDED"
                           /\ q # p /\ q # demoted[r] => status'[q] = status[q]
      /\ status' \in [PlanId -> PlanStatus \cup {"ABSENT"}]
  BY <1>2 DEF IInv, TypeOK, PlanStatus
<1>4. Existing' = Existing \cup {p}
  BY <1>1, <1>3, NoPlanAssumption DEF Existing
<1>5. v \in Nat /\ v # 0 /\ (v = 1 => latest = NoPlan) /\ (latest = NoPlan => v = 1)
      /\ (latest # NoPlan => v = version[latest] + 1)
  BY <1>1, NoPlanAssumption DEF IInv, TypeOK, NextVersion, Existing
<1>6. TypeOK'
  <2>1. ASSUME NEW q \in PlanId
        PROVE  version'[q] = 0 <=> status'[q] = "ABSENT"
    <3>1. CASE q = p
      BY <1>2, <1>3, <1>5, <3>1 DEF IInv, TypeOK
    <3>2. CASE q # p /\ q = demoted[r]
      <4>1. q \in Existing
        BY <1>1, <3>2, NoPlanAssumption
      <4> QED
        BY <1>2, <1>3, <3>2, <4>1 DEF IInv, TypeOK, Existing
    <3>3. CASE q # p /\ q # demoted[r]
      BY <1>2, <1>3, <3>3 DEF IInv, TypeOK
    <3> QED
      BY <3>1, <3>2, <3>3
  <2> QED
    BY <1>1, <1>2, <1>3, <1>5, <2>1, FinishTypes DEF IInv, TypeOK, Existing
<1>7. RequestsKnow'
  BY <1>1, <1>2, <1>4, OthersStillKnow DEF IInv
<1>8. OnePublished'
  BY <1>1, <1>3, <1>4 DEF IInv, OnePublished, Published, Existing
<1>9. VersionChain'
  <2>1. \A q \in Existing : /\ q \in PlanId /\ q # p
                            /\ version'[q] = version[q]
                            /\ supersedes'[q] = supersedes[q]
    BY <1>1, <1>2 DEF IInv, TypeOK, Existing
  <2>2. version'[p] = v /\ supersedes'[p] = latest
    BY <1>2 DEF IInv, TypeOK
  <2>3. \A q, s \in Existing' : version'[q] = version'[s] => q = s
    BY <1>1, <1>4, <2>1, <2>2 DEF IInv, VersionChain, VersionIndexAdmits
  <2>4. ASSUME NEW q \in Existing
        PROVE  IF version'[q] = 1
               THEN supersedes'[q] = NoPlan
               ELSE /\ supersedes'[q] \in Existing'
                    /\ version'[q] = version'[supersedes'[q]] + 1
    BY <1>4, <2>1 DEF IInv, VersionChain
  <2>5. IF version'[p] = 1
        THEN supersedes'[p] = NoPlan
        ELSE /\ supersedes'[p] \in Existing'
             /\ version'[p] = version'[supersedes'[p]] + 1
    BY <1>1, <1>4, <1>5, <2>1, <2>2
  <2> QED
    BY <1>4, <2>3, <2>4, <2>5 DEF VersionChain
<1>10. ApprovalGatesPublication'
  BY <1>1, <1>2, <1>3, <1>4 DEF IInv, ApprovalGatesPublication, Existing
<1> QED
  BY <1>6, <1>7, <1>8, <1>9, <1>10 DEF IInv

(* A rejected or abandoned call changes no row. *)
LEMMA GivingUpPreserves ==
  ASSUME IInv, NEW r \in Request,
         PublishRejected(r) \/ CreateRolledBack(r) \/ Abandon(r)
  PROVE  IInv'
<1>1. Finish(r) /\ UNCHANGED table
  BY DEF PublishRejected, CreateRolledBack, Abandon
<1>2. Existing' = Existing
  BY <1>1, TableUnchanged
<1>3. TypeOK'
  BY <1>1, FinishTypes DEF IInv, TypeOK, table
<1>4. RequestsKnow'
  BY <1>1, <1>2, OthersStillKnow DEF IInv, table
<1> QED
  BY <1>1, <1>3, <1>4, TableUnchanged DEF IInv

-----------------------------------------------------------------------------
(* Every step keeps the inductive invariant. *)
LEMMA StepPreserves == IInv /\ [Next]_vars => IInv'
<1> SUFFICES ASSUME IInv, [Next]_vars PROVE IInv'
  OBVIOUS
<1>1. CASE UNCHANGED vars
  BY <1>1 DEF vars, table, requests, IInv, TypeOK, RequestsKnow, OnePublished,
              VersionChain, ApprovalGatesPublication, Existing, Published
<1>2. CASE Next
  <2> PICK r \in Request :
        \/ \E p \in PlanId : \/ ApproveRead(r, p)
                             \/ PublishRead(r, p)
                             \/ SupersedeRead(r, p)
                             \/ CreateCommit(r, p)
        \/ \E latest \in PlanId \cup {NoPlan} : CreateRead(r, latest)
        \/ ApproveWrite(r)
        \/ PublishFindOther(r)
        \/ PublishDemote(r)
        \/ PublishWrite(r)
        \/ PublishRejected(r)
        \/ SupersedeWrite(r)
        \/ CreateRolledBack(r)
        \/ Abandon(r)
    BY <1>2 DEF Next
  <2>1. ASSUME NEW p \in PlanId,
               ApproveRead(r, p) \/ PublishRead(r, p) \/ SupersedeRead(r, p)
        PROVE  IInv'
    BY <2>1, ReadPreserves
  <2>2. ASSUME NEW p \in PlanId, CreateCommit(r, p) PROVE IInv'
    BY <2>2, CreateCommitPreserves
  <2>3. ASSUME NEW latest \in PlanId \cup {NoPlan}, CreateRead(r, latest) PROVE IInv'
    BY <2>3, CreateReadPreserves
  <2>4. CASE ApproveWrite(r)
    BY <2>4, ApproveWritePreserves
  <2>5. CASE PublishFindOther(r)
    BY <2>5, FindOtherPreserves
  <2>6. CASE PublishDemote(r)
    BY <2>6, DemotePreserves
  <2>7. CASE PublishWrite(r)
    BY <2>7, PublishWritePreserves
  <2>8. CASE SupersedeWrite(r)
    BY <2>8, SupersedeWritePreserves
  <2>9. CASE PublishRejected(r) \/ CreateRolledBack(r) \/ Abandon(r)
    BY <2>9, GivingUpPreserves
  <2> QED
    BY <2>9, <2>8, <2>7, <2>6, <2>5, <2>1, <2>2, <2>3, <2>4
<1> QED
  BY <1>1, <1>2

(* The inductive invariant holds of every behaviour of the plans. *)
THEOREM Invariance == Spec => []IInv
  BY InitEstablishes, StepPreserves, PTL DEF Spec

(* Type correctness of the table and of the requests' locals. *)
THEOREM TypeCorrect == Spec => []TypeOK
<1>1. IInv => TypeOK
  BY DEF IInv
<1> QED
  BY <1>1, Invariance, PTL

(* However many requests approve, publish, supersede and create at once, an
   exam has at most one PUBLISHED plan. *)
THEOREM AtMostOnePublished == Spec => []OnePublished
<1>1. IInv => OnePublished
  BY DEF IInv
<1> QED
  BY <1>1, Invariance, PTL

(* However many transactions of createPlan and of generations overlap, the
   versions form one gapless chain. *)
THEOREM VersionsFormAChain == Spec => []VersionChain
<1>1. IInv => VersionChain
  BY DEF IInv
<1> QED
  BY <1>1, Invariance, PTL

(* No interleaving of publishPlan with other requests publishes a plan that
   was never approved. *)
THEOREM PublicationWasApproved == Spec => []ApprovalGatesPublication
<1>1. IInv => ApprovalGatesPublication
  BY DEF IInv
<1> QED
  BY <1>1, Invariance, PTL

-----------------------------------------------------------------------------
(* Requests that do not overlap.  What a request has read is then still true
   when it writes, so its update needs no check of its own, and the plans
   are the list of versions of PlanLifecycle. *)

(* One request at a time. *)
Serial == \A r, s \in Request : r = s

(* The versions of the plans are the numbers from 1 on. *)
Numbered ==
  /\ IsFiniteSet(Existing)
  /\ \A p \in Existing : version[p] \in 1 .. Cardinality(Existing)
  /\ \A v \in 1 .. Cardinality(Existing) : \E p \in Existing : version[p] = v

(* The plan has not been superseded. *)
Alive(p) == status[p] \in {"DRAFT", "APPROVED", "PUBLISHED"}

(* What the request has read still holds: nobody else has written. *)
ReadStands(r) ==
  /\ pc[r] = "approve" => status[target[r]] = "DRAFT"
  /\ pc[r] \in {"findOther", "publish"} => status[target[r]] = "APPROVED"
  /\ pc[r] # "demote"
  /\ pc[r] = "supersede" => Alive(target[r])
  /\ pc[r] = "create" => LatestRead(target[r]) /\ demoted[r] = ToRetire(target[r])

SerialInv == OnlyNewestAlive /\ Numbered /\ \A r \in Request : ReadStands(r)

(* The newest plan is the one whose version counts the plans. *)
LEMMA NewestCounts ==
  ASSUME IInv, Numbered, NEW p \in PlanId, IsLatest(p)
  PROVE  version[p] = Cardinality(Existing)
<1>1. Cardinality(Existing) \in Nat /\ p \in Existing
  BY FS_CardinalityType DEF Numbered, IsLatest
<1>2. version[p] \in 1 .. Cardinality(Existing)
  BY <1>1 DEF Numbered
<1>3. PICK q \in Existing : version[q] = Cardinality(Existing)
  BY <1>1, <1>2 DEF Numbered
<1>4. version[q] <= version[p]
  BY <1>3 DEF IsLatest
<1> QED
  BY <1>1, <1>2, <1>3, <1>4

(* No plan and no request. *)
LEMMA InitIsSerial == Init => SerialInv
<1> SUFFICES ASSUME Init PROVE SerialInv
  OBVIOUS
<1>1. Existing = {}
  BY DEF Init, Existing
<1>2. OnlyNewestAlive /\ \A r \in Request : ReadStands(r)
  BY <1>1 DEF Init, OnlyNewestAlive, ReadStands
<1>3. Numbered
  BY <1>1, FS_EmptySet DEF Numbered
<1> QED
  BY <1>2, <1>3 DEF SerialInv

(* An update by id of the newest plan, by the only request there is. *)
LEMMA UpdateIsSerial ==
  ASSUME Serial, IInv, SerialInv, NEW r \in Request, NEW s \in PlanStatus,
         target[r] \in Existing, Alive(target[r]),
         SetStatus(target[r], s), UNCHANGED version, Finish(r)
  PROVE  SerialInv' /\ Existing' = Existing
<1>1. Existing' = Existing
  BY UpdateKeepsRows DEF IInv
<1>2. IsLatest(target[r])
  BY DEF SerialInv, OnlyNewestAlive, Alive
<1>3. OnlyNewestAlive'
  <2> SUFFICES ASSUME NEW p \in Existing, status'[p] # "SUPERSEDED" PROVE IsLatest(p)'
    BY <1>1 DEF OnlyNewestAlive
  <2>1. IsLatest(p)
    BY <1>2 DEF SerialInv, OnlyNewestAlive, IInv, TypeOK, SetStatus, Existing
  <2> QED
    BY <1>1, <2>1 DEF IsLatest
<1>4. Numbered'
  BY <1>1 DEF SerialInv, Numbered
<1>5. \A q \in Request : ReadStands(q)'
  BY DEF Serial, IInv, TypeOK, Finish, ReadStands
<1> QED
  BY <1>1, <1>3, <1>4, <1>5 DEF SerialInv

(* A step that leaves the table alone. *)
LEMMA TableIsSerial ==
  ASSUME Serial, SerialInv, UNCHANGED table, NEW r \in Request, ReadStands(r)'
  PROVE  SerialInv' /\ Existing' = Existing
<1>1. Existing' = Existing /\ OnlyNewestAlive' /\ Numbered'
  BY DEF SerialInv, table, Existing, OnlyNewestAlive, IsLatest, Numbered
<1>2. \A q \in Request : ReadStands(q)'
  BY DEF Serial
<1> QED
  BY <1>1, <1>2 DEF SerialInv

(* The reads. *)
LEMMA ReadIsSerial ==
  ASSUME Serial, IInv, SerialInv, NEW r \in Request, NEW p \in PlanId,
         ApproveRead(r, p) \/ PublishRead(r, p) \/ SupersedeRead(r, p)
  PROVE  SerialInv' /\ UNCHANGED table
<1>1. UNCHANGED <<status, version>> /\ UNCHANGED table /\ target'[r] = p
  BY DEF ApproveRead, PublishRead, SupersedeRead, Begin, table, IInv, TypeOK
<1>2. status[p] \in PlanStatus
  BY DEF ApproveRead, PublishRead, SupersedeRead, CanApprove, CanPublish, CanSupersede, MayBecome,
     Existing, IInv, TypeOK
<1>3. /\ ApproveRead(r, p) => status[p] = "DRAFT" /\ pc'[r] = "approve"
      /\ PublishRead(r, p) => status[p] = "APPROVED" /\ pc'[r] = "findOther"
      /\ SupersedeRead(r, p) => Alive(p) /\ pc'[r] = "supersede"
  BY <1>2 DEF ApproveRead, PublishRead, SupersedeRead, CanApprove, CanPublish, CanSupersede,
     MayBecome, Begin, PLAN_TRANSITIONS, PlanStatus, IInv, TypeOK, Alive
<1>4. ReadStands(r)'
  BY <1>1, <1>3 DEF ReadStands, Alive
<1> QED
  BY <1>1, <1>4, TableIsSerial

(* publishPlan finds no other PUBLISHED plan: its own is APPROVED, so it is
   the newest, and only the newest is alive. *)
LEMMA FindOtherIsSerial ==
  ASSUME Serial, IInv, SerialInv, NEW r \in Request, PublishFindOther(r)
  PROVE  SerialInv' /\ UNCHANGED table
<1>1. /\ pc[r] = "findOther" /\ status[target[r]] = "APPROVED" /\ target[r] \in Existing
      /\ UNCHANGED table /\ UNCHANGED <<target, status>>
  BY DEF PublishFindOther, SerialInv, ReadStands, IInv, RequestsKnow, table
<1>2. IsLatest(target[r])
  BY <1>1 DEF SerialInv, OnlyNewestAlive
<1>3. Published \ {target[r]} = {}
  <2> SUFFICES ASSUME NEW q \in Published PROVE q = target[r]
    OBVIOUS
  <2>1. IsLatest(q)
    BY DEF Published, SerialInv, OnlyNewestAlive
  <2>2. version[q] = version[target[r]]
    BY <1>2, <2>1 DEF IsLatest, IInv, TypeOK, Existing
  <2> QED
    BY <1>1, <2>2 DEF IInv, VersionChain, Published
<1>4. pc'[r] = "publish"
  BY <1>3 DEF PublishFindOther, Goto, IInv, TypeOK
<1>5. ReadStands(r)'
  BY <1>1, <1>4 DEF ReadStands
<1> QED
  BY <1>1, <1>5, TableIsSerial

(* The read of the transaction, which is repeated by nobody before it commits. *)
LEMMA CreateReadIsSerial ==
  ASSUME Serial, IInv, SerialInv, NEW r \in Request, NEW latest \in PlanId \cup {NoPlan},
         CreateRead(r, latest)
  PROVE  SerialInv' /\ UNCHANGED table
<1>1. /\ UNCHANGED table /\ UNCHANGED <<status, version>> /\ LatestRead(latest)
      /\ pc'[r] = "create" /\ target'[r] = latest /\ demoted'[r] = ToRetire(latest)
  BY DEF CreateRead, Begin, table, IInv, TypeOK
<1>2. ReadStands(r)'
  BY <1>1 DEF ReadStands, LatestRead, IsLatest, Existing, ToRetire
<1> QED
  BY <1>1, <1>2, TableIsSerial

(* The commit: its plan is the next number, and the one before is retired. *)
LEMMA CommitIsSerial ==
  ASSUME Serial, IInv, SerialInv, NEW r \in Request, NEW p \in PlanId, CreateCommit(r, p)
  PROVE  /\ SerialInv'
         /\ Existing' = Existing \cup {p} /\ p \notin Existing
         /\ Cardinality(Existing') = Cardinality(Existing) + 1
         /\ version'[p] = Cardinality(Existing) + 1 /\ status'[p] = "DRAFT"
         /\ \A q \in Existing :
              /\ version'[q] = version[q]
              /\ status'[q] = IF version[q] = Cardinality(Existing) THEN "SUPERSEDED" ELSE status[q]
<1> DEFINE N == Cardinality(Existing)
           latest == target[r]
<1>1. /\ p \notin Existing /\ LatestRead(latest) /\ demoted[r] = ToRetire(latest)
      /\ latest \in Existing \cup {NoPlan} /\ Finish(r)
  BY DEF CreateCommit, SerialInv, ReadStands, IInv, RequestsKnow
<1>2. /\ \A q \in PlanId : status'[q] = IF q = p THEN "DRAFT"
                                       ELSE IF q = demoted[r] THEN "SUPERSEDED" ELSE status[q]
      /\ version' = [version EXCEPT ![p] = NextVersion(latest)]
  <2>1. p # demoted[r]
    BY <1>1, NoPlanAssumption DEF ToRetire
  <2>2. CommitVersion(p, latest, demoted[r])
    BY DEF CreateCommit
  <2> QED
    BY <2>1, <2>2 DEF CommitVersion
<1>3. N \in Nat
  BY FS_CardinalityType DEF SerialInv, Numbered
<1>4. NextVersion(latest) = N + 1
  <2>1. CASE Existing = {}
    BY <1>1, <2>1, FS_EmptySet DEF LatestRead, NextVersion
  <2>2. CASE Existing # {}
    <3>1. IsLatest(latest) /\ latest # NoPlan
      BY <1>1, <2>2, NoPlanAssumption DEF LatestRead, IsLatest, Existing
    <3> QED
      BY <3>1, NewestCounts DEF SerialInv, NextVersion, IsLatest, Existing
  <2> QED
    BY <2>1, <2>2
<1>5. version'[p] = N + 1 /\ status'[p] = "DRAFT"
      /\ \A q \in PlanId : q # p => version'[q] = version[q]
  BY <1>2, <1>4 DEF IInv, TypeOK
<1>6. ASSUME NEW q \in Existing
      PROVE  status'[q] = IF version[q] = N THEN "SUPERSEDED" ELSE status[q]
  <2>1. IsLatest(latest) /\ version[latest] = N
    BY <1>1, NewestCounts DEF LatestRead, SerialInv, IsLatest, Existing
  <2>2. version[q] = N <=> q = latest
    BY <2>1 DEF IInv, VersionChain, IsLatest
  <2>3. q \in PlanId /\ q # p /\ status'[q] = IF q = demoted[r] THEN "SUPERSEDED" ELSE status[q]
    BY <1>1, <1>2 DEF Existing
  <2>4. CASE q = latest
    BY <1>1, <2>2, <2>3, <2>4 DEF ToRetire
  <2>5. CASE q # latest
    BY <1>1, <2>2, <2>3, <2>5, NoPlanAssumption DEF ToRetire, Existing
  <2> QED
    BY <2>4, <2>5
<1>7. Existing' = Existing \cup {p}
  <2>1. \A q \in PlanId : q # p => (status'[q] = "ABSENT" <=> status[q] = "ABSENT")
    BY <1>1, <1>2, NoPlanAssumption DEF ToRetire, Existing
  <2> QED
    BY <1>1, <1>5, <2>1 DEF Existing
<1>8. IsFiniteSet(Existing') /\ Cardinality(Existing') = N + 1
  BY <1>1, <1>7, FS_AddElement DEF SerialInv, Numbered
<1>9. Numbered'
  <2>1. \A q \in Existing' : version'[q] \in 1 .. N + 1
    BY <1>1, <1>3, <1>5, <1>7 DEF SerialInv, Numbered, Existing
  <2>2. ASSUME NEW v \in 1 .. N + 1 PROVE \E q \in Existing' : version'[q] = v
    <3>1. CASE v = N + 1
      BY <1>5, <1>7, <3>1
    <3>2. CASE v # N + 1
      <4>1. v \in 1 .. N
        BY <1>3, <3>2
      <4>2. PICK q \in Existing : version[q] = v
        BY <4>1 DEF SerialInv, Numbered
      <4> QED
        BY <1>1, <1>5, <1>7, <4>2 DEF Existing
    <3> QED
      BY <3>1, <3>2
  <2> QED
    BY <1>8, <2>1, <2>2 DEF Numbered
<1>10. OnlyNewestAlive'
  <2> SUFFICES ASSUME NEW q \in Existing', status'[q] # "SUPERSEDED" PROVE IsLatest(q)'
    BY DEF OnlyNewestAlive
  <2>1. q = p
    <3> SUFFICES ASSUME q \in Existing PROVE FALSE
      BY <1>7
    <3>1. status[q] # "SUPERSEDED" /\ version[q] # N
      BY <1>6
    <3>2. IsLatest(q) /\ q \in PlanId
      BY <3>1 DEF SerialInv, OnlyNewestAlive, Existing
    <3> QED
      BY <3>1, <3>2, NewestCounts DEF SerialInv
  <2>2. \A s \in Existing' : version'[s] <= version'[p]
    BY <1>3, <1>5, <1>8, <1>9 DEF Numbered
  <2> QED
    BY <2>1, <2>2 DEF IsLatest
<1>11. \A q \in Request : ReadStands(q)'
  BY <1>1 DEF Serial, IInv, TypeOK, Finish, ReadStands
<1> QED
  BY <1>1, <1>5, <1>6, <1>7, <1>8, <1>9, <1>10, <1>11 DEF SerialInv, Existing

(* A request that ends has written nothing. *)
LEMMA GivingUpIsSerial ==
  ASSUME Serial, IInv, SerialInv, NEW r \in Request,
         PublishRejected(r) \/ CreateRolledBack(r) \/ Abandon(r)
  PROVE  SerialInv' /\ UNCHANGED table
<1>1. UNCHANGED table /\ pc'[r] = "idle"
  BY DEF PublishRejected, CreateRolledBack, Abandon, Finish, IInv, TypeOK
<1>2. ReadStands(r)'
  BY <1>1 DEF ReadStands
<1> QED
  BY <1>1, <1>2, TableIsSerial

(* The update of a lone request moves the newest plan along an edge of
   PLAN_TRANSITIONS. *)
LegalUpdate(p, from, to) ==
  /\ p \in Existing /\ IsLatest(p) /\ status[p] \in from
  /\ SetStatus(p, to)
  /\ Existing' = Existing
  /\ UNCHANGED version

LEMMA WriteIsSerial ==
  ASSUME Serial, IInv, SerialInv, NEW r \in Request,
         ApproveWrite(r) \/ PublishDemote(r) \/ PublishWrite(r) \/ SupersedeWrite(r)
  PROVE  /\ SerialInv'
         /\ \/ LegalUpdate(target[r], {"DRAFT"}, "APPROVED")
            \/ LegalUpdate(target[r], {"APPROVED"}, "PUBLISHED")
            \/ LegalUpdate(target[r], {"DRAFT", "APPROVED", "PUBLISHED"}, "SUPERSEDED")
<1>1. ReadStands(r)
  BY DEF SerialInv
<1>2. target[r] \in Existing /\ Finish(r) /\ UNCHANGED version /\ Alive(target[r])
  BY <1>1 DEF ApproveWrite, PublishDemote, PublishWrite, SupersedeWrite, ReadStands, IInv,
     RequestsKnow, Alive
<1>3. IsLatest(target[r])
  BY <1>2 DEF SerialInv, OnlyNewestAlive, Alive
<1>4. \/ SetStatus(target[r], "APPROVED") /\ status[target[r]] = "DRAFT"
      \/ SetStatus(target[r], "PUBLISHED") /\ status[target[r]] = "APPROVED"
      \/ SetStatus(target[r], "SUPERSEDED")
  BY <1>1 DEF ApproveWrite, PublishDemote, PublishWrite, SupersedeWrite, ReadStands
<1>5. ASSUME NEW s \in {"APPROVED", "PUBLISHED", "SUPERSEDED"}, SetStatus(target[r], s)
      PROVE  SerialInv' /\ Existing' = Existing
  BY <1>2, <1>5, UpdateIsSerial DEF PlanStatus
<1> QED
  BY <1>2, <1>3, <1>4, <1>5 DEF LegalUpdate, Alive

(* What a step of a lone request does. *)
LEMMA SerialStep ==
  ASSUME Serial, IInv, SerialInv, [Next]_vars
  PROVE  /\ SerialInv'
         /\ \/ UNCHANGED table
            \/ \E p \in PlanId :
                 \/ LegalUpdate(p, {"DRAFT"}, "APPROVED")
                 \/ LegalUpdate(p, {"APPROVED"}, "PUBLISHED")
                 \/ LegalUpdate(p, {"DRAFT", "APPROVED", "PUBLISHED"}, "SUPERSEDED")
            \/ \E r \in Request, p \in PlanId : CreateCommit(r, p)
<1>1. CASE UNCHANGED vars
  BY <1>1 DEF vars, table, requests, SerialInv, OnlyNewestAlive, Numbered, ReadStands, Alive,
     IsLatest, LatestRead, ToRetire, Existing
<1>2. CASE Next
  <2> PICK r \in Request :
        \/ \E p \in PlanId : \/ ApproveRead(r, p)
                             \/ PublishRead(r, p)
                             \/ SupersedeRead(r, p)
                             \/ CreateCommit(r, p)
        \/ \E latest \in PlanId \cup {NoPlan} : CreateRead(r, latest)
        \/ ApproveWrite(r)
        \/ PublishFindOther(r)
        \/ PublishDemote(r)
        \/ PublishWrite(r)
        \/ PublishRejected(r)
        \/ SupersedeWrite(r)
        \/ CreateRolledBack(r)
        \/ Abandon(r)
    BY <1>2 DEF Next
  <2>1. ASSUME NEW p \in PlanId,
               ApproveRead(r, p) \/ PublishRead(r, p) \/ SupersedeRead(r, p)
        PROVE  SerialInv' /\ UNCHANGED table
    BY <2>1, ReadIsSerial
  <2>2. ASSUME NEW p \in PlanId, CreateCommit(r, p) PROVE SerialInv'
    BY <2>2, CommitIsSerial
  <2>3. ASSUME NEW latest \in PlanId \cup {NoPlan}, CreateRead(r, latest)
        PROVE  SerialInv' /\ UNCHANGED table
    BY <2>3, CreateReadIsSerial
  <2>4. CASE PublishFindOther(r)
    BY <2>4, FindOtherIsSerial
  <2>5. CASE ApproveWrite(r) \/ PublishDemote(r) \/ PublishWrite(r) \/ SupersedeWrite(r)
    BY <2>5, WriteIsSerial DEF LegalUpdate, Existing
  <2>6. CASE PublishRejected(r) \/ CreateRolledBack(r) \/ Abandon(r)
    BY <2>6, GivingUpIsSerial
  <2> QED
    BY <2>6, <2>5, <2>1, <2>2, <2>3, <2>4
<1> QED
  BY <1>1, <1>2

(* ... in particular it keeps the invariant. *)
LEMMA StepIsSerial == ASSUME Serial PROVE IInv /\ SerialInv /\ [Next]_vars => SerialInv'
  BY SerialStep

(* With one request at a time the invariant holds of every behaviour. *)
THEOREM SerialInvariance == ASSUME Serial PROVE Spec => []SerialInv
  BY InitIsSerial, StepIsSerial, Invariance, PTL DEF Spec

(* createPlan and the transaction of a generation retire the version before
   theirs, and nothing revives it: only the newest version can be DRAFT,
   APPROVED or PUBLISHED while requests do not overlap. *)
THEOREM NewestAloneIsAlive == ASSUME Serial PROVE Spec => []OnlyNewestAlive
<1>1. SerialInv => OnlyNewestAlive
  BY DEF SerialInv
<1> QED
  BY <1>1, SerialInvariance, PTL

(* Each of these is an edge of PLAN_TRANSITIONS, the retirement of the
   previous version among them. *)
LEMMA SerialStepIsLegal ==
  ASSUME Serial
  PROVE  IInv /\ SerialInv /\ [Next]_vars =>
           \A p \in Existing : status'[p] # status[p] => status'[p] \in PLAN_TRANSITIONS[status[p]]
<1> SUFFICES ASSUME IInv, SerialInv, [Next]_vars, NEW p \in Existing, status'[p] # status[p]
             PROVE  status'[p] \in PLAN_TRANSITIONS[status[p]]
  OBVIOUS
<1>1. status \in [PlanId -> PlanStatus \cup {"ABSENT"}] /\ p \in PlanId /\ status[p] \in PlanStatus
  BY DEF IInv, TypeOK, Existing
<1>2. ASSUME NEW q \in PlanId, NEW from, NEW to, LegalUpdate(q, from, to)
      PROVE  status[p] \in from /\ status'[p] = to
  BY <1>1, <1>2 DEF LegalUpdate, SetStatus
<1>3. ASSUME NEW r \in Request, NEW q \in PlanId, CreateCommit(r, q)
      PROVE  status'[p] = "SUPERSEDED" /\ status[p] # "SUPERSEDED"
  BY <1>3, CommitIsSerial
<1>4. ~ UNCHANGED table
  BY DEF table
<1>5. \/ status[p] = "DRAFT" /\ status'[p] = "APPROVED"
      \/ status[p] = "APPROVED" /\ status'[p] = "PUBLISHED"
      \/ status[p] \in {"DRAFT", "APPROVED", "PUBLISHED"} /\ status'[p] = "SUPERSEDED"
  BY <1>1, <1>2, <1>3, <1>4, SerialStep DEF PlanStatus
<1> QED
  BY <1>5 DEF PLAN_TRANSITIONS

(* ... and every change of a plan's status is one PLAN_TRANSITIONS allows,
   although the updates are by id and check nothing. *)
THEOREM TransitionsAreLegal == ASSUME Serial PROVE Spec => LegalTransitions
  BY SerialStepIsLegal, SerialInvariance, Invariance, PTL DEF Spec, LegalTransitions

-----------------------------------------------------------------------------
(* The list of statuses. *)
(* The plan that is version v. *)
At(v) == CHOOSE p \in Existing : version[p] = v

(* What Numbered makes of the list of statuses. *)
Counted ==
  /\ Cardinality(Existing) \in Nat
  /\ \A v \in 1 .. Cardinality(Existing) : At(v) \in Existing /\ version[At(v)] = v
  /\ \A p \in Existing, v \in Nat : version[p] = v => At(v) = p
  /\ Versions = [v \in 1 .. Cardinality(Existing) |-> status[At(v)]]

(* At is a bijection between the numbers and the plans. *)
LEMMA VersionsCount == IInv /\ Numbered => Counted
<1> SUFFICES ASSUME IInv, Numbered PROVE Counted
  OBVIOUS
<1>1. Cardinality(Existing) \in Nat
  BY FS_CardinalityType DEF Numbered
<1>2. \A v \in 1 .. Cardinality(Existing) : At(v) \in Existing /\ version[At(v)] = v
  BY DEF Numbered, At
<1>3. \A p \in Existing, v \in Nat : version[p] = v => At(v) = p
  <2> SUFFICES ASSUME NEW p \in Existing, NEW v \in Nat, version[p] = v PROVE At(v) = p
    OBVIOUS
  <2>1. At(v) \in Existing /\ version[At(v)] = v
    BY DEF At
  <2> QED
    BY <2>1 DEF IInv, VersionChain
<1>4. Versions = [v \in 1 .. Cardinality(Existing) |-> status[At(v)]]
  BY DEF Versions, At
<1> QED
  BY <1>1, <1>2, <1>3, <1>4 DEF Counted

(* An update of the newest plan is a move of the last status of the list. *)
LEMMA UpdateMovesNewest ==
  ASSUME IInv, IInv', Numbered, Numbered', NEW p \in PlanId, NEW from, NEW to, to # "ABSENT",
         LegalUpdate(p, from, to)
  PROVE  Lifecycle!MoveNewest(from, to)
<1> DEFINE N == Cardinality(Existing)
<1>0. Counted /\ Counted'
  BY VersionsCount, PTL
<1>1. N \in Nat /\ version[p] = N /\ N \in 1 .. N /\ At(N) = p
  BY <1>0, NewestCounts DEF Counted, LegalUpdate, Numbered
<1>2. /\ Versions = [v \in 1 .. N |-> status[At(v)]]
      /\ Versions' = [v \in 1 .. N |-> status'[At(v)']]
  BY <1>0 DEF Counted, LegalUpdate
<1>3. \A v \in 1 .. N : At(v)' = At(v)
  BY DEF At, LegalUpdate
<1>4. \A v \in 1 .. N : v # N => At(v) # p
  BY <1>0, <1>1 DEF Counted
<1>5. status' = [status EXCEPT ![p] = to] /\ status \in [PlanId -> PlanStatus \cup {"ABSENT"}]
      /\ status[p] \in from
  BY DEF LegalUpdate, SetStatus, IInv, TypeOK
<1>6. \A v \in 1 .. N : At(v) \in PlanId
  BY <1>0 DEF Counted, Existing
<1>7. Len(Versions) = N /\ Versions # << >>
  BY <1>1, <1>2
<1>8. Versions[N] \in from
  BY <1>1, <1>2, <1>5
<1>9. Versions' = [Versions EXCEPT ![N] = to]
  BY <1>1, <1>2, <1>3, <1>4, <1>5, <1>6
<1> QED
  BY <1>7, <1>8, <1>9 DEF Lifecycle!MoveNewest

(* A commit appends DRAFT to the list and retires the last. *)
LEMMA CommitIsNewVersion ==
  ASSUME Serial, IInv, IInv', SerialInv, SerialInv', NEW r \in Request, NEW p \in PlanId,
         CreateCommit(r, p)
  PROVE  Lifecycle!NewVersion
<1> DEFINE N == Cardinality(Existing)
           Retired == [v \in 1 .. N |-> IF v = N THEN "SUPERSEDED" ELSE Versions[v]]
<1>1. /\ Existing' = Existing \cup {p} /\ p \notin Existing
      /\ Cardinality(Existing') = N + 1
      /\ version'[p] = N + 1 /\ status'[p] = "DRAFT"
      /\ \A q \in Existing :
           /\ version'[q] = version[q]
           /\ status'[q] = IF version[q] = N THEN "SUPERSEDED" ELSE status[q]
  BY CommitIsSerial
<1>0. Counted /\ Counted'
  BY VersionsCount, PTL DEF SerialInv
<1>2. N \in Nat /\ Versions = [v \in 1 .. N |-> status[At(v)]]
      /\ \A v \in 1 .. N : At(v) \in Existing /\ version[At(v)] = v
  BY <1>0 DEF Counted
<1>3. /\ Versions' = [v \in 1 .. N + 1 |-> status'[At(v)']]
      /\ \A q \in Existing', v \in Nat : version'[q] = v => At(v)' = q
  BY <1>0, <1>1 DEF Counted
<1>4. Len(Versions) = N
  BY <1>2
<1>5. \A v \in 1 .. N + 1 : At(v)' = IF v = N + 1 THEN p ELSE At(v)
  BY <1>1, <1>2, <1>3
<1>6. Versions'[N + 1] = "DRAFT"
  BY <1>1, <1>2, <1>3, <1>5
<1>7. ASSUME NEW v \in 1 .. N PROVE Versions'[v] = Retired[v]
  BY <1>1, <1>2, <1>3, <1>5
<1>8. Append(Retired, "DRAFT") = [v \in 1 .. N + 1 |-> IF v = N + 1 THEN "DRAFT" ELSE Retired[v]]
  <2>1. Retired \in Seq({"SUPERSEDED"} \cup {Versions[v] : v \in 1 .. N}) /\ Len(Retired) = N
    BY <1>2
  <2> QED
    BY <1>2, <2>1
<1>9. Versions' = Append(Retired, "DRAFT")
  <2>1. \A v \in 1 .. N + 1 : Versions'[v] = IF v = N + 1 THEN "DRAFT" ELSE Retired[v]
    BY <1>2, <1>6, <1>7
  <2>2. Versions' = [v \in 1 .. N + 1 |-> Versions'[v]]
    BY <1>3
  <2> HIDE DEF Retired
  <2> QED
    BY <1>8, <2>1, <2>2
<1> QED
  BY <1>4, <1>9 DEF Lifecycle!NewVersion

(* No plans: the empty list. *)
LEMMA InitIsEmpty == Init => Lifecycle!Init
<1> SUFFICES ASSUME Init PROVE Versions = << >>
  BY DEF Lifecycle!Init
<1>1. Existing = {} /\ Cardinality(Existing) = 0
  <2>1. Existing = {}
    BY DEF Init, Existing
  <2> QED
    BY <2>1, FS_EmptySet
<1> QED
  BY <1>1 DEF Versions

(* A step of a lone request is a step of PlanLifecycle or leaves the list alone. *)
LEMMA SerialStepRefines ==
  ASSUME Serial
  PROVE  IInv /\ SerialInv /\ IInv' /\ SerialInv' /\ [Next]_vars => [Lifecycle!Next]_Versions
<1> SUFFICES ASSUME IInv, SerialInv, IInv', SerialInv', [Next]_vars
             PROVE  Lifecycle!Next \/ UNCHANGED Versions
  OBVIOUS
<1>1. CASE UNCHANGED table
  BY <1>1 DEF table, Versions, Existing
<1>2. ASSUME NEW p \in PlanId,
             \/ LegalUpdate(p, {"DRAFT"}, "APPROVED")
             \/ LegalUpdate(p, {"APPROVED"}, "PUBLISHED")
             \/ LegalUpdate(p, {"DRAFT", "APPROVED", "PUBLISHED"}, "SUPERSEDED")
      PROVE  Lifecycle!Next
  BY <1>2, UpdateMovesNewest DEF SerialInv, Lifecycle!Next
<1>3. ASSUME NEW r \in Request, NEW p \in PlanId, CreateCommit(r, p)
      PROVE  Lifecycle!Next
  BY <1>3, CommitIsNewVersion DEF Lifecycle!Next
<1> QED
  BY <1>1, <1>2, <1>3, SerialStep

(* The refinement: a lone request takes the plans through the steps of the
   abstract list of versions and no other, whether it is carried through,
   rejected or abandoned. *)
THEOREM SerialPlansImplementLifecycle == ASSUME Serial PROVE Spec => ImplementsLifecycle
  BY InitIsEmpty, SerialStepRefines, SerialInvariance, Invariance, PTL
     DEF Spec, ImplementsLifecycle, Lifecycle!Spec
=============================================================================
