------------------------------ MODULE DomainPool ------------------------------
(***************************************************************************)
(* runGeneration (src/src/phase4/generation.service.ts) from dispatch to   *)
(* persistence: the domains of a valid partition are sent to the solver by *)
(* a bounded pool of workers (workerPool.ts), every answer is checked      *)
(* again (validateMerge.ts), and the merge gate decides whether anything   *)
(* is persisted.  The solver's answers are not trusted: they arrive in any *)
(* order, or not at all, with any content.                                 *)
(*                                                                         *)
(* Node runs one callback at a time, so a step is what a worker does       *)
(* between two awaits.                                                     *)
(***************************************************************************)
EXTENDS Naturals, Sequences, FiniteSets, SequencesExt

CONSTANTS
  NDomains,       \* domains of the partition, in its order
  MaxParallel,    \* maxParallelDomains
  CandidatesOf,   \* domain -> the candidates allocated to it
  SeatsOf,        \* domain -> the active seats of its halls
  HallOf,         \* seat -> its hall, for every seat of the session
  Answers         \* what the solver may send back for a domain

Domain == 1 .. NDomains

Session == UNION {CandidatesOf[d] : d \in Domain}

(* partitionCandidates returned no blocked domain: every seat is in exactly
   one domain, and so is every candidate and every hall. *)
ASSUME PartitionAssumption ==
  /\ NDomains \in Nat /\ MaxParallel \in Nat
  /\ DOMAIN HallOf = UNION {SeatsOf[d] : d \in Domain}
  /\ \A d, e \in Domain : d # e =>
       /\ CandidatesOf[d] \cap CandidatesOf[e] = {}
       /\ \A s \in SeatsOf[d], t \in SeatsOf[e] : HallOf[s] # HallOf[t]

(* solveDomain parses the answer: "assignments" is an array, and "code" is
   errorCode, whatever string the solver chose, "none" for null. *)
ASSUME AnswersAssumption ==
  \A a \in Answers : a.assignments \in Seq(ToSet(a.assignments))

Worker == 1 .. (IF MaxParallel < 1 THEN 1 ELSE MaxParallel)

NoAnswer ==
  [status |-> "NONE", assignments |-> << >>, consistent |-> FALSE, code |-> "none"]

VARIABLES
  cursor,   \* the next domain a worker claims
  hand,     \* worker -> the domain whose answer it awaits, 0 for none
  state,    \* domain -> DomainRunRecord.state
  answer,   \* domain -> DomainRunRecord.result
  phase,    \* GenerationState
  error,    \* code of GenerationResult.error, "none" for null
  seating   \* what was handed to persist

vars == <<cursor, hand, state, answer, phase, error, seating>>

Failed == {"FAILED_TIMEOUT", "FAILED_RESOURCE", "FAILED_WORKER", "FAILED_VALIDATION"}

Init ==
  /\ cursor = 1
  /\ hand = [w \in Worker |-> 0]
  /\ state = [d \in Domain |-> "PENDING"]
  /\ answer = [d \in Domain |-> NoAnswer]
  /\ phase = "SOLVING"
  /\ error = "none"
  /\ seating = << >>

-----------------------------------------------------------------------------
(* The pool.                                                               *)

(* Mutant: the claim does not advance the cursor. *)
ClaimWithoutAdvancing(w) ==
  /\ phase = "SOLVING"
  /\ hand[w] = 0
  /\ cursor <= NDomains
  /\ hand' = [hand EXCEPT ![w] = cursor]
  /\ state' = [state EXCEPT ![cursor] = "SOLVING"]
  /\ UNCHANGED <<cursor, answer, phase, error, seating>>

(* Mutant: the last domain is never claimed. *)
ClaimAllButLast(w) ==
  /\ phase = "SOLVING"
  /\ hand[w] = 0
  /\ cursor < NDomains
  /\ hand' = [hand EXCEPT ![w] = cursor]
  /\ state' = [state EXCEPT ![cursor] = "SOLVING"]
  /\ cursor' = cursor + 1
  /\ UNCHANGED <<answer, phase, error, seating>>

(* A worker claims the next domain and dispatches it: VALIDATING,
   DISPATCHED and SOLVING are set before the first await. *)
Claim(w) ==
  /\ phase = "SOLVING"
  /\ hand[w] = 0
  /\ cursor <= NDomains
  /\ hand' = [hand EXCEPT ![w] = cursor]
  /\ state' = [state EXCEPT ![cursor] = "SOLVING"]
  /\ cursor' = cursor + 1
  /\ UNCHANGED <<answer, phase, error, seating>>

(* solveDomain resolves with some answer. *)
Answered(w, a) ==
  /\ hand[w] # 0
  /\ answer' = [answer EXCEPT ![hand[w]] = a]
  /\ state' = [state EXCEPT ![hand[w]] = "VALIDATING_RESULT"]
  /\ hand' = [hand EXCEPT ![w] = 0]
  /\ UNCHANGED <<cursor, phase, error, seating>>

(* solveDomain throws: timeout, no connection, or anything else. *)
TransportFails(w) ==
  /\ hand[w] # 0
  /\ \E f \in {"FAILED_TIMEOUT", "FAILED_RESOURCE", "FAILED_WORKER"} :
       state' = [state EXCEPT ![hand[w]] = f]
  /\ hand' = [hand EXCEPT ![w] = 0]
  /\ UNCHANGED <<cursor, answer, phase, error, seating>>

(* Mutant: the workers are not awaited. *)
PoolClaimedAll == cursor > NDomains

(* Promise.all(workers): every worker found the cursor past the end. *)
PoolDrained == cursor > NDomains /\ \A w \in Worker : hand[w] = 0

-----------------------------------------------------------------------------
(* Checking the answers.                                                   *)

CandidateIds(as) == [i \in DOMAIN as |-> as[i].candidate]
SeatIds(as) == [i \in DOMAIN as |-> as[i].seat]

(* findDuplicates(...).length === 0 *)
NoDuplicates(ids) == IsInjective(ids)

(* validateDomainResult(plan, result).valid.  "consistent" stands for the
   checks on the numbers the solver reports about itself: assignedCount,
   unassignedCount and the objective. *)
DomainResultValid(d, a) ==
  /\ a.status \in {"OPTIMAL", "FEASIBLE"}
  /\ a.consistent
  /\ NoDuplicates(CandidateIds(a.assignments))
  /\ NoDuplicates(SeatIds(a.assignments))
  /\ ToSet(SeatIds(a.assignments)) \subseteq SeatsOf[d]
  /\ CandidatesOf[d] \subseteq ToSet(CandidateIds(a.assignments))

(* What the collect loop makes of domain d: its new state and the error it
   would raise.  An ERROR answer is reported under the solver's own code. *)
Settled(d) ==
  IF state[d] \in Failed
  THEN [state |-> state[d], code |-> "ERR_DOMAIN_FAILED"]
  ELSE IF answer[d].status = "INFEASIBLE"
  THEN [state |-> "FAILED_VALIDATION", code |-> "ERR_DOMAIN_INFEASIBLE"]
  ELSE IF answer[d].status = "ERROR"
  THEN [state |-> "FAILED_WORKER", code |-> IF answer[d].code = "none" THEN "ERR_DOMAIN_SOLVER_ERROR" ELSE answer[d].code]
  ELSE IF ~DomainResultValid(d, answer[d])
  THEN [state |-> "FAILED_VALIDATION", code |-> "ERR_DOMAIN_VALIDATION"]
  ELSE [state |-> "COMPLETED", code |-> "none"]

(* Mutant: "=" for "??=": the last failure is the generation's. *)
CollectLastFailure ==
  /\ phase = "SOLVING"
  /\ PoolDrained
  /\ state' = [d \in Domain |-> Settled(d).state]
  /\ LET bad == {d \in Domain : Settled(d).code # "none"} IN
     IF bad = {}
     THEN phase' = "MERGING" /\ UNCHANGED error
     ELSE /\ phase' = "FAILED_DOMAIN"
          /\ error' = Settled(CHOOSE d \in bad : \A e \in bad : e <= d).code
  /\ UNCHANGED <<cursor, hand, answer, seating>>

(* The collect loop: all domains are settled, and the failure of the first
   one in partition order is the generation's. *)
Collect ==
  /\ phase = "SOLVING"
  /\ PoolDrained
  /\ state' = [d \in Domain |-> Settled(d).state]
  /\ LET bad == {d \in Domain : Settled(d).code # "none"} IN
     IF bad = {}
     THEN phase' = "MERGING" /\ UNCHANGED error
     ELSE /\ phase' = "FAILED_DOMAIN"
          /\ error' = Settled(CHOOSE d \in bad : \A e \in bad : d <= e).code
  /\ UNCHANGED <<cursor, hand, answer, seating>>

(* All assignments, in the order validateMerge and collectAssignments list
   them. *)
Merged == FlattenSeq([d \in Domain |-> answer[d].assignments])

(* No seat is foreign: the session's halls have it, under the hall the
   answer names, and that hall is one of the answering domain. *)
SeatsAreOwn ==
  \A d \in Domain : \A i \in DOMAIN answer[d].assignments :
    LET x == answer[d].assignments[i] IN
    /\ x.seat \in DOMAIN HallOf
    /\ x.hall = HallOf[x.seat]
    /\ \E s \in SeatsOf[d] : HallOf[s] = x.hall

(* Mutant: the merge gate does not count. *)
MergeValidUncounted ==
  /\ NoDuplicates(CandidateIds(Merged))
  /\ NoDuplicates(SeatIds(Merged))
  /\ SeatsAreOwn
  /\ Session \subseteq ToSet(CandidateIds(Merged))

(* validateMerge(...).valid.  Its checks on domains that share a hall or an
   id cannot fail after the partition's own. *)
MergeValid ==
  /\ Len(Merged) = Cardinality(Session)
  /\ NoDuplicates(CandidateIds(Merged))
  /\ NoDuplicates(SeatIds(Merged))
  /\ SeatsAreOwn
  /\ Session \subseteq ToSet(CandidateIds(Merged))

Merge ==
  /\ phase = "MERGING"
  /\ phase' = IF MergeValid THEN "FINAL_VALIDATION" ELSE "FAILED_MERGE"
  /\ UNCHANGED <<cursor, hand, state, answer, error, seating>>

(* allCompleted, then persist: collectAssignments takes the COMPLETED
   domains. *)
Persist ==
  /\ phase = "FINAL_VALIDATION"
  /\ IF \A d \in Domain : state[d] = "COMPLETED"
     THEN /\ phase' = "COMPLETED"
          /\ seating' = Merged
          /\ UNCHANGED error
     ELSE /\ phase' = "FAILED_VALIDATION"
          /\ error' = "ERR_GENERATION_INCOMPLETE"
          /\ UNCHANGED seating
  /\ UNCHANGED <<cursor, hand, state, answer>>

SolverReplies(w) == TransportFails(w) \/ \E a \in Answers : Answered(w, a)

Next ==
  \/ \E w \in Worker : Claim(w) \/ SolverReplies(w)
  \/ Collect
  \/ Merge
  \/ Persist

(* The event loop resumes whatever is ready, and every solver call ends:
   solveDomain aborts it after the time limit plus a buffer. *)
Fairness ==
  /\ \A w \in Worker : WF_vars(Claim(w)) /\ WF_vars(SolverReplies(w))
  /\ WF_vars(Collect) /\ WF_vars(Merge) /\ WF_vars(Persist)

Spec == Init /\ [][Next]_vars /\ Fairness

-----------------------------------------------------------------------------
Over == {"COMPLETED", "FAILED_DOMAIN", "FAILED_MERGE", "FAILED_VALIDATION"}

(* The pool never has more calls open than maxParallelDomains allows, never
   sends a domain twice, and forgets none: a domain is in exactly one of the
   places the cursor, the workers' hands and the records say. *)
PoolBookkeeping ==
  /\ \A w, v \in Worker : hand[w] = hand[v] /\ hand[w] # 0 => w = v
  /\ \A d \in Domain :
       /\ state[d] = "PENDING" <=> d >= cursor
       /\ state[d] = "SOLVING" <=> \E w \in Worker : hand[w] = d

(* A verdict is about all the domains: once collecting has begun, none is
   still with the solver or unsent. *)
VerdictCoversAllDomains ==
  phase # "SOLVING" =>
    \A d \in Domain : state[d] \in {"COMPLETED"} \cup Failed

(* The solver calls the domain infeasible: by the status of its answer, or
   by the errorCode of an answer whose status is ERROR, which is taken over
   as it stands. *)
SaysInfeasible(a) ==
  \/ a.status = "INFEASIBLE"
  \/ a.status = "ERROR" /\ a.code = "ERR_DOMAIN_INFEASIBLE"

(* The job becomes INFEASIBLE only when the solver itself said so of a
   domain, in one of those two ways, and all domains before it in partition
   order were solved: never for a call that failed or timed out, an answer
   that did not check, or a domain behind another failure. *)
InfeasibleIsTheFirstFailure ==
  error = "ERR_DOMAIN_INFEASIBLE" =>
    \E d \in Domain :
      /\ SaysInfeasible(answer[d])
      /\ \A e \in 1 .. d - 1 : state[e] = "COMPLETED"

(* The verdict and the seating a generation hands on. *)
Verdict ==
  IF phase = "COMPLETED" THEN "seated" ELSE IF phase \in Over THEN "refused" ELSE "open"

Seating ==
  {[candidate |-> x.candidate, place |-> <<x.hall, x.seat>>] : x \in ToSet(seating)}

(* The seats of the candidate's domain, each in its own hall. *)
PlacesFor(c) ==
  {<<HallOf[s], s>> :
     s \in UNION {SeatsOf[d] : d \in {e \in Domain : c \in CandidatesOf[e]}}}

Promise ==
  INSTANCE SessionSeating WITH
    Candidates <- Session, AllowedPlaces <- PlacesFor,
    verdict <- Verdict, seating <- Seating

(* All or nothing, whatever the solver answers and in whatever order: the
   seating handed to persistence is complete, gives each candidate one seat
   of its own domain, under the seat's own hall, and no seat twice; every
   other run hands on nothing. *)
SeatsAllOrNothing == Promise!AllOrNothing

(* Every generation comes to a verdict, since every solver call ends and the
   workers empty the list of domains. *)
ComesToAVerdict == Promise!ComesToAVerdict
=============================================================================
