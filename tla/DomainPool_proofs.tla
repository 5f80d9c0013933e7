--------------------------- MODULE DomainPool_proofs ---------------------------
(***************************************************************************)
(* However many domains, workers and answers there are: the pool loses and *)
(* repeats no domain, no verdict is reached before every domain is         *)
(* settled, and what is handed to persistence is a complete seating or     *)
(* nothing.  The inductive invariant PoolInv says what each phase has      *)
(* established; the seating follows by counting, from the merge gate, and  *)
(* from what FlattenSeq lists.                                             *)
(***************************************************************************)
EXTENDS DomainPool, SequenceTheorems, FiniteSetTheorems, WellFoundedInduction, TLAPS

State == {"PENDING", "SOLVING", "VALIDATING_RESULT", "COMPLETED"} \cup Failed

PoolTypes ==
  /\ cursor \in 1 .. NDomains + 1
  /\ hand \in [Worker -> 0 .. NDomains]
  /\ state \in [Domain -> State]
  /\ answer \in [Domain -> Answers \cup {NoAnswer}]
  /\ phase \in {"SOLVING", "MERGING", "FINAL_VALIDATION"} \cup Over

(* What each phase has established. *)
PhasesKnow ==
  /\ phase = "SOLVING" => error = "none"
  /\ phase # "SOLVING" => cursor > NDomains /\ \A w \in Worker : hand[w] = 0
  /\ phase \in {"MERGING", "FINAL_VALIDATION"} =>
       \A d \in Domain : state[d] = "COMPLETED" /\ DomainResultValid(d, answer[d])
  /\ phase = "FINAL_VALIDATION" => MergeValid
  /\ phase # "COMPLETED" => seating = << >>

PoolInv ==
  /\ PoolTypes
  /\ PoolBookkeeping
  /\ VerdictCoversAllDomains
  /\ InfeasibleIsTheFirstFailure
  /\ PhasesKnow

(* The domains the collect loop finds bad, and the first of them. *)
LEMMA LeastDomain ==
  ASSUME NEW T \in SUBSET Domain, T # {}
  PROVE  LET m == CHOOSE d \in T : \A e \in T : d <= e
         IN  m \in T /\ \A e \in T : m <= e
<1>1. T \in SUBSET Nat
  BY PartitionAssumption DEF Domain
<1>2. PICK n \in T : \A m \in T : ~(<<m, n>> \in OpToRel(<, Nat))
  BY <1>1, NatLessThanWellFounded, WFMin
<1>3. \A m \in T : ~(m < n)
  BY <1>1, <1>2 DEF OpToRel
<1>4. \A m \in T : n <= m
  BY <1>1, <1>3
<1> QED
  BY <1>4

(* Nothing is sent, nothing is known. *)
LEMMA InitPool == Init => PoolInv
<1> SUFFICES ASSUME Init PROVE PoolInv
  OBVIOUS
<1>1. PoolTypes
  BY PartitionAssumption DEF Init, PoolTypes, State, Over
<1>2. PoolBookkeeping
  BY PartitionAssumption DEF Init, PoolBookkeeping, Domain
<1>3. VerdictCoversAllDomains /\ InfeasibleIsTheFirstFailure /\ PhasesKnow
  BY DEF Init, VerdictCoversAllDomains, InfeasibleIsTheFirstFailure, PhasesKnow
<1> QED
  BY <1>1, <1>2, <1>3 DEF PoolInv

(* The claimed domain was PENDING and nobody else's: the cursor moves past it
   in the same step. *)
LEMMA ClaimKeeps == ASSUME PoolInv, NEW w \in Worker, Claim(w) PROVE PoolInv'
<1> DEFINE c == cursor
<1>1. /\ phase = "SOLVING" /\ hand[w] = 0 /\ c \in Domain
      /\ hand' = [hand EXCEPT ![w] = c] /\ state' = [state EXCEPT ![c] = "SOLVING"]
      /\ cursor' = c + 1 /\ UNCHANGED <<answer, phase, error, seating>>
  BY PartitionAssumption DEF Claim, PoolInv, PoolTypes, Domain
<1>2. PoolTypes'
  BY <1>1, PartitionAssumption DEF PoolInv, PoolTypes, State, Domain
<1>3. PoolBookkeeping'
  <2>1. \A v \in Worker : hand[v] # c
    BY <1>1, PartitionAssumption DEF PoolInv, PoolTypes, PoolBookkeeping, Domain
  <2>2. /\ hand'[w] = c /\ \A v \in Worker : v # w => hand'[v] = hand[v]
        /\ state'[c] = "SOLVING" /\ \A d \in Domain : d # c => state'[d] = state[d]
    BY <1>1 DEF PoolInv, PoolTypes
  <2>3. \A u, v \in Worker : hand'[u] = hand'[v] /\ hand'[u] # 0 => u = v
    BY <2>1, <2>2 DEF PoolInv, PoolBookkeeping
  <2>4. ASSUME NEW d \in Domain
        PROVE  /\ state'[d] = "PENDING" <=> d >= cursor'
               /\ state'[d] = "SOLVING" <=> \E v \in Worker : hand'[v] = d
    <3>1. CASE d = c
      BY <1>1, <2>2, <3>1, PartitionAssumption DEF Domain
    <3>2. CASE d # c
      <4>1. state'[d] = "PENDING" <=> d >= cursor'
        BY <1>1, <2>2, <3>2, PartitionAssumption DEF PoolInv, PoolBookkeeping, Domain
      <4>2. state'[d] = "SOLVING" <=> \E v \in Worker : hand'[v] = d
        BY <1>1, <2>2, <3>2, PartitionAssumption DEF PoolInv, PoolBookkeeping, Domain
      <4> QED
        BY <4>1, <4>2
    <3> QED
      BY <3>1, <3>2
  <2> QED
    BY <2>3, <2>4 DEF PoolBookkeeping
<1>4. VerdictCoversAllDomains' /\ InfeasibleIsTheFirstFailure' /\ PhasesKnow'
  BY <1>1 DEF PoolInv, VerdictCoversAllDomains, InfeasibleIsTheFirstFailure, PhasesKnow
<1> QED
  BY <1>2, <1>3, <1>4 DEF PoolInv

(* An answer, or the lack of one, frees the worker. *)
LEMMA AnswerKeeps ==
  ASSUME PoolInv, NEW w \in Worker, NEW s \in State \ {"PENDING", "SOLVING"},
         hand[w] # 0, state' = [state EXCEPT ![hand[w]] = s],
         hand' = [hand EXCEPT ![w] = 0],
         answer' \in [Domain -> Answers \cup {NoAnswer}],
         UNCHANGED <<cursor, phase, error, seating>>
  PROVE  PoolInv'
<1> DEFINE c == hand[w]
<1>1. c \in Domain /\ phase = "SOLVING"
  BY PartitionAssumption DEF PoolInv, PoolTypes, PhasesKnow, Domain
<1>2. PoolTypes'
  <2>1. /\ cursor \in 1 .. NDomains + 1 /\ hand \in [Worker -> 0 .. NDomains]
        /\ state \in [Domain -> State]
        /\ phase \in {"SOLVING", "MERGING", "FINAL_VALIDATION"} \cup Over
    BY DEF PoolInv, PoolTypes
  <2>2. 0 \in 0 .. NDomains
    BY PartitionAssumption
  <2>3. hand' \in [Worker -> 0 .. NDomains] /\ state' \in [Domain -> State]
    BY <2>1, <2>2
  <2> QED
    BY <2>1, <2>3 DEF PoolTypes
<1>3. PoolBookkeeping'
  <2>2. /\ hand'[w] = 0 /\ \A v \in Worker : v # w => hand'[v] = hand[v]
        /\ state'[c] = s /\ \A d \in Domain : d # c => state'[d] = state[d]
    BY <1>1 DEF PoolInv, PoolTypes
  <2>3. \A u, v \in Worker : hand'[u] = hand'[v] /\ hand'[u] # 0 => u = v
    BY <2>2 DEF PoolInv, PoolBookkeeping
  <2>4. ASSUME NEW d \in Domain
        PROVE  /\ state'[d] = "PENDING" <=> d >= cursor'
               /\ state'[d] = "SOLVING" <=> \E v \in Worker : hand'[v] = d
    <3>1. CASE d = c
      <4>1. state[c] = "SOLVING"
        BY <1>1 DEF PoolInv, PoolBookkeeping
      <4>2. ~(c >= cursor)
        BY <1>1, <4>1 DEF PoolInv, PoolBookkeeping
      <4>3. \A v \in Worker : hand'[v] # c
        BY <1>1, <2>2, PartitionAssumption DEF PoolInv, PoolBookkeeping, Domain
      <4> QED
        BY <2>2, <3>1, <4>2, <4>3
    <3>2. CASE d # c
      <4>0. d # 0
        BY PartitionAssumption DEF Domain
      <4>1. state'[d] = "PENDING" <=> d >= cursor'
        BY <2>2, <3>2 DEF PoolInv, PoolBookkeeping
      <4>2. state'[d] = "SOLVING" <=> \E v \in Worker : hand'[v] = d
        BY <2>2, <3>2, <4>0 DEF PoolInv, PoolBookkeeping
      <4> QED
        BY <4>1, <4>2
    <3> QED
      BY <3>1, <3>2
  <2> QED
    BY <2>3, <2>4 DEF PoolBookkeeping
<1>4. VerdictCoversAllDomains' /\ InfeasibleIsTheFirstFailure' /\ PhasesKnow'
  BY <1>1 DEF PoolInv, VerdictCoversAllDomains, InfeasibleIsTheFirstFailure, PhasesKnow
<1> QED
  BY <1>2, <1>3, <1>4 DEF PoolInv

(* Whatever the solver sends, or throws. *)
LEMMA RepliesKeep == ASSUME PoolInv, NEW w \in Worker, SolverReplies(w) PROVE PoolInv'
<1>1. CASE TransportFails(w)
  <2>1. answer' \in [Domain -> Answers \cup {NoAnswer}]
    BY <1>1 DEF TransportFails, PoolInv, PoolTypes
  <2> QED
    BY <1>1, <2>1, AnswerKeeps DEF TransportFails, State, Failed
<1>2. ASSUME NEW a \in Answers, Answered(w, a) PROVE PoolInv'
  <2>1. answer' \in [Domain -> Answers \cup {NoAnswer}]
    BY <1>2 DEF Answered, PoolInv, PoolTypes
  <2> QED
    BY <1>2, <2>1, AnswerKeeps DEF Answered, State, Failed
<1> QED
  BY <1>1, <1>2 DEF SolverReplies

(* The collect loop's record of one domain. *)
LEMMA Settling ==
  ASSUME NEW d \in Domain
  PROVE  /\ Settled(d).state \in {"COMPLETED"} \cup Failed
         /\ Settled(d).code = "none" =>
              Settled(d).state = "COMPLETED" /\ DomainResultValid(d, answer[d])
         /\ Settled(d).code = "ERR_DOMAIN_INFEASIBLE" => SaysInfeasible(answer[d])
  BY DEF Settled, Failed, SaysInfeasible

(* Collecting settles every domain, and names the first that is bad. *)
LEMMA CollectKeeps == ASSUME PoolInv, Collect PROVE PoolInv'
<1> DEFINE bad == {d \in Domain : Settled(d).code # "none"}
           first == CHOOSE d \in bad : \A e \in bad : d <= e
<1>1. /\ phase = "SOLVING" /\ cursor > NDomains /\ \A w \in Worker : hand[w] = 0
      /\ state' = [d \in Domain |-> Settled(d).state]
      /\ UNCHANGED <<cursor, hand, answer, seating>>
      /\ bad = {} => phase' = "MERGING" /\ UNCHANGED error
      /\ bad # {} => phase' = "FAILED_DOMAIN" /\ error' = Settled(first).code
  BY DEF Collect, PoolDrained
<1>2. \A d \in Domain : /\ state'[d] = Settled(d).state
                        /\ state'[d] \in {"COMPLETED"} \cup Failed
  BY <1>1, Settling
<1>3. PoolTypes'
  BY <1>1, <1>2 DEF PoolInv, PoolTypes, State, Over
<1>4. PoolBookkeeping'
  <2>1. \A d \in Domain : ~(d >= cursor) /\ d # 0
    BY <1>1, PartitionAssumption DEF Domain, PoolInv, PoolTypes
  <2>2. \A d \in Domain : state'[d] # "PENDING" /\ state'[d] # "SOLVING"
    BY <1>2 DEF Failed
  <2> QED
    BY <1>1, <2>1, <2>2 DEF PoolBookkeeping
<1>5. VerdictCoversAllDomains'
  BY <1>2 DEF VerdictCoversAllDomains
<1>6. bad # {} => first \in bad /\ \A e \in bad : first <= e
  BY LeastDomain
<1>7. InfeasibleIsTheFirstFailure'
  <2> SUFFICES ASSUME error' = "ERR_DOMAIN_INFEASIBLE"
               PROVE  \E d \in Domain : /\ SaysInfeasible(answer'[d])
                                        /\ \A e \in 1 .. d - 1 : state'[e] = "COMPLETED"
    BY DEF InfeasibleIsTheFirstFailure
  <2>1. bad # {}
    BY <1>1 DEF PoolInv, PhasesKnow
  <2>2. first \in Domain /\ SaysInfeasible(answer[first])
    BY <1>1, <1>6, <2>1, Settling
  <2>3. ASSUME NEW e \in 1 .. first - 1 PROVE state'[e] = "COMPLETED"
    <3>1. e \in Domain /\ ~(first <= e)
      BY <2>2, PartitionAssumption DEF Domain
    <3>2. e \notin bad
      BY <1>6, <2>1, <3>1
    <3> QED
      BY <1>2, <3>1, <3>2, Settling
  <2> QED
    BY <1>1, <2>2, <2>3
<1>8. PhasesKnow'
  <2>1. CASE bad = {}
    <3>1. \A d \in Domain : state'[d] = "COMPLETED" /\ DomainResultValid(d, answer[d])
      BY <1>2, <2>1, Settling
    <3> QED
      BY <1>1, <2>1, <3>1 DEF PoolInv, PhasesKnow, DomainResultValid
  <2>2. CASE bad # {}
    BY <1>1, <2>2 DEF PoolInv, PhasesKnow
  <2> QED
    BY <2>1, <2>2
<1> QED
  BY <1>3, <1>4, <1>5, <1>7, <1>8 DEF PoolInv

(* The merge gate and persist change no domain; the incomplete branch of
   persist is never taken. *)
LEMMA MergeKeeps == ASSUME PoolInv, Merge \/ Persist PROVE PoolInv'
<1>1. UNCHANGED <<cursor, hand, state, answer>> /\ phase \in {"MERGING", "FINAL_VALIDATION"}
      /\ phase' \in {"FINAL_VALIDATION", "FAILED_MERGE", "COMPLETED"}
  BY DEF Merge, Persist, PoolInv, PhasesKnow
<1>2. PoolTypes' /\ PoolBookkeeping' /\ VerdictCoversAllDomains'
  BY <1>1 DEF PoolInv, PoolTypes, PoolBookkeeping, VerdictCoversAllDomains, Over
<1>3. UNCHANGED error
  BY DEF Merge, Persist, PoolInv, PhasesKnow
<1>4. InfeasibleIsTheFirstFailure'
  BY <1>1, <1>3 DEF PoolInv, InfeasibleIsTheFirstFailure
<1>5. PhasesKnow'
  <2>1. MergeValid' <=> MergeValid
    BY <1>1 DEF MergeValid, Merged, SeatsAreOwn
  <2>2. \A d \in Domain : DomainResultValid(d, answer'[d]) <=> DomainResultValid(d, answer[d])
    BY <1>1 DEF DomainResultValid
  <2>3. phase' = "FINAL_VALIDATION" => MergeValid
    BY DEF Merge, Persist
  <2>4. phase' # "COMPLETED" => seating' = << >>
    BY <1>1 DEF Merge, Persist, PoolInv, PhasesKnow
  <2> QED
    BY <1>1, <1>3, <2>1, <2>2, <2>3, <2>4 DEF PoolInv, PhasesKnow
<1> QED
  BY <1>2, <1>4, <1>5 DEF PoolInv

(* Every step of the pool, the collect loop and the merge gate. *)
LEMMA PoolStep == PoolInv /\ [Next]_vars => PoolInv'
<1> SUFFICES ASSUME PoolInv, [Next]_vars PROVE PoolInv'
  OBVIOUS
<1>1. CASE UNCHANGED vars
  BY <1>1 DEF vars, PoolInv, PoolTypes, PoolBookkeeping, VerdictCoversAllDomains,
     InfeasibleIsTheFirstFailure, PhasesKnow, MergeValid, Merged, SeatsAreOwn
<1> QED
  BY <1>1, ClaimKeeps, RepliesKeep, CollectKeeps, MergeKeeps DEF Next

(* The invariant holds in every behaviour. *)
THEOREM PoolInvariance == Spec => []PoolInv
  BY InitPool, PoolStep, PTL DEF Spec

(* However many workers share the cursor, a domain is pending, with exactly
   one worker, or answered (runBoundedPool of workerPool.ts). *)
THEOREM NoDomainIsLost == Spec => []PoolBookkeeping
<1>1. PoolInv => PoolBookkeeping
  BY DEF PoolInv
<1> QED
  BY <1>1, PoolInvariance, PTL

(* In whatever order the answers come, a verdict is about all the domains. *)
THEOREM VerdictsAreAboutAll == Spec => []VerdictCoversAllDomains
<1>1. PoolInv => VerdictCoversAllDomains
  BY DEF PoolInv
<1> QED
  BY <1>1, PoolInvariance, PTL

(* A generation is infeasible only for its first failed domain, and only if
   the solver called that one infeasible, by its status or by its errorCode
   ("??=" of the collect loop): no timeout, lost call or answer that does not
   check is ever taken for a proof. *)
THEOREM InfeasibleOnlyForTheFirst == Spec => []InfeasibleIsTheFirstFailure
<1>1. PoolInv => InfeasibleIsTheFirstFailure
  BY DEF PoolInv
<1> QED
  BY <1>1, PoolInvariance, PTL


-----------------------------------------------------------------------------
(* Flattening. *)

(* F is the sequence of sequences s listed one after the other. *)
Lists(F, s, m) ==
  /\ F \in Seq(ToSet(F))
  /\ \A k \in DOMAIN F : \E d \in 1 .. m : \E i \in DOMAIN s[d] : F[k] = s[d][i]
  /\ \A d \in 1 .. m : \A i \in DOMAIN s[d] : \E k \in DOMAIN F : F[k] = s[d][i]
  /\ \A d, e \in 1 .. m : \A i \in DOMAIN s[d], j \in DOMAIN s[e] :
       d < e => \E k, l \in DOMAIN F : k < l /\ F[k] = s[d][i] /\ F[l] = s[e][j]

(* Natural induction over a set. *)
LEMMA SetInduction ==
  ASSUME NEW n \in Nat, NEW P \in SUBSET (1 .. n), n >= 1 => 1 \in P,
         \A m \in P : m < n => m + 1 \in P
  PROVE  \A m \in 1 .. n : m \in P
<1> SUFFICES ASSUME NEW y \in 1 .. n, y \notin P PROVE FALSE
  OBVIOUS
<1> DEFINE Q == {z \in Nat : z \in 1 .. n /\ z \notin P}
<1>1. Q \in SUBSET Nat /\ y \in Q
  OBVIOUS
<1>2. PICK x \in Q : \A z \in Q : ~(<<z, x>> \in OpToRel(<, Nat))
  BY <1>1, NatLessThanWellFounded, WFMin
<1>3. \A z \in Q : ~(z < x)
  BY <1>1, <1>2 DEF OpToRel
<1>4. x \in Nat /\ x # 1 /\ x <= n /\ x >= 1 /\ x \notin P
  OBVIOUS
<1>5. x - 1 \in Nat /\ x - 1 \in 1 .. n /\ x - 1 < x
  BY <1>4
<1>6. x - 1 \in P
  BY <1>3, <1>5
<1>7. (x - 1) + 1 = x /\ x - 1 < n
  BY <1>4
<1> QED
  BY <1>4, <1>6, <1>7

(* The function that FlattenSeq defines by recursion exists. *)
LEMMA FlattenExists ==
  ASSUME NEW s, NEW n \in Nat, n >= 1
  PROVE  \E f : f = [i \in 1 .. n |-> IF i = 1 THEN s[i] ELSE f[i - 1] \o s[i]]
<1> DEFINE Upto(m, f) == f = [i \in 1 .. m |-> IF i = 1 THEN s[i] ELSE f[i - 1] \o s[i]]
           P == {m \in 1 .. n : \E f : Upto(m, f)}
<1>1. 1 \in P
  <2>1. Upto(1, [i \in 1 .. 1 |-> s[i]])
    OBVIOUS
  <2> HIDE DEF Upto
  <2> QED
    BY <2>1
<1>2. ASSUME NEW m \in P, m < n PROVE m + 1 \in P
  <2>0. m \in 1 .. n
    OBVIOUS
  <2>1. PICK f : Upto(m, f)
    OBVIOUS
  <2> DEFINE c == f[m] \o s[m + 1]
             g == [i \in 1 .. m + 1 |-> IF i = m + 1 THEN c ELSE f[i]]
  <2>2. \A i \in 1 .. m : f[i] = IF i = 1 THEN s[i] ELSE f[i - 1] \o s[i]
    BY <2>1
  <2>3. \A i \in 1 .. m + 1 : g[i] = IF i = 1 THEN s[i] ELSE g[i - 1] \o s[i]
    <3> SUFFICES ASSUME NEW i \in 1 .. m + 1
                 PROVE  g[i] = IF i = 1 THEN s[i] ELSE g[i - 1] \o s[i]
      OBVIOUS
    <3>0. c = f[m] \o s[m + 1]
      OBVIOUS
    <3> HIDE DEF c
    <3>1. CASE i = m + 1
      <4>1. g[i] = c /\ i # 1 /\ i - 1 = m /\ g[m] = f[m]
        BY <2>0, <3>1
      <4> QED
        BY <3>0, <3>1, <4>1
    <3>2. CASE i # m + 1
      <4>1. i \in 1 .. m /\ g[i] = f[i] /\ (i # 1 => g[i - 1] = f[i - 1])
        BY <2>0, <3>2
      <4> QED
        BY <2>2, <4>1
    <3> QED
      BY <3>1, <3>2
  <2>4. g = [i \in 1 .. m + 1 |-> g[i]]
    OBVIOUS
  <2>5. Upto(m + 1, g)
    <3> HIDE DEF g
    <3> QED
      BY <2>3, <2>4
  <2> HIDE DEF Upto, g
  <2> QED
    BY <1>2, <2>0, <2>5
<1>3. n \in P
  <2> HIDE DEF P
  <2>1. P \in SUBSET (1 .. n)
    BY DEF P
  <2> QED
    BY <1>1, <1>2, <2>1, SetInduction
<1> QED
  BY <1>3

(* One more sequence at the end. *)
LEMMA ListsOneMore ==
  ASSUME NEW s, NEW m \in Nat, NEW F, Lists(F, s, m), NEW G,
         s[m + 1] \in Seq(ToSet(s[m + 1])), G = F \o s[m + 1]
  PROVE  Lists(G, s, m + 1)
<1> DEFINE x == s[m + 1]
           p == Len(F)
<1>1. F \in Seq(ToSet(F)) /\ p \in Nat /\ DOMAIN F = 1 .. p /\ Len(x) \in Nat /\ DOMAIN x = 1 .. Len(x)
  BY DEF Lists
<1>2. /\ G \in Seq(ToSet(F) \cup ToSet(x)) /\ Len(G) = p + Len(x) /\ DOMAIN G = 1 .. p + Len(x)
      /\ \A k \in 1 .. p : G[k] = F[k]
      /\ \A i \in 1 .. Len(x) : G[p + i] = x[i]
  <2>1. F \in Seq(ToSet(F) \cup ToSet(x)) /\ x \in Seq(ToSet(F) \cup ToSet(x))
    BY <1>1
  <2> HIDE DEF x
  <2>2. /\ F \o x \in Seq(ToSet(F) \cup ToSet(x)) /\ Len(F \o x) = Len(F) + Len(x)
        /\ \A k \in 1 .. Len(F) + Len(x) :
             (F \o x)[k] = IF k <= Len(F) THEN F[k] ELSE x[k - Len(F)]
    BY <2>1, ConcatProperties
  <2>3. G = F \o x
    BY DEF x
  <2>4. DOMAIN G = 1 .. p + Len(x)
    BY <2>2, <2>3, LenProperties
  <2>5. ASSUME NEW k \in 1 .. p PROVE G[k] = F[k]
    BY <1>1, <2>2, <2>3
  <2>6. ASSUME NEW i \in 1 .. Len(x) PROVE G[p + i] = x[i]
    <3>1. p + i \in 1 .. Len(F) + Len(x) /\ ~(p + i <= Len(F)) /\ (p + i) - Len(F) = i
      BY <1>1
    <3> QED
      BY <2>2, <2>3, <3>1
  <2> QED
    BY <2>2, <2>3, <2>4, <2>5, <2>6
<1>3. G \in Seq(ToSet(G))
  <2>1. ToSet(G) = Range(G)
    BY DEF ToSet, Range
  <2> HIDE DEF x, p
  <2> QED
    BY <1>2, <2>1, SeqOfRange
<1>4. ASSUME NEW k \in DOMAIN G PROVE \E d \in 1 .. m + 1 : \E i \in DOMAIN s[d] : G[k] = s[d][i]
  <2>1. CASE k <= p
    BY <1>1, <1>2, <2>1 DEF Lists
  <2>2. CASE k > p
    <3>1. k - p \in 1 .. Len(x) /\ G[k] = x[k - p]
      BY <1>1, <1>2, <2>2
    <3> QED
      BY <1>1, <3>1
  <2> QED
    BY <1>1, <1>2, <2>1, <2>2
<1>5. ASSUME NEW d \in 1 .. m + 1, NEW i \in DOMAIN s[d]
      PROVE  \E k \in DOMAIN G : G[k] = s[d][i] /\ (d <= m => k <= p) /\ (d = m + 1 => k > p)
  <2>1. CASE d \in 1 .. m
    <3>1. PICK k \in 1 .. p : F[k] = s[d][i]
      BY <1>1, <2>1 DEF Lists
    <3>2. G[k] = F[k] /\ k \in DOMAIN G
      BY <1>1, <1>2
    <3>3. d # m + 1 /\ k <= p
      BY <1>1, <2>1
    <3> QED
      BY <3>1, <3>2, <3>3
  <2>2. CASE d = m + 1
    <3>1. i \in 1 .. Len(x) /\ p + i \in DOMAIN G /\ G[p + i] = s[d][i] /\ p + i > p
      BY <1>1, <1>2, <2>2
    <3> QED
      BY <2>2, <3>1
  <2> QED
    BY <2>1, <2>2
<1>6. ASSUME NEW d \in 1 .. m + 1, NEW e \in 1 .. m + 1, NEW i \in DOMAIN s[d], NEW j \in DOMAIN s[e],
             d < e
      PROVE  \E k, l \in DOMAIN G : k < l /\ G[k] = s[d][i] /\ G[l] = s[e][j]
  <2>1. d \in 1 .. m
    BY <1>6
  <2>2. CASE e \in 1 .. m
    <3>1. PICK k, l \in 1 .. p : k < l /\ F[k] = s[d][i] /\ F[l] = s[e][j]
      BY <1>1, <1>6, <2>1, <2>2 DEF Lists
    <3>2. k \in DOMAIN G /\ l \in DOMAIN G /\ G[k] = s[d][i] /\ G[l] = s[e][j]
      BY <1>1, <1>2, <3>1
    <3> QED
      BY <3>1, <3>2
  <2>3. CASE e = m + 1
    <3>1. PICK k \in DOMAIN G : G[k] = s[d][i] /\ k <= p
      BY <1>5, <2>1
    <3>2. PICK l \in DOMAIN G : G[l] = s[e][j] /\ l > p
      BY <1>5, <2>3
    <3>3. k < l
      BY <1>1, <1>2, <3>1, <3>2
    <3> QED
      BY <3>1, <3>2, <3>3
  <2>4. e \in 1 .. m \/ e = m + 1
    OBVIOUS
  <2> HIDE DEF x, p
  <2> QED
    BY <2>2, <2>3, <2>4, Zenon
<1> HIDE DEF x, p
<1> QED
  BY <1>3, <1>4, <1>5, <1>6 DEF Lists

(* FlattenSeq lists its sequences, each after the ones before it. *)
LEMMA FlattenLists ==
  ASSUME NEW n \in Nat, NEW s, DOMAIN s = 1 .. n, Len(s) = n, n # 0,
         \A d \in 1 .. n : s[d] \in Seq(ToSet(s[d]))
  PROVE  Lists(FlattenSeq(s), s, n)
<1> DEFINE Rec(f) == f = [i \in 1 .. n |-> IF i = 1 THEN s[i] ELSE f[i - 1] \o s[i]]
           flat == CHOOSE f : Rec(f)
           P == {m \in 1 .. n : Lists(flat[m], s, m)}
<1>1. FlattenSeq(s) = flat[n]
  BY DEF FlattenSeq
<1>2. \A i \in 1 .. n : flat[i] = IF i = 1 THEN s[i] ELSE flat[i - 1] \o s[i]
  <2>0. n >= 1
    OBVIOUS
  <2>1. \E f : Rec(f)
    BY <2>0, FlattenExists
  <2>2. Rec(flat)
    <3> HIDE DEF Rec
    <3> QED
      BY <2>1
  <2> HIDE DEF flat
  <2> QED
    BY <2>2
<1> HIDE DEF flat
<1>3. 1 \in P
  <2>1. flat[1] = s[1] /\ 1 \in 1 .. n
    BY <1>2
  <2>2. Lists(s[1], s, 1)
    BY <2>1 DEF Lists
  <2> QED
    BY <2>1, <2>2
<1>4. ASSUME NEW m \in P, m < n PROVE m + 1 \in P
  <2>0. m \in 1 .. n /\ m \in Nat /\ m + 1 \in 1 .. n /\ m + 1 # 1 /\ (m + 1) - 1 = m
        /\ Lists(flat[m], s, m)
    BY <1>4
  <2>1. flat[m + 1] = flat[m] \o s[m + 1]
    BY <1>2, <2>0
  <2>2. s[m + 1] \in Seq(ToSet(s[m + 1]))
    BY <2>0
  <2>3. Lists(flat[m + 1], s, m + 1)
    BY <2>0, <2>1, <2>2, ListsOneMore
  <2> QED
    BY <2>0, <2>3
<1>5. P \in SUBSET (1 .. n) /\ n \in 1 .. n
  OBVIOUS
<1>6. n \in P
  <2> HIDE DEF P
  <2> QED
    BY <1>3, <1>4, <1>5, SetInduction
<1> QED
  BY <1>1, <1>6

-----------------------------------------------------------------------------
(* The seating. *)

(* Every answer in the records is an array, NoAnswer's the empty one. *)
LEMMA AnswersAreArrays ==
  ASSUME PoolTypes, NEW d \in Domain
  PROVE  answer[d].assignments \in Seq(ToSet(answer[d].assignments))
<1>1. answer[d] \in Answers \/ answer[d] = NoAnswer
  BY DEF PoolTypes
<1>2. NoAnswer.assignments \in Seq(ToSet(NoAnswer.assignments))
  BY DEF NoAnswer
<1> QED
  BY <1>1, <1>2, AnswersAssumption

(* The merged assignments are those of the domains, in their order. *)
LEMMA MergedLists ==
  ASSUME PoolTypes
  PROVE  Lists(Merged, [d \in Domain |-> answer[d].assignments], NDomains)
<1> DEFINE s == [d \in Domain |-> answer[d].assignments]
<1>1. NDomains \in Nat /\ DOMAIN s = 1 .. NDomains
  BY PartitionAssumption DEF Domain
<1>2. \A d \in 1 .. NDomains : s[d] \in Seq(ToSet(s[d]))
  BY AnswersAreArrays DEF Domain
<1>3. Len(s) = NDomains
  <2>1. s \in Seq({s[d] : d \in Domain})
    BY <1>1, SeqDef DEF Domain
  <2> QED
    BY <1>1, <2>1, LenProperties
<1>4. CASE NDomains = 0
  <2>1. Merged = s
    BY <1>3, <1>4 DEF Merged, FlattenSeq
  <2>2. s = << >> /\ ToSet(s) = {}
    BY <1>1, <1>4 DEF ToSet
  <2> HIDE DEF s
  <2> QED
    BY <2>1, <2>2, <1>4 DEF Lists
<1>5. CASE NDomains # 0
  <2>1. Merged = FlattenSeq(s)
    BY DEF Merged
  <2>2. Lists(Merged, s, NDomains)
    <3> HIDE DEF s
    <3> QED
      BY <1>1, <1>2, <1>3, <1>5, <2>1, FlattenLists
  <2> QED
    BY <2>2
<1> QED
  BY <1>4, <1>5

(* An assignment as the promise sees it. *)
Placed(x) == [candidate |-> x.candidate, place |-> <<x.hall, x.seat>>]

(* As many assignments as candidates, none for the same candidate twice, and
   everybody named: they are the session.  A candidate named by two domains
   would be listed twice, so each is seated by its own. *)
LEMMA MergedIsSeating ==
  ASSUME PoolTypes, MergeValid, \A d \in Domain : DomainResultValid(d, answer[d])
  PROVE  Promise!IsSeating({Placed(x) : x \in ToSet(Merged)})
<1> DEFINE M == Merged
           n == Len(M)
           s == [d \in Domain |-> answer[d].assignments]
           C == {M[k].candidate : k \in 1 .. n}
           T == {Placed(M[k]) : k \in 1 .. n}
<1>1. Lists(M, s, NDomains)
  BY MergedLists
<1>2. M \in Seq(ToSet(M)) /\ n \in Nat /\ DOMAIN M = 1 .. n
  BY <1>1 DEF Lists
<1>3. \A k, l \in 1 .. n : /\ M[k].candidate = M[l].candidate => k = l
                           /\ M[k].seat = M[l].seat => k = l
  BY <1>2 DEF MergeValid, NoDuplicates, IsInjective, CandidateIds, SeatIds
<1>4. IsFiniteSet(1 .. n) /\ Cardinality(1 .. n) = n
  BY <1>2, FS_Interval
<1>5. IsFiniteSet(C) /\ Cardinality(C) = n
  <2> DEFINE f == [k \in 1 .. n |-> M[k].candidate]
  <2>1. f \in Surjection(1 .. n, C) /\ f \in Injection(1 .. n, C)
    BY <1>3 DEF Surjection, Injection, IsInjective
  <2> HIDE DEF f, C
  <2> QED
    BY <2>1, <1>4, FS_Surjection
<1>6. C = Session
  <2>1. Session \subseteq C
    BY <1>2 DEF MergeValid, CandidateIds, ToSet
  <2>2. Cardinality(Session) = n
    BY DEF MergeValid
  <2> HIDE DEF C
  <2> QED
    BY <2>1, <2>2, <1>5, FS_Subset
<1>7. T = {Placed(x) : x \in ToSet(M)}
  BY <1>2 DEF ToSet
<1>9. {x.candidate : x \in T} = Session
  <2>1. \A k \in 1 .. n : Placed(M[k]).candidate = M[k].candidate
    BY DEF Placed
  <2>2. {x.candidate : x \in T} = C
    <3> HIDE DEF M, n
    <3> QED
      BY <2>1
  <2> QED
    BY <2>2, <1>6
<1>10. \A x, y \in T : x.candidate = y.candidate \/ x.place = y.place => x = y
  BY <1>3 DEF Placed
<1>11. ASSUME NEW k \in 1 .. n
       PROVE  <<M[k].hall, M[k].seat>> \in PlacesFor(M[k].candidate)
  <2>1. PICK d \in Domain : \E i \in DOMAIN s[d] : M[k] = s[d][i]
    BY <1>1, <1>2 DEF Lists, Domain
  <2>2. PICK i \in DOMAIN answer[d].assignments : M[k] = answer[d].assignments[i]
    BY <2>1
  <2>3. M[k].seat \in SeatsOf[d]
    BY <2>2 DEF DomainResultValid, SeatIds, ToSet
  <2>4. M[k].hall = HallOf[M[k].seat]
    BY <2>2 DEF MergeValid, SeatsAreOwn
  <2>5. PICK e \in Domain : M[k].candidate \in CandidatesOf[e]
    <3>1. M[k].candidate \in Session
      BY <1>6
    <3> QED
      BY <3>1 DEF Session
  <2>6. PICK j \in DOMAIN answer[e].assignments :
          answer[e].assignments[j].candidate = M[k].candidate
    BY <2>5 DEF DomainResultValid, CandidateIds, ToSet
  <2>7. d = e
    <3> SUFFICES ASSUME d # e PROVE FALSE
      OBVIOUS
    <3>1. d \in 1 .. NDomains /\ e \in 1 .. NDomains /\ (d < e \/ e < d)
      BY PartitionAssumption DEF Domain
    <3>2. i \in DOMAIN s[d] /\ j \in DOMAIN s[e] /\ s[d][i].candidate = s[e][j].candidate
      BY <2>2, <2>6
    <3>3. \E k1, l1 \in 1 .. n : k1 # l1 /\ M[k1].candidate = M[l1].candidate
      <4> HIDE DEF s, M
      <4>1. CASE d < e
        <5>1. PICK k1, l1 \in 1 .. n : k1 < l1 /\ M[k1] = s[d][i] /\ M[l1] = s[e][j]
          BY <1>1, <1>2, <3>1, <3>2, <4>1 DEF Lists
        <5>2. k1 # l1 /\ M[k1].candidate = M[l1].candidate
          BY <3>2, <5>1
        <5> QED
          BY <5>2
      <4>2. CASE e < d
        <5>0. \A a, b \in 1 .. NDomains : \A u \in DOMAIN s[a], v \in DOMAIN s[b] :
                a < b => \E k1, l1 \in 1 .. n : k1 < l1 /\ M[k1] = s[a][u] /\ M[l1] = s[b][v]
          BY <1>1, <1>2 DEF Lists
        <5>1. PICK k1, l1 \in 1 .. n : k1 < l1 /\ M[k1] = s[e][j] /\ M[l1] = s[d][i]
          BY <5>0, <3>1, <3>2, <4>2
        <5>2. k1 # l1 /\ M[k1].candidate = M[l1].candidate
          BY <3>2, <5>1
        <5> QED
          BY <5>2
      <4> QED
        BY <3>1, <4>1, <4>2
    <3> QED
      BY <1>3, <3>3
  <2> QED
    BY <2>3, <2>4, <2>5, <2>7 DEF PlacesFor
<1>12. \A x \in T : x.place \in PlacesFor(x.candidate)
  BY <1>11 DEF Placed
<1> HIDE DEF T
<1> QED
  BY <1>7, <1>9, <1>10, <1>12 DEF Promise!IsSeating

(* Every step keeps the verdict open, refuses, or seats everybody. *)
LEMMA StepKeepsPromise == PoolInv /\ PoolInv' /\ [Next]_vars => [Promise!Next]_(Promise!vars)
<1> SUFFICES ASSUME PoolInv, [Next]_vars PROVE [Promise!Next]_(Promise!vars)
  OBVIOUS
<1>1. CASE UNCHANGED <<phase, seating>>
  BY <1>1 DEF Promise!vars, Verdict, Seating
<1>2. CASE Collect
  <2>1. phase = "SOLVING" /\ phase' \in {"MERGING", "FAILED_DOMAIN"} /\ UNCHANGED seating
    BY <1>2 DEF Collect
  <2> QED
    BY <2>1 DEF Promise!vars, Promise!Next, Promise!Refuse, Verdict, Seating, Over
<1>3. CASE Merge
  <2>1. phase = "MERGING" /\ phase' \in {"FINAL_VALIDATION", "FAILED_MERGE"} /\ UNCHANGED seating
    BY <1>3 DEF Merge
  <2> QED
    BY <2>1 DEF Promise!vars, Promise!Next, Promise!Refuse, Verdict, Seating, Over
<1>4. CASE Persist
  <2>1. /\ phase = "FINAL_VALIDATION" /\ PoolTypes /\ MergeValid
        /\ \A d \in Domain : state[d] = "COMPLETED" /\ DomainResultValid(d, answer[d])
    BY <1>4 DEF Persist, PoolInv, PhasesKnow
  <2>2. phase' = "COMPLETED" /\ seating' = Merged
    BY <1>4, <2>1 DEF Persist
  <2>3. Seating' = {Placed(x) : x \in ToSet(Merged)}
    BY <2>2 DEF Seating, Placed
  <2>4. Promise!IsSeating(Seating')
    BY <2>1, <2>3, MergedIsSeating
  <2>5. Verdict = "open" /\ Verdict' = "seated"
    BY <2>1, <2>2 DEF Verdict, Over
  <2> QED
    BY <2>4, <2>5 DEF Promise!Next, Promise!Seat
<1> QED
  BY <1>1, <1>2, <1>3, <1>4 DEF Next, vars, Claim, SolverReplies, TransportFails, Answered

(* For any partition, any number of workers and any answers of the solver,
   the generation hands on a complete seating of the session, each candidate
   on one seat of its own domain, or nothing (validateMerge and the gates of
   runGeneration). *)
THEOREM SeatedInFullOrNotAtAll == Spec => SeatsAllOrNothing
<1>1. Init => Promise!Init
  BY DEF Init, Promise!Init, Verdict, Seating, ToSet, Over
<1> QED
  BY <1>1, PoolInvariance, StepKeepsPromise, PTL DEF Spec, SeatsAllOrNothing, Promise!AllOrNothing
=============================================================================
