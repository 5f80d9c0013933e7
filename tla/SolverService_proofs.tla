------------------------- MODULE SolverService_proofs -------------------------
(***************************************************************************)
(* Proofs about the solver service: what its partition and its allocation  *)
(* compute, and what POST /solve and POST /solve-domain answer.            *)
(*                                                                         *)
(* CP-SAT is assumed to be truthful about the model that it is given, and  *)
(* nothing else; that the model is the right one is proved here.           *)
(*  - /solve-domain and the pipeline: the domains divide the seats and     *)
(*    share the candidates; edges lie within a domain, so placements of    *)
(*    the domains put together (PlacesTogether) violate nothing.           *)
(*  - /solve: patterns of classes and placements of candidates realise     *)
(*    each other, at the same cost, so nothing is lost by choosing the     *)
(*    pattern first (PatternSolves, AssignmentRealises, CostsAgree).       *)
(***************************************************************************)
EXTENDS SolverService, FiniteSetTheorems, FunctionTheorems, WellFoundedInduction, TLAPS

-----------------------------------------------------------------------------
(* A seat is a hall, a row and a bench, all numbers. *)
LEMMA SeatsHaveCoordinates ==
  ASSUME NEW s \in AllSeats
  PROVE  s[1] \in Int /\ s[2] \in Int /\ s[3] \in Int
<1>1. PICK h \in Hall : s \in {h} \X (0 .. Grid[h][1] - 1) \X (1 .. Grid[h][2])
  BY DEF AllSeats
<1>2. h \in Nat
  BY GridAssumption
<1> QED
  BY <1>1, <1>2

(* The order of the seats is strict. *)
LEMMA BeforeIsStrict ==
  ASSUME NEW s \in AllSeats, NEW t \in AllSeats, Before(s, t)
  PROVE  ~Before(t, s)
  BY SeatsHaveCoordinates DEF Before

(* A nonempty set of numbers has a least element. *)
LEMMA LeastNatural ==
  ASSUME NEW T \in SUBSET Nat, T # {}
  PROVE  \E n \in T : \A m \in T : n <= m
<1>1. PICK n \in T : \A m \in T : ~(<<m, n>> \in OpToRel(<, Nat))
  BY NatLessThanWellFounded, WFMin
<1>2. \A m \in T : ~(m < n)
  BY <1>1 DEF OpToRel
<1> QED
  BY <1>2

(* A finite set that is no larger than another maps into it one to one. *)
LEMMA SmallerFits ==
  ASSUME NEW X, NEW Y, IsFiniteSet(X), IsFiniteSet(Y), Cardinality(X) <= Cardinality(Y)
  PROVE  \E f \in [X -> Y] : \A a, b \in X : f[a] = f[b] => a = b
<1>1. Cardinality(X) \in Nat /\ Cardinality(Y) \in Nat
  BY FS_CardinalityType
<1>2. PICK g : g \in Bijection(1 .. Cardinality(X), X)
  BY FS_CardinalityType DEF ExistsBijection
<1>3. PICK h : h \in Bijection(1 .. Cardinality(Y), Y)
  BY FS_CardinalityType DEF ExistsBijection
<1>4. /\ g \in [1 .. Cardinality(X) -> X]
      /\ \A x \in X : \E n \in 1 .. Cardinality(X) : g[n] = x
  <2>1. g \in Surjection(1 .. Cardinality(X), X)
    BY <1>2 DEF Bijection
  <2> QED
    BY <2>1 DEF Surjection
<1>5. /\ h \in [1 .. Cardinality(Y) -> Y]
      /\ \A m, n \in 1 .. Cardinality(Y) : h[m] = h[n] => m = n
  <2>1. h \in Injection(1 .. Cardinality(Y), Y)
    BY <1>3 DEF Bijection
  <2> QED
    BY <2>1 DEF Injection, IsInjective
<1> DEFINE number == [x \in X |-> CHOOSE n \in 1 .. Cardinality(X) : g[n] = x]
           f == [x \in X |-> h[number[x]]]
<1>6. \A x \in X : number[x] \in 1 .. Cardinality(X) /\ g[number[x]] = x
  BY <1>4
<1>7. \A x \in X : number[x] \in 1 .. Cardinality(Y)
  BY <1>1, <1>6
<1> HIDE DEF number
<1>8. f \in [X -> Y]
  BY <1>5, <1>7
<1>9. \A a, b \in X : f[a] = f[b] => a = b
  BY <1>5, <1>6, <1>7
<1> QED
  BY <1>8, <1>9

(* Where every domain holds as many candidates as it has seats, there are at
   least as many candidates as seats. *)
LEMMA FullDomains ==
  ASSUME NEW S, IsFiniteSet(S), NEW T, IsFiniteSet(T), NEW I,
         NEW D \in [I -> SUBSET S], NEW A \in [I -> SUBSET T],
         \A s \in S : \E i \in I : s \in D[i],
         \A i, j \in I : i # j => A[i] \cap A[j] = {},
         \A i \in I : Cardinality(D[i]) <= Cardinality(A[i])
  PROVE  Cardinality(S) <= Cardinality(T)
<1> DEFINE Seated(i, f) == f \in [D[i] -> A[i]] /\ \A a, b \in D[i] : f[a] = f[b] => a = b
           seating == [i \in I |-> CHOOSE f : Seated(i, f)]
           home == [s \in S |-> CHOOSE i \in I : s \in D[i]]
           F == [s \in S |-> seating[home[s]][s]]
<1>1. \A i \in I : Seated(i, seating[i])
  <2> SUFFICES ASSUME NEW i \in I PROVE \E f : Seated(i, f)
    OBVIOUS
  <2>1. IsFiniteSet(D[i]) /\ IsFiniteSet(A[i])
    BY FS_Subset
  <2> QED
    BY <2>1, SmallerFits
<1>2. \A s \in S : home[s] \in I /\ s \in D[home[s]]
  OBVIOUS
<1> HIDE DEF seating, home
<1>3. \A s \in S : F[s] \in A[home[s]]
  BY <1>1, <1>2
<1>4. F \in [S -> T]
  BY <1>2, <1>3
<1>5. \A s, t \in S : F[s] = F[t] => s = t
  <2> SUFFICES ASSUME NEW s \in S, NEW t \in S, F[s] = F[t] PROVE s = t
    OBVIOUS
  <2>1. home[s] = home[t]
    BY <1>2, <1>3
  <2> QED
    BY <1>1, <1>2, <2>1
<1>6. F \in Injection(S, T)
  BY <1>4, <1>5, Fun_IsInj
<1> QED
  BY <1>6, FS_Injection

(* Of two elements of S one is earlier than the other, and earlier[x] is what
   is earlier than x. *)
Linear(S, earlier) ==
  /\ earlier \in [S -> SUBSET S]
  /\ \A x \in S : x \notin earlier[x]
  /\ \A x, y \in S : x = y \/ x \in earlier[y] \/ y \in earlier[x]
  /\ \A x, y \in S : x \in earlier[y] => earlier[x] \subseteq earlier[y]

(* Where an order is linear, InOrder lists every element at its place. *)
LEMMA Listing ==
  ASSUME NEW S, IsFiniteSet(S), NEW earlier, Linear(S, earlier)
  PROVE  /\ \A x \in S : /\ Cardinality(earlier[x]) + 1 \in 1 .. Cardinality(S)
                         /\ InOrder(S, earlier)[Cardinality(earlier[x]) + 1] = x
         /\ \A n \in 1 .. Cardinality(S) :
              /\ InOrder(S, earlier)[n] \in S
              /\ Cardinality(earlier[InOrder(S, earlier)[n]]) = n - 1
<1> DEFINE n == Cardinality(S)
           r == [x \in S |-> Cardinality(earlier[x])]
           T == {r[x] : x \in S}
<1>0. n \in Nat /\ earlier \in [S -> SUBSET S]
  BY FS_CardinalityType DEF Linear
<1>1. \A x \in S : IsFiniteSet(earlier[x]) /\ r[x] \in Nat /\ r[x] <= n - 1
  <2> SUFFICES ASSUME NEW x \in S
               PROVE  IsFiniteSet(earlier[x]) /\ r[x] \in Nat /\ r[x] <= n - 1
    OBVIOUS
  <2>1. earlier[x] \subseteq S \ {x}
    BY <1>0 DEF Linear
  <2>2. IsFiniteSet(S \ {x}) /\ Cardinality(S \ {x}) = n - 1
    BY FS_RemoveElement
  <2>3. IsFiniteSet(earlier[x]) /\ Cardinality(earlier[x]) <= Cardinality(S \ {x})
    BY <2>1, <2>2, FS_Subset
  <2> QED
    BY <2>2, <2>3, FS_CardinalityType
<1>2. \A x, y \in S : x \in earlier[y] => r[x] < r[y]
  <2> SUFFICES ASSUME NEW x \in S, NEW y \in S, x \in earlier[y] PROVE r[x] < r[y]
    OBVIOUS
  <2>1. earlier[x] \subseteq earlier[y] /\ earlier[x] # earlier[y]
    BY DEF Linear
  <2>2. Cardinality(earlier[x]) <= Cardinality(earlier[y])
        /\ Cardinality(earlier[x]) # Cardinality(earlier[y])
    BY <1>1, <2>1, FS_Subset
  <2> QED
    BY <1>1, <2>2
<1>3. \A x, y \in S : r[x] = r[y] => x = y
  BY <1>1, <1>2 DEF Linear
<1>4. T = 0 .. n - 1
  <2>1. T \subseteq 0 .. n - 1
    BY <1>0, <1>1
  <2>2. IsFiniteSet(0 .. n - 1) /\ Cardinality(0 .. n - 1) = n
    BY <1>0, FS_Interval
  <2>3. IsFiniteSet(T) /\ Cardinality(T) <= n
    BY <2>1, <2>2, FS_Subset
  <2>4. r \in [S -> T] /\ \A x, y \in S : r[x] = r[y] => x = y
    BY <1>3
  <2>5. r \in Injection(S, T)
    <3> HIDE DEF r, T
    <3> QED
      BY <2>4, Fun_IsInj
  <2>6. Cardinality(S) <= Cardinality(T)
    BY <2>3, <2>5, FS_Injection
  <2>7. Cardinality(T) = Cardinality(0 .. n - 1)
    BY <1>0, <2>2, <2>3, <2>6, FS_CardinalityType
  <2> QED
    BY <2>1, <2>2, <2>7, FS_Subset
<1>5. \A m \in 1 .. n : \E x \in S : r[x] = m - 1
  <2> SUFFICES ASSUME NEW m \in 1 .. n PROVE \E x \in S : r[x] = m - 1
    OBVIOUS
  <2>1. m - 1 \in 0 .. n - 1
    BY <1>0
  <2>2. m - 1 \in T
    <3> HIDE DEF T
    <3> QED
      BY <1>4, <2>1
  <2> QED
    BY <2>2
<1>6. \A m \in 1 .. n : /\ InOrder(S, earlier)[m] \in S
                        /\ r[InOrder(S, earlier)[m]] = m - 1
  BY <1>5 DEF InOrder
<1>7. \A x \in S : r[x] + 1 \in 1 .. n /\ (r[x] + 1) - 1 = r[x]
  BY <1>0, <1>1
<1>8. \A x \in S : InOrder(S, earlier)[r[x] + 1] = x
  <2> SUFFICES ASSUME NEW x \in S PROVE InOrder(S, earlier)[r[x] + 1] = x
    OBVIOUS
  <2> DEFINE y == InOrder(S, earlier)[r[x] + 1]
  <2>1. r[x] + 1 \in 1 .. n /\ (r[x] + 1) - 1 = r[x]
    BY <1>7
  <2> HIDE DEF r, n
  <2>2. y \in S /\ r[y] = r[x]
    BY <1>6, <2>1
  <2> QED
    BY <1>3, <2>2
<1> QED
  BY <1>6, <1>7, <1>8

(* Seats are in a linear order, and so are candidates. *)
LEMMA SeatsInOrder ==
  ASSUME NEW s \in AllSeats, NEW t \in AllSeats
  PROVE  /\ ~Before(s, s)
         /\ s = t \/ Before(s, t) \/ Before(t, s)
         /\ \A u \in AllSeats : Before(u, s) /\ Before(s, t) => Before(u, t)
<1>1. \A u \in AllSeats : /\ u[1] \in Int /\ u[2] \in Int /\ u[3] \in Int
                          /\ u = <<u[1], u[2], u[3]>>
  <2> SUFFICES ASSUME NEW u \in AllSeats PROVE u = <<u[1], u[2], u[3]>>
    BY SeatsHaveCoordinates
  <2>1. PICK h \in Hall : u \in {h} \X (0 .. Grid[h][1] - 1) \X (1 .. Grid[h][2])
    BY DEF AllSeats
  <2> QED
    BY <2>1
<1>2. s[1] = t[1] /\ s[2] = t[2] /\ s[3] = t[3] => s = t
  BY <1>1
<1> QED
  BY <1>1, <1>2 DEF Before

(* So they are for the solver service. *)
LEMMA SolverSortsSeats ==
  ASSUME NEW s \in AllSeats, NEW t \in AllSeats
  PROVE  /\ ~SolverBefore(s, s)
         /\ s = t \/ SolverBefore(s, t) \/ SolverBefore(t, s)
         /\ \A u \in AllSeats : SolverBefore(u, s) /\ SolverBefore(s, t) => SolverBefore(u, t)
<1>1. \A u \in AllSeats : u[1] \in Hall /\ HallCode[u[1]] \in Nat
  <2> SUFFICES ASSUME NEW u \in AllSeats PROVE u[1] \in Hall
    BY CodeAssumption
  <2>1. PICK h \in Hall : u \in {h} \X (0 .. Grid[h][1] - 1) \X (1 .. Grid[h][2])
    BY DEF AllSeats
  <2> QED
    BY <2>1
<1>2. HallCode[s[1]] = HallCode[t[1]] => s[1] = t[1]
  BY <1>1, CodeAssumption DEF IsInjective
<1>3. ~SolverBefore(s, s)
  BY <1>1, SeatsInOrder DEF SolverBefore
<1>4. s = t \/ SolverBefore(s, t) \/ SolverBefore(t, s)
  <2>1. \/ HallCode[s[1]] < HallCode[t[1]] \/ HallCode[t[1]] < HallCode[s[1]]
        \/ s[1] = t[1]
    BY <1>1, <1>2
  <2> QED
    BY <2>1, SeatsInOrder DEF SolverBefore
<1>5. ASSUME NEW u \in AllSeats, SolverBefore(u, s), SolverBefore(s, t)
      PROVE  SolverBefore(u, t)
  <2>1. CASE u[1] = s[1] /\ s[1] = t[1]
    <3>1. Before(u, s) /\ Before(s, t)
      BY <1>1, <1>5, <2>1 DEF SolverBefore
    <3> QED
      BY <2>1, <3>1, SeatsInOrder DEF SolverBefore
  <2>2. CASE ~(u[1] = s[1] /\ s[1] = t[1])
    BY <1>1, <1>5, <2>2 DEF SolverBefore
  <2> QED
    BY <2>1, <2>2
<1> QED
  BY <1>3, <1>4, <1>5

(* A set of seats has a first one. *)
LEMMA FirstSeatIsFirst ==
  ASSUME NEW C \in SUBSET AllSeats, IsFiniteSet(C), C # {}
  PROVE  /\ FirstSeat(C) \in C
         /\ \A t \in C : t = FirstSeat(C) \/ SolverBefore(FirstSeat(C), t)
<1> DEFINE earlier == [s \in C |-> {t \in C : SolverBefore(t, s)}]
<1>1. Linear(C, earlier)
  BY SolverSortsSeats DEF Linear
<1>2. Cardinality(C) \in Nat /\ Cardinality(C) # 0
  BY FS_CardinalityType, FS_EmptySet
<1>3. 1 \in 1 .. Cardinality(C)
  BY <1>2
<1> DEFINE s == InOrder(C, earlier)[1]
<1>4. s \in C /\ Cardinality(earlier[s]) = 0
  <2> HIDE DEF earlier
  <2> QED
    BY <1>1, <1>3, Listing
<1>5. earlier[s] \subseteq C
  BY <1>4
<1>6. earlier[s] = {}
  BY <1>4, <1>5, FS_Subset, FS_EmptySet
<1>7. \A t \in C : t = s \/ SolverBefore(s, t)
  BY <1>4, <1>6, SolverSortsSeats
<1> QED
  BY <1>4, <1>7 DEF FirstSeat

(* Induction up to n, over a set of numbers rather than a predicate. *)
LEMMA UpTo ==
  ASSUME NEW n \in Nat, NEW P \in SUBSET (0 .. n), 0 \in P,
         \A m \in P : m < n => m + 1 \in P
  PROVE  \A m \in 0 .. n : m \in P
<1> SUFFICES ASSUME NEW y \in 0 .. n, y \notin P PROVE FALSE
  OBVIOUS
<1> DEFINE Q == (0 .. n) \ P
<1>1. PICK x \in Q : \A z \in Q : x <= z
  <2>1. Q \in SUBSET Nat /\ Q # {}
    OBVIOUS
  <2> HIDE DEF Q
  <2> QED
    BY <2>1, LeastNatural
<1>2. x - 1 \in 0 .. n /\ ~(x <= x - 1)
  OBVIOUS
<1>3. x - 1 \in P
  BY <1>1, <1>2
<1>4. (x - 1) + 1 = x /\ x - 1 < n
  OBVIOUS
<1> QED
  BY <1>3, <1>4

(* What the allocation starts with, and the fold over the first n of q. *)
Blank(sizes) == [given |-> [i \in DOMAIN sizes |-> {}], dept |-> 0, cursor |-> 0, raised |-> FALSE]

IsFold(f, sizes, q, n) ==
  f = [s \in SUBSET (1 .. n) |->
         IF s = {} THEN Blank(sizes) ELSE Give(sizes, f[s \ {Max(s)}], q[Max(s)])]

(* The function behind FoldLeft exists, so that CHOOSE finds it. *)
LEMMA FoldExists ==
  ASSUME NEW sizes, NEW q, NEW n \in Nat
  PROVE  \E f : IsFold(f, sizes, q, n)
<1> DEFINE P == {m \in 0 .. n : \E f : IsFold(f, sizes, q, m)}
<1>1. 0 \in P
  <2> DEFINE f == [s \in SUBSET (1 .. 0) |-> Blank(sizes)]
  <2>1. \A s \in SUBSET (1 .. 0) : s = {}
    OBVIOUS
  <2>2. IsFold(f, sizes, q, 0)
    BY <2>1 DEF IsFold
  <2> QED
    BY <2>2
<1>2. ASSUME NEW m \in P, m < n PROVE m + 1 \in P
  <2>0. m \in 0 .. n /\ m + 1 \in 0 .. n
    BY <1>2
  <2>1. PICK f : IsFold(f, sizes, q, m)
    OBVIOUS
  <2> DEFINE last(s) == Give(sizes, f[s \ {m + 1}], q[m + 1])
             g == [s \in SUBSET (1 .. m + 1) |-> IF m + 1 \in s THEN last(s) ELSE f[s]]
  <2>2. \A s \in SUBSET (1 .. m) :
          f[s] = IF s = {} THEN Blank(sizes) ELSE Give(sizes, f[s \ {Max(s)}], q[Max(s)])
    BY <2>1 DEF IsFold
  <2>3. ASSUME NEW s \in SUBSET (1 .. m + 1)
        PROVE  g[s] = IF s = {} THEN Blank(sizes) ELSE Give(sizes, g[s \ {Max(s)}], q[Max(s)])
    <3>1. CASE m + 1 \in s
      <4>1. \A y \in s : m + 1 >= y
        BY <2>0
      <4>2. Max(s) = m + 1
        <5> DEFINE top == Max(s)
        <5>1. top \in s /\ \A y \in s : top >= y
          BY <3>1, <4>1 DEF Max
        <5> HIDE DEF top
        <5>2. top \in 1 .. m + 1 /\ top >= m + 1
          BY <3>1, <5>1
        <5>3. top = m + 1
          BY <2>0, <5>2
        <5> QED
          BY <5>3 DEF top
      <4>3. s \ {m + 1} \in SUBSET (1 .. m + 1) /\ m + 1 \notin s \ {m + 1}
        OBVIOUS
      <4>4. g[s \ {m + 1}] = f[s \ {m + 1}]
        BY <4>3
      <4>5. g[s] = last(s)
        BY <3>1
      <4> HIDE DEF g
      <4> QED
        BY <3>1, <4>2, <4>4, <4>5
    <3>2. CASE m + 1 \notin s
      <4>1. s \in SUBSET (1 .. m)
        BY <2>0, <3>2
      <4>2. g[s] = f[s]
        BY <3>2
      <4>3. ASSUME s # {} PROVE g[s \ {Max(s)}] = f[s \ {Max(s)}]
        <5>1. s \ {Max(s)} \in SUBSET (1 .. m + 1) /\ m + 1 \notin s \ {Max(s)}
          BY <3>2
        <5> QED
          BY <5>1
      <4> HIDE DEF g
      <4> QED
        BY <2>2, <4>1, <4>2, <4>3
    <3> QED
      BY <3>1, <3>2
  <2>4. g = [s \in SUBSET (1 .. m + 1) |-> g[s]]
    OBVIOUS
  <2>5. IsFold(g, sizes, q, m + 1)
    <3> HIDE DEF g
    <3> QED
      BY <2>3, <2>4 DEF IsFold
  <2> HIDE DEF g
  <2> QED
    BY <2>0, <2>5
<1>3. n \in P
  <2>1. P \in SUBSET (0 .. n)
    OBVIOUS
  <2> HIDE DEF P
  <2> QED
    BY <1>1, <1>2, <2>1, UpTo
<1> QED
  BY <1>3

(* The allocation after the first m of the n candidates q. *)
Run(sizes, q, n, m) == (CHOOSE f : IsFold(f, sizes, q, n))[1 .. m]

(* The allocation begins blank and gives one candidate after the other. *)
LEMMA RunSteps ==
  ASSUME NEW sizes, NEW q, NEW n \in Nat
  PROVE  /\ Run(sizes, q, n, 0) = Blank(sizes)
         /\ \A m \in 0 .. n - 1 :
              Run(sizes, q, n, m + 1) = Give(sizes, Run(sizes, q, n, m), q[m + 1])
<1> DEFINE f == CHOOSE f : IsFold(f, sizes, q, n)
<1>1. IsFold(f, sizes, q, n)
  BY FoldExists
<1> HIDE DEF f
<1>2. \A s \in SUBSET (1 .. n) :
        f[s] = IF s = {} THEN Blank(sizes) ELSE Give(sizes, f[s \ {Max(s)}], q[Max(s)])
  BY <1>1 DEF IsFold
<1>3. f[1 .. 0] = Blank(sizes)
  <2>1. 1 .. 0 \in SUBSET (1 .. n) /\ 1 .. 0 = {}
    OBVIOUS
  <2> QED
    BY <1>2, <2>1
<1>4. ASSUME NEW m \in 0 .. n - 1 PROVE f[1 .. m + 1] = Give(sizes, f[1 .. m], q[m + 1])
  <2>1. /\ 1 .. m + 1 \in SUBSET (1 .. n) /\ 1 .. m + 1 # {}
        /\ m + 1 \in 1 .. m + 1
        /\ \A y \in 1 .. m + 1 : m + 1 >= y
    OBVIOUS
  <2>2. Max(1 .. m + 1) = m + 1
    BY <2>1 DEF Max
  <2>3. (1 .. m + 1) \ {m + 1} = 1 .. m
    OBVIOUS
  <2> QED
    BY <1>2, <2>1, <2>2, <2>3
<1> QED
  BY <1>3, <1>4 DEF Run, f

(* allocate_candidates_to_domains returns what the last candidate leaves. *)
LEMMA AllocationRuns ==
  ASSUME NEW sizes, NEW C, Cardinality(C) \in Nat,
         NEW end, end = Run(sizes, CandidatesInOrder(C), Cardinality(C), Cardinality(C))
  PROVE  SolverAllocation(sizes, C) =
           IF end.raised THEN [i \in DOMAIN sizes |-> {}] ELSE end.given
<1> DEFINE q == CandidatesInOrder(C)
<1>1. DOMAIN q = 1 .. Cardinality(C)
  BY DEF CandidatesInOrder, InOrder
<1> HIDE DEF q
<1> QED
  BY <1>1 DEF SolverAllocation, FoldLeft, MapThenFoldSet, Run, IsFold, Blank, q

EarlierIn(C) == [c \in C |-> {d \in C : SolverCandidateBefore(d, c)}]

(* The order of the candidates is linear. *)
LEMMA CandidatesAreOrdered ==
  ASSUME NEW C \in SUBSET Candidates
  PROVE  Linear(C, EarlierIn(C))
<1>1. \A c \in C : RegisterCode[c] \in Nat /\ Department[c] \in Nat
  BY CandidateAssumption, CodeAssumption
<1>2. \A c, d \in C : RegisterCode[c] = RegisterCode[d] => c = d
  BY CodeAssumption DEF IsInjective
<1> QED
  BY <1>1, <1>2 DEF Linear, EarlierIn, SolverCandidateBefore

(* Every candidate is listed once. *)
LEMMA CandidatesAreListed ==
  ASSUME NEW C \in SUBSET Candidates, NEW q, q = CandidatesInOrder(C),
         NEW n, n = Cardinality(C)
  PROVE  /\ IsFiniteSet(C) /\ n \in Nat
         /\ \A m \in 1 .. n : q[m] \in C
         /\ \A m, k \in 1 .. n : q[m] = q[k] => m = k
         /\ \A c \in C : /\ Cardinality(EarlierIn(C)[c]) + 1 \in 1 .. n
                         /\ q[Cardinality(EarlierIn(C)[c]) + 1] = c
<1>1. IsFiniteSet(C) /\ Cardinality(C) \in Nat
  BY CandidateAssumption, FS_Subset, FS_CardinalityType
<1>2. CandidatesInOrder(C) = InOrder(C, EarlierIn(C))
  BY DEF CandidatesInOrder, EarlierIn
<1>3. /\ \A x \in C : /\ Cardinality(EarlierIn(C)[x]) + 1 \in 1 .. Cardinality(C)
                      /\ InOrder(C, EarlierIn(C))[Cardinality(EarlierIn(C)[x]) + 1] = x
      /\ \A p \in 1 .. Cardinality(C) :
           /\ InOrder(C, EarlierIn(C))[p] \in C
           /\ Cardinality(EarlierIn(C)[InOrder(C, EarlierIn(C))[p]]) = p - 1
  BY <1>1, CandidatesAreOrdered, Listing
<1>4. \A m, k \in 1 .. Cardinality(C) : m - 1 = k - 1 => m = k
  OBVIOUS
<1>5. ASSUME NEW m \in 1 .. Cardinality(C), NEW k \in 1 .. Cardinality(C),
             InOrder(C, EarlierIn(C))[m] = InOrder(C, EarlierIn(C))[k]
      PROVE  m = k
  <2>1. m - 1 = k - 1
    BY <1>3, <1>5, Zenon
  <2> QED
    BY <1>4, <2>1
<1> QED
  BY <1>1, <1>2, <1>3, <1>5, Zenon

(* A domain alone takes all the candidates it has seats for. *)
LEMMA OneDomainTakesAll ==
  ASSUME NEW C \in SUBSET Candidates, NEW N \in Nat, Cardinality(C) <= N
  PROVE  SolverAllocation([i \in 1 .. 1 |-> N], C) = [i \in 1 .. 1 |-> C]
<1> DEFINE sizes == [i \in 1 .. 1 |-> N]
           q == CandidatesInOrder(C)
           n == Cardinality(C)
           First(m) == {q[k] : k \in 1 .. m}
           Goes(m, run) ==
             /\ run.given = [i \in 1 .. 1 |-> First(m)]
             /\ run.cursor \in Nat /\ run.raised = FALSE
           P == {m \in 0 .. n : Goes(m, Run(sizes, q, n, m))}
<1>1. /\ IsFiniteSet(C) /\ n \in Nat
      /\ \A m \in 1 .. n : q[m] \in C
      /\ \A m, k \in 1 .. n : q[m] = q[k] => m = k
      /\ \A c \in C : \E m \in 1 .. n : q[m] = c
  <2> HIDE DEF q, n
  <2>1. q = CandidatesInOrder(C) /\ n = Cardinality(C)
    BY DEF q, n
  <2>2. /\ IsFiniteSet(C) /\ n \in Nat
        /\ \A m \in 1 .. n : q[m] \in C
        /\ \A m, k \in 1 .. n : q[m] = q[k] => m = k
        /\ \A c \in C : /\ Cardinality(EarlierIn(C)[c]) + 1 \in 1 .. n
                        /\ q[Cardinality(EarlierIn(C)[c]) + 1] = c
    BY <2>1, CandidatesAreListed
  <2> QED
    BY <2>2
<1>2. DOMAIN sizes = 1 .. 1 /\ Len(sizes) = 1 /\ sizes[1] = N
  <2>1. sizes \in Seq(Nat)
    OBVIOUS
  <2> QED
    BY <2>1
<1>0. q = CandidatesInOrder(C) /\ n = Cardinality(C)
  OBVIOUS
<1> HIDE DEF q, n, sizes
<1>3. 0 \in P
  <2>1. Blank(sizes).given = [i \in 1 .. 1 |-> {}] /\ Blank(sizes).cursor = 0
        /\ Blank(sizes).raised = FALSE
    BY <1>2 DEF Blank
  <2>2. First(0) = {}
    OBVIOUS
  <2>3. Run(sizes, q, n, 0) = Blank(sizes)
    BY <1>1, RunSteps
  <2>4. Goes(0, Run(sizes, q, n, 0))
    BY <2>1, <2>2, <2>3
  <2> QED
    BY <1>1, <2>4
<1>4. ASSUME NEW m \in P, m < n PROVE m + 1 \in P
  <2> DEFINE b == Run(sizes, q, n, m)
             c == q[m + 1]
             start == IF b.dept = Department[c] THEN b.cursor ELSE 0
             d(k) == ((start + k) % Len(sizes)) + 1
             free == {k \in 0 .. Len(sizes) - 1 : Cardinality(b.given[d(k)]) < sizes[d(k)]}
             first == CHOOSE k \in free : \A l \in free : k <= l
  <2>0. m \in 0 .. n - 1 /\ m + 1 \in 1 .. n /\ m \in Nat
    BY <1>1, <1>4
  <2>1. Goes(m, b)
    OBVIOUS
  <2>2. Run(sizes, q, n, m + 1) = Give(sizes, b, c)
    <3> HIDE DEF P, First
    <3>1. \A l \in 0 .. n - 1 :
            Run(sizes, q, n, l + 1) = Give(sizes, Run(sizes, q, n, l), q[l + 1])
      <4>1. n \in Nat
        BY <1>1
      <4> QED
        BY <4>1, RunSteps, Zenon
    <3> QED
      BY <2>0, <3>1
  <2> HIDE DEF b
  <2>3. start \in Nat
    BY <2>1
  <2>4. \A k \in 0 .. 0 : d(k) = 1
    <3> HIDE DEF start
    <3>1. (start + 0) % 1 = 0
      BY <2>3
    <3> QED
      BY <1>2, <3>1
  <2>5. Cardinality(First(m)) < N
    <3>1. First(m) \in SUBSET (C \ {c})
      <4> SUFFICES ASSUME NEW k \in 1 .. m PROVE q[k] \in C /\ q[k] # c
        OBVIOUS
      <4>1. k \in 1 .. n /\ k # m + 1
        BY <1>1, <2>0
      <4> QED
        BY <1>1, <2>0, <4>1
    <3>2. c \in C
      BY <1>1, <2>0
    <3>3. IsFiniteSet(C \ {c}) /\ Cardinality(C \ {c}) = n - 1
      BY <1>0, <1>1, <3>2, FS_RemoveElement
    <3>4. Cardinality(First(m)) <= n - 1 /\ Cardinality(First(m)) \in Nat
      <4> HIDE DEF First
      <4> QED
        BY <3>1, <3>3, FS_Subset, FS_CardinalityType
    <3> QED
      BY <1>0, <1>1, <3>4
  <2>6. free = {0}
    <3>1. 0 .. Len(sizes) - 1 = 0 .. 0
      BY <1>2
    <3>2. b.given[1] = First(m)
      BY <2>1
    <3>3. \A k \in 0 .. 0 : Cardinality(b.given[d(k)]) < sizes[d(k)]
      <4> HIDE DEF d, First
      <4> QED
        BY <1>2, <2>4, <2>5, <3>2
    <3>4. free = 0 .. 0
      <4> HIDE DEF d
      <4> QED
        BY <3>1, <3>3
    <3> QED
      BY <3>4
  <2>7. first = 0 /\ d(first) = 1
    <3> HIDE DEF free, d
    <3>1. first = CHOOSE k \in {0} : \A l \in {0} : k <= l
      BY <2>6
    <3>2. first = 0
      <4> HIDE DEF first
      <4> QED
        BY <3>1
    <3> HIDE DEF first
    <3>3. first \in 0 .. 0
      BY <3>2
    <3>4. d(first) = 1
      BY <2>4, <3>3
    <3> QED
      BY <3>2, <3>4
  <2>8. Give(sizes, b, c) =
          [given |-> [b.given EXCEPT ![1] = @ \cup {c}],
           dept |-> Department[c], cursor |-> start + 0 + 1, raised |-> FALSE]
    <3>1. Give(sizes, b, c) =
            IF b.raised \/ free = {} THEN [b EXCEPT !.raised = TRUE]
            ELSE [given |-> [b.given EXCEPT ![d(first)] = @ \cup {c}],
                  dept |-> Department[c], cursor |-> start + first + 1, raised |-> FALSE]
      <4> HIDE DEF P, First
      <4> QED
        BY DEF Give
    <3> HIDE DEF free, d, first, start, c, P, First
    <3> QED
      BY <2>1, <2>6, <2>7, <3>1
  <2>9. First(m + 1) = First(m) \cup {c}
    <3>1. 1 .. m + 1 = (1 .. m) \cup {m + 1}
      BY <2>0
    <3> QED
      BY <3>1
  <2>10. [b.given EXCEPT ![1] = @ \cup {c}] = [i \in 1 .. 1 |-> First(m + 1)]
    <3> HIDE DEF First, c
    <3> QED
      BY <2>1, <2>9
  <2>11. Goes(m + 1, Give(sizes, b, c))
    <3> HIDE DEF First, c, start
    <3> QED
      BY <2>3, <2>8, <2>10
  <2> QED
    BY <1>1, <2>0, <2>2, <2>11
<1>5. n \in P
  <2>1. P \in SUBSET (0 .. n)
    OBVIOUS
  <2> HIDE DEF P
  <2> QED
    BY <1>1, <1>3, <1>4, <2>1, UpTo
<1>6. First(n) = C
  BY <1>1
<1>7. SolverAllocation(sizes, C) = [i \in 1 .. 1 |-> C]
  <2> DEFINE end == Run(sizes, q, n, n)
  <2>1. end.given = [i \in 1 .. 1 |-> C] /\ end.raised = FALSE
    BY <1>5, <1>6
  <2>2. end = Run(sizes, CandidatesInOrder(C), Cardinality(C), Cardinality(C))
    BY <1>0
  <2> HIDE DEF end
  <2> QED
    BY <1>0, <1>1, <1>2, <2>1, <2>2, AllocationRuns
<1> QED
  BY <1>7 DEF sizes

(* Seats that hang together are one component for the solver service. *)
LEMMA OneComponent ==
  ASSUME NEW D, NEW mode, IsComponent(D, HallEdges(D, mode))
  PROVE  SolverComponents(D, mode) = [i \in 1 .. 1 |-> D]
<1> DEFINE es == SolverEdges(D, mode)
           comps == {ComponentOf(s, D, es) : s \in D}
           earlier == [C \in comps |-> {B \in comps : SolverBefore(FirstSeat(B), FirstSeat(C))}]
<1>1. \A s \in D : ComponentOf(s, D, es) = D
  BY DEF IsComponent, SolverEdges, ComponentOf
<1>2. comps = {D}
  BY <1>1 DEF IsComponent
<1>3. Cardinality(comps) = 1
  BY <1>2, FS_Singleton
<1>4. SolverComponents(D, mode) = InOrder(comps, earlier)
  BY DEF SolverComponents
<1>5. earlier[D] \in SUBSET {D}
  BY <1>2
<1> HIDE DEF comps, earlier
<1>6. InOrder(comps, earlier) = [n \in 1 .. 1 |-> CHOOSE x \in {D} : Cardinality(earlier[x]) = n - 1]
  BY <1>2, <1>3 DEF InOrder
<1> QED
  BY <1>4, <1>6

(* What hangs together, has the seats and passes the guard is solved. *)
LEMMA SolvesOneComponent ==
  ASSUME NEW D, IsFiniteSet(D), NEW mode, IsComponent(D, HallEdges(D, mode)),
         NEW C \in SUBSET Candidates, Cardinality(C) <= Cardinality(D),
         Ceiling \in Nat, Cardinality(C) <= Ceiling,
         NEW action, ~(action = "reject" /\ Guard(C, Cardinality(D)) = "IMBALANCE_RISK")
  PROVE  Preflight(D, mode, action, C) = "solve"
<1> DEFINE N == Cardinality(D)
           ds == SolverDomains(D, mode, C)
<1>1. N \in Nat /\ Cardinality(C) \in Nat /\ IsFiniteSet(C)
  BY FS_CardinalityType, FS_Subset, CandidateAssumption
<1>2. SolverComponents(D, mode) = [i \in 1 .. 1 |-> D]
  BY OneComponent
<1> HIDE DEF N
<1>3. SolverAllocation([i \in 1 .. 1 |-> N], C) = [i \in 1 .. 1 |-> C]
  BY <1>1, OneDomainTakesAll DEF N
<1>4. ds = [i \in 1 .. 1 |-> [seats |-> D, candidates |-> C]]
  <2> DEFINE comps == SolverComponents(D, mode)
             sizes == [i \in DOMAIN comps |-> Cardinality(comps[i])]
             given == SolverAllocation(sizes, C)
  <2>1. ds = [i \in DOMAIN comps |-> [seats |-> comps[i], candidates |-> given[i]]]
    BY DEF SolverDomains
  <2> HIDE DEF comps, ds
  <2>2. comps = [i \in 1 .. 1 |-> D]
    BY <1>2 DEF comps
  <2>3. sizes = [i \in 1 .. 1 |-> N]
    BY <2>2 DEF N
  <2>4. given = [i \in 1 .. 1 |-> C]
    BY <1>3, <2>3
  <2> HIDE DEF given
  <2> QED
    BY <2>1, <2>2, <2>4
<1> HIDE DEF ds
<1>5. Len(ds) = 1 /\ ds[1].candidates = C /\ ds[1].seats = D
  <2>1. ds \in Seq({[seats |-> D, candidates |-> C]})
    BY <1>4
  <2> QED
    BY <1>4, <2>1
<1>6. Guard(C, N) # "INSUFFICIENT_CAPACITY"
  <2>1. ~(Cardinality(C) > N)
    BY <1>1 DEF N
  <2> QED
    BY <2>1 DEF Guard
<1>7. ~(Cardinality(C) > Ceiling)
  BY <1>1
<1>8. ~(Guard(C, N) = "IMBALANCE_RISK" /\ action = "reject")
  BY DEF N
<1> QED
  BY <1>5, <1>6, <1>7, <1>8 DEF Preflight, CompositionReport, ds, N

(* A list without repetitions has as many elements as places. *)
LEMMA ListCounts ==
  ASSUME NEW n \in Nat, NEW f, \A a, b \in 1 .. n : f[a] = f[b] => a = b
  PROVE  Cardinality({f[i] : i \in 1 .. n}) = n
<1> DEFINE T == {f[i] : i \in 1 .. n}
           g == [i \in 1 .. n |-> f[i]]
<1>1. /\ g \in [1 .. n -> T]
      /\ \A a, b \in 1 .. n : g[a] = g[b] => a = b
      /\ \A x \in T : \E a \in 1 .. n : g[a] = x
  OBVIOUS
<1>2. IsFiniteSet(1 .. n) /\ Cardinality(1 .. n) = n
  BY FS_Interval
<1> HIDE DEF g, T
<1>3. g \in Injection(1 .. n, T) /\ g \in Surjection(1 .. n, T)
  BY <1>1, Fun_IsInj, Fun_IsSurj
<1>4. ExistsBijection(1 .. n, T)
  BY <1>3 DEF Bijection, ExistsBijection
<1> QED
  BY <1>2, <1>4, FS_Bijection DEF T
-----------------------------------------------------------------------------
(* The service's domains. *)

(* A component is closed, and that of each of its seats. *)
LEMMA Components ==
  ASSUME NEW S, NEW mode, NEW es, es = SolverEdges(S, mode)
  PROVE  /\ \A s \in S : /\ s \in ComponentOf(s, S, es) /\ ComponentOf(s, S, es) \subseteq S
                         /\ Closed(ComponentOf(s, S, es), es)
         /\ \A s, t \in S : t \in ComponentOf(s, S, es)
                              => ComponentOf(t, S, es) = ComponentOf(s, S, es)
<1> DEFINE K(s) == ComponentOf(s, S, es)
<1>1. \A s \in S : s \in K(s) /\ K(s) \in SUBSET S
  BY DEF ComponentOf
<1>2. \A e \in es : e[1] \in S /\ e[2] \in S
  BY DEF SolverEdges, HallEdges
<1>3. \A s \in S : Closed(K(s), es)
  BY <1>2 DEF ComponentOf, Closed
<1>4. \A s \in S : \A C \in SUBSET S : Closed(C, es) /\ s \in C => K(s) \subseteq C
  BY DEF ComponentOf
<1> HIDE DEF K
<1>5. \A s, t \in S : t \in K(s) => K(t) \subseteq K(s)
  BY <1>1, <1>3, <1>4
<1>6. ASSUME NEW s \in S, NEW t \in S, t \in K(s) PROVE s \in K(t)
  <2> SUFFICES ASSUME s \notin K(t) PROVE FALSE
    OBVIOUS
  <2>1. Closed(K(s) \ K(t), es)
    <3>1. Closed(K(s), es) /\ Closed(K(t), es)
      BY <1>3
    <3> QED
      BY <3>1 DEF Closed
  <2>2. K(s) \ K(t) \in SUBSET S /\ s \in K(s) \ K(t)
    BY <1>1
  <2>3. t \in K(s) \ K(t)
    BY <1>4, <1>6, <2>1, <2>2
  <2> QED
    BY <1>1, <2>3
<1>7. \A s, t \in S : t \in K(s) => K(t) = K(s)
  BY <1>5, <1>6
<1> QED
  BY <1>1, <1>3, <1>7 DEF K

(* The n sets of seats divide S, and no edge leads from one to another. *)
Divide(comps, n, S, es) ==
  /\ comps \in [1 .. n -> SUBSET S]
  /\ \A i \in 1 .. n : Closed(comps[i], es)
  /\ \A i, j \in 1 .. n : i # j => comps[i] \cap comps[j] = {}
  /\ \A s \in S : \E i \in 1 .. n : s \in comps[i]

(* The components are listed once each. *)
LEMMA ComponentsDivide ==
  ASSUME NEW S \in SUBSET AllSeats, IsFiniteSet(S), NEW mode
  PROVE  \E n \in Nat : Divide(SolverComponents(S, mode), n, S, SolverEdges(S, mode))
<1> DEFINE comps == SolverComponents(S, mode)
           es == SolverEdges(S, mode)
           all == {ComponentOf(s, S, es) : s \in S}
           earlier == [C \in all |-> {B \in all : SolverBefore(FirstSeat(B), FirstSeat(C))}]
           n == Cardinality(all)
<1>1. /\ \A C \in all : C \in SUBSET S /\ C # {} /\ Closed(C, es)
      /\ \A B, C \in all : B # C => B \cap C = {}
      /\ \A s \in S : \E C \in all : s \in C
  BY Components
<1>2. IsFiniteSet(all) /\ n \in Nat
  <2>1. IsFiniteSet(all)
    <3> DEFINE f == [s \in S |-> ComponentOf(s, S, es)]
    <3>1. f \in [S -> all] /\ \A C \in all : \E s \in S : f[s] = C
      OBVIOUS
    <3> HIDE DEF all, f
    <3> QED
      BY <3>1, Fun_IsSurj, FS_Surjection
  <2> QED
    BY <2>1, FS_CardinalityType
<1>3. comps = InOrder(all, earlier)
  BY DEF SolverComponents
<1> HIDE DEF all, es, comps
<1>4. \A C \in all : FirstSeat(C) \in C /\ FirstSeat(C) \in AllSeats
  <2> SUFFICES ASSUME NEW C \in all PROVE FirstSeat(C) \in C /\ FirstSeat(C) \in AllSeats
    OBVIOUS
  <2>1. C \in SUBSET AllSeats /\ IsFiniteSet(C) /\ C # {}
    BY <1>1, FS_Subset
  <2> QED
    BY <2>1, FirstSeatIsFirst
<1>5. Linear(all, earlier)
  <2>1. \A B, C \in all : FirstSeat(B) = FirstSeat(C) => B = C
    BY <1>1, <1>4
  <2> QED
    BY <1>4, <2>1, SolverSortsSeats DEF Linear
<1> HIDE DEF earlier
<1>6. /\ \A C \in all : /\ Cardinality(earlier[C]) + 1 \in 1 .. n
                        /\ comps[Cardinality(earlier[C]) + 1] = C
      /\ \A m \in 1 .. n : comps[m] \in all /\ Cardinality(earlier[comps[m]]) = m - 1
  BY <1>2, <1>3, <1>5, Listing
<1>7. comps = [i \in 1 .. n |-> comps[i]]
  BY <1>3 DEF InOrder
<1> HIDE DEF n
<1>8. \A i, j \in 1 .. n : i # j => comps[i] # comps[j]
  <2> SUFFICES ASSUME NEW i \in 1 .. n, NEW j \in 1 .. n, comps[i] = comps[j] PROVE i = j
    OBVIOUS
  <2>1. i - 1 = j - 1
    BY <1>6, Zenon
  <2> QED
    BY <1>2, <2>1
<1>9. comps \in [1 .. n -> SUBSET S]
  BY <1>1, <1>6, <1>7
<1>10. n \in Nat
  BY <1>2
<1>11. \A i, j \in 1 .. n : i # j => comps[i] \cap comps[j] = {}
  BY <1>1, <1>6, <1>8
<1>12. \A s \in S : \E i \in 1 .. n : s \in comps[i]
  BY <1>1, <1>6
<1>13. \A i \in 1 .. n : Closed(comps[i], es)
  BY <1>1, <1>6
<1>14. Divide(comps, n, S, es)
  BY <1>9, <1>11, <1>12, <1>13 DEF Divide
<1> QED
  BY <1>10, <1>14 DEF es, comps

-----------------------------------------------------------------------------
(* The service's allocation. *)

(* Round the domains once, every domain has its turn. *)
LEMMA EveryTurn ==
  ASSUME NEW n \in Nat, NEW start \in Nat, NEW i \in 1 .. n
  PROVE  \E k \in 0 .. n - 1 : ((start + k) % n) + 1 = i
<1> DEFINE r == start % n
           q == start \div n
<1>1. n # 0 /\ r \in 0 .. n - 1 /\ q \in Nat /\ start = n * q + r
  OBVIOUS
<1> HIDE DEF r, q
<1>2. CASE i - 1 >= r
  <2>1. start + (i - 1 - r) = n * q + (i - 1)
    BY <1>1
  <2>2. (n * q + (i - 1)) % n = i - 1
    BY <1>1
  <2>3. i - 1 - r \in 0 .. n - 1
    BY <1>1, <1>2
  <2>4. ((start + (i - 1 - r)) % n) + 1 = i
    BY <2>1, <2>2
  <2> QED
    BY <2>3, <2>4
<1>3. CASE ~(i - 1 >= r)
  <2>1. start + (n + i - 1 - r) = n * (q + 1) + (i - 1)
    BY <1>1
  <2>2. (n * (q + 1) + (i - 1)) % n = i - 1
    BY <1>1
  <2>3. n + i - 1 - r \in 0 .. n - 1
    BY <1>1, <1>3
  <2>4. ((start + (n + i - 1 - r)) % n) + 1 = i
    BY <2>1, <2>2
  <2> QED
    BY <2>3, <2>4
<1> QED
  BY <1>2, <1>3

RunFields == {"given", "dept", "cursor", "raised"}

(* The candidate has gone to a domain with a free seat, or the allocation
   has raised, and then there was none. *)
Gave(g, b, c, n, sizes) ==
  /\ DOMAIN g = RunFields
  /\ \/ /\ g.raised = TRUE /\ g.given = b.given /\ g.cursor = b.cursor
        /\ b.raised = TRUE \/ \A i \in 1 .. n : ~(Cardinality(b.given[i]) < sizes[i])
     \/ /\ g.raised = FALSE /\ b.raised = FALSE /\ g.cursor \in Nat
        /\ \E i \in 1 .. n : /\ Cardinality(b.given[i]) < sizes[i]
                             /\ g.given = [b.given EXCEPT ![i] = @ \cup {c}]

(* The first domain from the cursor on that has a free seat takes it. *)
LEMMA GiveGives ==
  ASSUME NEW n \in Nat, NEW sizes, DOMAIN sizes = 1 .. n, Len(sizes) = n,
         NEW c, NEW b, DOMAIN b = RunFields,
         b.cursor \in Nat, b.raised \in {TRUE, FALSE}
  PROVE  Gave(Give(sizes, b, c), b, c, n, sizes)
<1> DEFINE g == Give(sizes, b, c)
           start == IF b.dept = Department[c] THEN b.cursor ELSE 0
           d(k) == ((start + k) % Len(sizes)) + 1
           free == {k \in 0 .. Len(sizes) - 1 : Cardinality(b.given[d(k)]) < sizes[d(k)]}
           first == CHOOSE k \in free : \A l \in free : k <= l
<1>1. g = IF b.raised \/ free = {} THEN [b EXCEPT !.raised = TRUE]
          ELSE [given |-> [b.given EXCEPT ![d(first)] = @ \cup {c}],
                dept |-> Department[c], cursor |-> start + first + 1, raised |-> FALSE]
  BY DEF Give
<1> HIDE DEF g
<1>2. start \in Nat
  OBVIOUS
<1> HIDE DEF start
<1>3. \A i \in 1 .. n : \E k \in 0 .. n - 1 : d(k) = i
  BY <1>2, EveryTurn
<1>4. ASSUME b.raised = TRUE \/ free = {} PROVE Gave(g, b, c, n, sizes)
  <2>1. g = [b EXCEPT !.raised = TRUE]
    BY <1>1, <1>4
  <2>2. ASSUME free = {} PROVE \A i \in 1 .. n : ~(Cardinality(b.given[i]) < sizes[i])
    BY <1>3, <2>2
  <2>3. g.raised = TRUE /\ g.given = b.given /\ g.cursor = b.cursor /\ DOMAIN g = RunFields
    <3> HIDE DEF free, first, d
    <3> QED
      BY <2>1 DEF RunFields
  <2> HIDE DEF free, first, d
  <2> QED
    BY <1>4, <2>2, <2>3 DEF Gave
<1>5. ASSUME b.raised = FALSE, free # {} PROVE Gave(g, b, c, n, sizes)
  <2>1. free \in SUBSET Nat
    OBVIOUS
  <2>2. \E k \in free : \A l \in free : k <= l
    <3> HIDE DEF free
    <3> QED
      BY <1>5, <2>1, LeastNatural
  <2>3. first \in free
    <3> HIDE DEF free
    <3> QED
      BY <2>2
  <2>4. first \in 0 .. n - 1 /\ Cardinality(b.given[d(first)]) < sizes[d(first)]
    BY <2>3
  <2> HIDE DEF first
  <2>5. d(first) \in 1 .. n
    BY <1>2, <2>4
  <2>6. g = [given |-> [b.given EXCEPT ![d(first)] = @ \cup {c}],
             dept |-> Department[c], cursor |-> start + first + 1, raised |-> FALSE]
    BY <1>1, <1>5 DEF first
  <2>7. start + first + 1 \in Nat
    BY <1>2, <2>4
  <2> DEFINE i == d(first)
             given == [b.given EXCEPT ![i] = @ \cup {c}]
  <2>8. i \in 1 .. n /\ Cardinality(b.given[i]) < sizes[i]
    BY <2>4, <2>5
  <2>9. /\ g.raised = FALSE /\ b.raised = FALSE /\ g.cursor \in Nat /\ g.given = given
        /\ DOMAIN g = RunFields
    <3> HIDE DEF d, free
    <3> QED
      BY <1>5, <2>6, <2>7 DEF RunFields
  <2> HIDE DEF d, free, i
  <2> QED
    BY <2>8, <2>9 DEF Gave
<1>6. Gave(g, b, c, n, sizes)
  <2> HIDE DEF free, first, d
  <2> QED
    BY <1>4, <1>5
<1> QED
  BY <1>6 DEF g

(* The domains share the candidates out: all of them, which is so where there
   are seats enough, or none. *)
Shares(given, n, S, C) ==
  /\ given \in [1 .. n -> SUBSET C]
  /\ \A i, j \in 1 .. n : i # j => given[i] \cap given[j] = {}
  /\ \/ \A c \in C : \E i \in 1 .. n : c \in given[i]
     \/ /\ \A i \in 1 .. n : given[i] = {}
        /\ ~(Cardinality(C) <= Cardinality(S))

(* The allocation is such a share, however many candidates there are. *)
LEMMA AllocationShares ==
  ASSUME NEW n \in Nat, NEW S, IsFiniteSet(S), NEW es, NEW comps, Divide(comps, n, S, es),
         NEW C \in SUBSET Candidates
  PROVE  Shares(SolverAllocation([i \in 1 .. n |-> Cardinality(comps[i])], C), n, S, C)
<1> DEFINE sizes == [i \in 1 .. n |-> Cardinality(comps[i])]
           given == SolverAllocation(sizes, C)
           q == CandidatesInOrder(C)
           N == Cardinality(C)
           Fits == Cardinality(C) <= Cardinality(S)
           First(m) == {q[k] : k \in 1 .. m}
           Goes(m, run) ==
             /\ run.given \in [1 .. n -> SUBSET First(m)]
             /\ \A i, j \in 1 .. n : i # j => run.given[i] \cap run.given[j] = {}
             /\ DOMAIN run = RunFields /\ run.cursor \in Nat /\ run.raised \in {TRUE, FALSE}
             /\ run.raised = FALSE => \A c \in First(m) : \E i \in 1 .. n : c \in run.given[i]
             /\ Fits => run.raised = FALSE
           P == {m \in 0 .. N : Goes(m, Run(sizes, q, N, m))}
<1>1. /\ IsFiniteSet(C) /\ N \in Nat
      /\ \A m \in 1 .. N : q[m] \in C
      /\ \A m, k \in 1 .. N : q[m] = q[k] => m = k
      /\ \A c \in C : \E m \in 1 .. N : q[m] = c
  <2> HIDE DEF q, N
  <2>1. q = CandidatesInOrder(C) /\ N = Cardinality(C)
    BY DEF q, N
  <2>2. /\ IsFiniteSet(C) /\ N \in Nat
        /\ \A m \in 1 .. N : q[m] \in C
        /\ \A m, k \in 1 .. N : q[m] = q[k] => m = k
        /\ \A c \in C : /\ Cardinality(EarlierIn(C)[c]) + 1 \in 1 .. N
                        /\ q[Cardinality(EarlierIn(C)[c]) + 1] = c
    BY <2>1, CandidatesAreListed
  <2> QED
    BY <2>2
<1>9. comps \in [1 .. n -> SUBSET S] /\ \A s \in S : \E i \in 1 .. n : s \in comps[i]
  BY DEF Divide
<1>2. /\ DOMAIN sizes = 1 .. n /\ Len(sizes) = n
      /\ \A i \in 1 .. n : sizes[i] = Cardinality(comps[i]) /\ sizes[i] \in Nat
  <2>1. \A i \in 1 .. n : Cardinality(comps[i]) \in Nat
    <3> SUFFICES ASSUME NEW i \in 1 .. n PROVE Cardinality(comps[i]) \in Nat
      OBVIOUS
    <3>1. comps[i] \in SUBSET S
      BY <1>9
    <3> QED
      BY <3>1, FS_Subset, FS_CardinalityType
  <2>2. sizes \in Seq(Nat)
    BY <2>1
  <2> QED
    BY <2>1, <2>2
<1>0. q = CandidatesInOrder(C) /\ N = Cardinality(C)
  OBVIOUS
<1> HIDE DEF q, N, sizes, given
<1>3. 0 \in P
  <2>1. /\ Blank(sizes).given = [i \in 1 .. n |-> {}] /\ Blank(sizes).cursor = 0
        /\ Blank(sizes).raised = FALSE
    BY <1>2 DEF Blank
  <2>2. First(0) = {}
    OBVIOUS
  <2>3. Run(sizes, q, N, 0) = Blank(sizes)
    BY <1>1, RunSteps
  <2>4. Goes(0, Blank(sizes))
    <3> DEFINE b == Blank(sizes)
    <3>0. DOMAIN b = RunFields
      BY DEF Blank, RunFields
    <3>1. b.given = [i \in 1 .. n |-> {}] /\ b.cursor = 0 /\ b.raised = FALSE
      BY <2>1
    <3> HIDE DEF First, Fits, b
    <3>2. b.given \in [1 .. n -> SUBSET First(0)]
      BY <3>1
    <3>3. \A i, j \in 1 .. n : i # j => b.given[i] \cap b.given[j] = {}
      BY <3>1
    <3>4. b.cursor \in Nat
      BY <3>1
    <3> QED
      BY <2>2, <3>0, <3>1, <3>2, <3>3, <3>4 DEF b
  <2>5. Goes(0, Run(sizes, q, N, 0))
    BY <2>3, <2>4
  <2> HIDE DEF Goes
  <2> QED
    BY <1>1, <2>5
<1>4. ASSUME NEW m \in P, m < N PROVE m + 1 \in P
  <2> DEFINE b == Run(sizes, q, N, m)
             c == q[m + 1]
             g == Give(sizes, b, c)
  <2>0. m \in 0 .. N - 1 /\ m + 1 \in 1 .. N /\ m \in Nat
    BY <1>1, <1>4
  <2>1. Goes(m, b)
    OBVIOUS
  <2>2. Run(sizes, q, N, m + 1) = g
    <3> HIDE DEF P, First
    <3>1. \A l \in 0 .. N - 1 :
            Run(sizes, q, N, l + 1) = Give(sizes, Run(sizes, q, N, l), q[l + 1])
      <4>1. N \in Nat
        BY <1>1
      <4> QED
        BY <4>1, RunSteps, Zenon
    <3> QED
      BY <2>0, <3>1
  <2> HIDE DEF b, P
  <2>3. c \in C /\ c \notin First(m) /\ First(m) \in SUBSET (C \ {c})
    <3>1. ASSUME NEW k \in 1 .. m PROVE q[k] \in C /\ q[k] # c
      <4>1. k \in 1 .. N /\ k # m + 1
        BY <1>1, <2>0
      <4> QED
        BY <1>1, <2>0, <4>1
    <3> QED
      BY <1>1, <2>0, <3>1
  <2>4. First(m + 1) = First(m) \cup {c}
    <3>1. 1 .. m + 1 = (1 .. m) \cup {m + 1}
      BY <2>0
    <3> QED
      BY <3>1
  <2> HIDE DEF First, c, g
  <2>5. Gave(g, b, c, n, sizes)
    <3>1. /\ b.cursor \in Nat /\ b.raised \in {TRUE, FALSE}
          /\ DOMAIN b = RunFields
          /\ DOMAIN sizes = 1 .. n /\ Len(sizes) = n
      BY <1>2, <2>1
    <3> HIDE DEF Goes
    <3> QED
      BY <3>1, GiveGives DEF g
  <2>10. DOMAIN g = RunFields
    BY <2>5 DEF Gave
  <2>6. CASE /\ g.raised = TRUE /\ g.given = b.given /\ g.cursor = b.cursor
             /\ b.raised = TRUE \/ \A i \in 1 .. n : ~(Cardinality(b.given[i]) < sizes[i])
    <3>1. ~Fits
      <4> SUFFICES ASSUME Fits PROVE FALSE
        OBVIOUS
      <4>1. IsFiniteSet(C \ {c}) /\ Cardinality(C \ {c}) = N - 1
        BY <1>0, <1>1, <2>3, FS_RemoveElement
      <4>2. /\ IsFiniteSet(First(m)) /\ Cardinality(First(m)) \in Nat
            /\ Cardinality(First(m)) <= N - 1
        BY <2>3, <4>1, FS_Subset, FS_CardinalityType
      <4>3. ASSUME NEW i \in 1 .. n PROVE Cardinality(comps[i]) <= Cardinality(b.given[i])
        <5>1. b.given[i] \in SUBSET First(m)
          BY <2>1
        <5>2. Cardinality(b.given[i]) \in Nat
          BY <4>2, <5>1, FS_Subset, FS_CardinalityType
        <5>3. ~(Cardinality(b.given[i]) < sizes[i])
          BY <2>1, <2>6
        <5> QED
          BY <1>2, <5>2, <5>3
      <4>4. Cardinality(S) <= Cardinality(First(m))
        <5> DEFINE A == b.given
        <5>1. /\ A \in [1 .. n -> SUBSET First(m)]
              /\ \A i, j \in 1 .. n : i # j => A[i] \cap A[j] = {}
              /\ \A i \in 1 .. n : Cardinality(comps[i]) <= Cardinality(A[i])
          BY <2>1, <4>3
        <5> HIDE DEF A
        <5> QED
          BY <1>9, <4>2, <5>1, FullDomains
      <4>5. Cardinality(S) \in Nat
        BY FS_CardinalityType
      <4> QED
        BY <1>0, <1>1, <4>2, <4>4, <4>5
    <3>2. Goes(m + 1, g)
      <4> HIDE DEF Fits
      <4> QED
        BY <2>1, <2>4, <2>6, <2>10, <3>1
    <3> HIDE DEF Goes
    <3> QED
      BY <1>1, <2>0, <2>2, <3>2 DEF P
  <2>7. CASE /\ g.raised = FALSE /\ b.raised = FALSE /\ g.cursor \in Nat
             /\ \E i \in 1 .. n : /\ Cardinality(b.given[i]) < sizes[i]
                                  /\ g.given = [b.given EXCEPT ![i] = @ \cup {c}]
    <3>1. PICK i \in 1 .. n : g.given = [b.given EXCEPT ![i] = @ \cup {c}]
      BY <2>7
    <3>2. /\ g.given[i] = b.given[i] \cup {c}
          /\ \A j \in 1 .. n : j # i => g.given[j] = b.given[j]
          /\ g.given = [j \in 1 .. n |-> g.given[j]]
      BY <2>1, <3>1
    <3>3. g.given \in [1 .. n -> SUBSET First(m + 1)]
      BY <2>1, <2>4, <3>2
    <3>4. \A j, k \in 1 .. n : j # k => g.given[j] \cap g.given[k] = {}
      BY <2>1, <2>3, <3>2
    <3>5. \A d \in First(m + 1) : \E j \in 1 .. n : d \in g.given[j]
      BY <2>1, <2>4, <2>7, <3>2
    <3>6. Goes(m + 1, g)
      <4> HIDE DEF Fits
      <4> QED
        BY <2>7, <2>10, <3>3, <3>4, <3>5
    <3> HIDE DEF Goes
    <3> QED
      BY <1>1, <2>0, <2>2, <3>6 DEF P
  <2> QED
    BY <2>5, <2>6, <2>7 DEF Gave
<1>5. N \in P
  <2>1. P \in SUBSET (0 .. N) /\ N \in Nat
    BY <1>1
  <2> HIDE DEF P, First, Goes
  <2>2. \A m \in 0 .. N : m \in P
    BY <1>3, <1>4, <2>1, UpTo
  <2> QED
    BY <2>1, <2>2
<1>6. First(N) = C
  BY <1>1
<1> DEFINE end == Run(sizes, q, N, N)
<1>7. Goes(N, end)
  BY <1>5
<1>8. given = IF end.raised THEN [i \in 1 .. n |-> {}] ELSE end.given
  <2>1. end = Run(sizes, CandidatesInOrder(C), Cardinality(C), Cardinality(C))
    BY <1>0
  <2> HIDE DEF end
  <2>2. Cardinality(C) \in Nat /\ DOMAIN sizes = 1 .. n
    BY <1>0, <1>1, <1>2
  <2>3. given = IF end.raised THEN [i \in DOMAIN sizes |-> {}] ELSE end.given
    BY <2>1, <2>2, AllocationRuns DEF given
  <2> QED
    BY <2>2, <2>3
<1> HIDE DEF end, First
<1>10. Shares(given, n, S, C)
  BY <1>6, <1>7, <1>8 DEF Shares
<1> QED
  BY <1>10 DEF given, sizes

(* The n domains divide the seats and share the candidates. *)
DomainsOf(ds, n, S, es, C) ==
  /\ Len(ds) = n /\ DOMAIN ds = 1 .. n
  /\ Divide([i \in 1 .. n |-> ds[i].seats], n, S, es)
  /\ Shares([i \in 1 .. n |-> ds[i].candidates], n, S, C)

(* partition_request yields such domains. *)
LEMMA DomainsDivide ==
  ASSUME NEW S \in SUBSET AllSeats, IsFiniteSet(S), NEW mode, NEW C \in SUBSET Candidates,
         NEW ds, ds = SolverDomains(S, mode, C)
  PROVE  \E n \in Nat : DomainsOf(ds, n, S, SolverEdges(S, mode), C)
<1> DEFINE comps == SolverComponents(S, mode)
           sizes == [i \in DOMAIN comps |-> Cardinality(comps[i])]
           given == SolverAllocation(sizes, C)
<1>1. ds = [i \in DOMAIN comps |-> [seats |-> comps[i], candidates |-> given[i]]]
  BY DEF SolverDomains
<1>2. PICK n \in Nat : Divide(comps, n, S, SolverEdges(S, mode))
  BY ComponentsDivide
<1> HIDE DEF comps
<1>3. DOMAIN comps = 1 .. n /\ comps = [i \in 1 .. n |-> comps[i]]
  BY <1>2 DEF Divide
<1>4. Shares(given, n, S, C)
  <2>1. sizes = [i \in 1 .. n |-> Cardinality(comps[i])]
    BY <1>3
  <2> HIDE DEF sizes
  <2>2. given = SolverAllocation([i \in 1 .. n |-> Cardinality(comps[i])], C)
    BY <2>1
  <2> HIDE DEF given
  <2> QED
    BY <1>2, <2>2, AllocationShares
<1> HIDE DEF given
<1>5. given \in [1 .. n -> SUBSET C] /\ comps \in [1 .. n -> SUBSET S]
  BY <1>2, <1>4 DEF Shares, Divide
<1>6. ds = [i \in 1 .. n |-> [seats |-> comps[i], candidates |-> given[i]]]
  BY <1>1, <1>3
<1>7. Len(ds) = n
  <2>1. ds \in Seq([seats : SUBSET S, candidates : SUBSET C])
    BY <1>5, <1>6
  <2> QED
    BY <1>6, <2>1
<1>8. [i \in 1 .. n |-> ds[i].seats] = comps /\ [i \in 1 .. n |-> ds[i].candidates] = given
  BY <1>5, <1>6
<1> QED
  BY <1>2, <1>4, <1>6, <1>7, <1>8 DEF DomainsOf

-----------------------------------------------------------------------------
(* The model of one domain. *)

(* The model and the validator agree: nobody in a placement violates the
   policy, and its cost is the same within the domain and on the whole graph. *)
LEMMA PlacementsObey ==
  ASSUME NEW policy, NEW C, NEW S, NEW es, NEW p \in Placements(policy, C, S, es)
  PROVE  /\ p \in [C -> S] /\ IsInjective(p)
         /\ Violations(policy, p, es) = {}
         /\ Cost(p, DomainEdges(S, es)) = Cost(p, es)
<1>1. /\ p \in [C -> S] /\ IsInjective(p)
      /\ \A e \in DomainEdges(S, es) :
           \A c \in Inhabitant(p, e[1]), d \in Inhabitant(p, e[2]) : ~Forbidden(policy, c, d)
  BY DEF Placements
<1>2. \A e \in es : \A c \in Inhabitant(p, e[1]), d \in Inhabitant(p, e[2]) :
        e \in DomainEdges(S, es)
  BY <1>1 DEF Inhabitant, DomainEdges
<1>3. \A e \in es : \A c \in Inhabitant(p, e[1]), d \in Inhabitant(p, e[2]) :
        ~Forbidden(policy, c, d)
  BY <1>1, <1>2
<1>4. Violations(policy, p, es) = {}
  BY <1>3 DEF Violations, Forbidden, CohortOf
<1>5. SameDepartment(p, DomainEdges(S, es)) = SameDepartment(p, es)
  BY <1>2 DEF SameDepartment, DomainEdges
<1> QED
  BY <1>1, <1>4, <1>5 DEF Cost

(* What a result of _solve_domain says of its domain. *)
Sound(r, policy, C, S, es) ==
  /\ r.status \in {"OPTIMAL", "FEASIBLE", "INFEASIBLE", "ERROR"}
  /\ r.code \notin {"ERR_INVALID_ASSIGNMENT", "ERR_VALIDATOR_MISMATCH"}
  /\ r.status \in {"OPTIMAL", "FEASIBLE"} => r.place \in Placements(policy, C, S, es)
  /\ r.status = "INFEASIBLE" => Placements(policy, C, S, es) = {}
  /\ r.status = "OPTIMAL" =>
       \A q \in Placements(policy, C, S, es) : Cost(r.place, es) <= Cost(q, es)

(* Nobody is placed at no cost. *)
LEMMA NobodyIsPlaced ==
  ASSUME NEW policy, NEW S, NEW es
  PROVE  Sound(Result("OPTIMAL", NoPlace, 0, "none"), policy, {}, S, es)
<1> DEFINE sols == Placements(policy, {}, S, es)
<1>1. NoPlace \in [{} -> S]
  BY DEF NoPlace
<1>2. \A q \in [{} -> S] : /\ \A s : Inhabitant(q, s) = {}
                           /\ IsInjective(q) /\ Cost(q, es) = 0
  <2> SUFFICES ASSUME NEW q \in [{} -> S]
               PROVE  (\A s : Inhabitant(q, s) = {}) /\ IsInjective(q) /\ Cost(q, es) = 0
    OBVIOUS
  <2>1. \A s : Inhabitant(q, s) = {}
    BY DEF Inhabitant
  <2>2. SameDepartment(q, es) = {}
    BY <2>1 DEF SameDepartment
  <2> QED
    BY <2>1, <2>2, FS_EmptySet DEF IsInjective, Cost
<1>3. NoPlace \in sols
  BY <1>1, <1>2 DEF Placements
<1>4. \A q \in sols : q \in [{} -> S]
  BY DEF Placements
<1>5. \A q \in sols : Cost(NoPlace, es) <= Cost(q, es)
  BY <1>1, <1>2, <1>4
<1> QED
  BY <1>3, <1>5 DEF Sound, Result

(* What CP-SAT's answer becomes is sound, because the answer is true of the
   model, and the validator finds nothing in a placement. *)
LEMMA CheckedIsSound ==
  ASSUME NEW policy, NEW C, NEW S, NEW es, NEW a \in CpSat(policy, C, S, es)
  PROVE  Sound(Checked(policy, S, es, a), policy, C, S, es)
<1> DEFINE sols == Placements(policy, C, S, es)
           best == Cheapest(sols, DomainEdges(S, es))
           r == Checked(policy, S, es, a)
<1>1. \/ a.status = "OPTIMAL" /\ a.place \in best
      \/ a.status = "FEASIBLE" /\ a.place \in sols
      \/ a.status = "UNKNOWN"
      \/ a.status = "INFEASIBLE" /\ sols = {}
  BY DEF CpSat
<1>2. CASE a.status = "UNKNOWN"
  BY <1>2 DEF Sound, Checked, Classified, Result
<1>3. CASE a.status = "INFEASIBLE" /\ sols = {}
  BY <1>3 DEF Sound, Checked, Classified, Result
<1>4. CASE a.status \in {"OPTIMAL", "FEASIBLE"} /\ a.place \in sols
           /\ (a.status = "OPTIMAL" => a.place \in best)
  <2>1. /\ Violations(policy, a.place, es) = {}
        /\ Cost(a.place, DomainEdges(S, es)) = Cost(a.place, es)
    BY <1>4, PlacementsObey
  <2>2. r = Result(a.status, a.place, Cost(a.place, es), "none")
    BY <1>4, <2>1 DEF Checked, Classified
  <2>3. ASSUME a.status = "OPTIMAL", NEW q \in sols PROVE Cost(a.place, es) <= Cost(q, es)
    <3>1. Cost(a.place, DomainEdges(S, es)) <= Cost(q, DomainEdges(S, es))
      BY <1>4, <2>3 DEF Cheapest
    <3>2. Cost(q, DomainEdges(S, es)) = Cost(q, es)
      BY PlacementsObey
    <3> QED
      BY <2>1, <3>1, <3>2
  <2> QED
    BY <1>4, <2>2, <2>3 DEF Sound, Result
<1>5. best \subseteq sols
  BY DEF Cheapest
<1> QED
  BY <1>1, <1>2, <1>3, <1>4, <1>5

(* Whatever _solve_domain returns is sound. *)
LEMMA ResultsAreSound ==
  ASSUME NEW policy, NEW C, NEW S, NEW es, NEW r \in DomainResults(policy, C, S, es)
  PROVE  Sound(r, policy, C, S, es)
<1>1. CASE C = {}
  <2>1. r = Result("OPTIMAL", NoPlace, 0, "none")
    BY <1>1 DEF DomainResults
  <2> QED
    BY <1>1, <2>1, NobodyIsPlaced
<1>2. CASE C # {} /\ BuildFailure(policy, C) = "ValueError"
  <2>1. r = Result("ERROR", NoPlace, 0, "ERR_INVALID_POLICY_CONFIGURATION")
    BY <1>2 DEF DomainResults
  <2> QED
    BY <2>1 DEF Sound, Result
<1>3. CASE C # {} /\ BuildFailure(policy, C) = "KeyError"
  BY <1>3 DEF DomainResults
<1>4. CASE C # {} /\ BuildFailure(policy, C) \notin {"ValueError", "KeyError"}
  <2>1. \E a \in CpSat(policy, C, S, es) : r = Checked(policy, S, es, a)
    BY <1>4 DEF DomainResults
  <2> QED
    BY <2>1, CheckedIsSound
<1> QED
  BY <1>1, <1>2, <1>3, <1>4

(* More candidates than seats cannot be placed. *)
LEMMA NoRoom ==
  ASSUME NEW C, NEW S, IsFiniteSet(S), Cardinality(C) > Cardinality(S), IsFiniteSet(C),
         NEW f \in [C -> S]
  PROVE  ~IsInjective(f)
<1> SUFFICES ASSUME IsInjective(f) PROVE FALSE
  OBVIOUS
<1>1. f \in Injection(C, S)
  BY Fun_IsInj DEF IsInjective
<1>2. Cardinality(C) <= Cardinality(S)
  BY <1>1, FS_Injection
<1> QED
  BY <1>2, FS_CardinalityType

(* The composition guard finds too little room only where there is too little. *)
LEMMA CapacityIsCounted ==
  ASSUME NEW C, NEW n, CompositionReport(C, n) = "INSUFFICIENT_CAPACITY"
  PROVE  Cardinality(C) > n
  BY DEF CompositionReport, Guard

-----------------------------------------------------------------------------
(* The pattern of classes, and its bijection with the candidates. *)

(* In a linear order an element is known by how many are earlier, and every
   number below the size of the set is some element's. *)
RankedBy(S, earlier) ==
  /\ \A x \in S : Cardinality(earlier[x]) \in 0 .. Cardinality(S) - 1
  /\ \A x, y \in S : Cardinality(earlier[x]) = Cardinality(earlier[y]) => x = y
  /\ \A m \in 0 .. Cardinality(S) - 1 : \E x \in S : Cardinality(earlier[x]) = m

(* Every linear order of a finite set is such a ranking. *)
LEMMA Ranked ==
  ASSUME NEW S, IsFiniteSet(S), NEW earlier, Linear(S, earlier)
  PROVE  RankedBy(S, earlier)
<1> DEFINE n == Cardinality(S)
           list == InOrder(S, earlier)
           r(x) == Cardinality(earlier[x])
<1>1. /\ \A x \in S : r(x) + 1 \in 1 .. n /\ list[r(x) + 1] = x
      /\ \A m \in 1 .. n : list[m] \in S /\ r(list[m]) = m - 1
  BY Listing
<1>2. n \in Nat /\ \A x \in S : r(x) \in Nat
  <2>1. ASSUME NEW x \in S PROVE r(x) \in Nat
    <3>1. earlier[x] \in SUBSET S
      BY DEF Linear
    <3> QED
      BY <3>1, FS_Subset, FS_CardinalityType
  <2> QED
    BY <2>1, FS_CardinalityType
<1> HIDE DEF n, list, r
<1>3. \A x \in S : r(x) \in 0 .. n - 1
  BY <1>1, <1>2
<1>4. \A x, y \in S : r(x) = r(y) => x = y
  BY <1>1
<1>5. ASSUME NEW m \in 0 .. n - 1 PROVE \E x \in S : r(x) = m
  <2>1. m + 1 \in 1 .. n /\ (m + 1) - 1 = m
    BY <1>2
  <2> QED
    BY <1>1, <2>1
<1> QED
  BY <1>3, <1>4, <1>5 DEF RankedBy, n, r

EarlierSeats(T) == [s \in T |-> {t \in T : SolverBefore(t, s)}]
EarlierNumbers(G) == [c \in G |-> {d \in G : RegisterCode[d] < RegisterCode[c]}]

(* Seats are ordered linearly ... *)
LEMMA SeatsAreLinear ==
  ASSUME NEW T \in SUBSET AllSeats
  PROVE  Linear(T, EarlierSeats(T))
  BY SolverSortsSeats DEF Linear, EarlierSeats

(* ... and so are register numbers. *)
LEMMA NumbersAreLinear ==
  ASSUME NEW G \in SUBSET Candidates
  PROVE  Linear(G, EarlierNumbers(G))
<1> DEFINE earlier == EarlierNumbers(G)
           code(c) == RegisterCode[c]
<1>1. \A x \in G : earlier[x] = {d \in G : code(d) < code(x)}
  BY DEF EarlierNumbers
<1>2. earlier \in [G -> SUBSET G]
  BY DEF EarlierNumbers
<1>3. \A x, y, z \in G :
        /\ ~(code(x) < code(x))
        /\ x = y \/ code(x) < code(y) \/ code(y) < code(x)
        /\ code(x) < code(y) /\ code(y) < code(z) => code(x) < code(z)
  <2>1. \A x \in G : code(x) \in Nat
    BY CodeAssumption
  <2>2. \A x, y \in G : code(x) = code(y) => x = y
    BY CodeAssumption DEF IsInjective
  <2> QED
    BY <2>1, <2>2
<1> HIDE DEF earlier, code
<1>4. Linear(G, earlier)
  <2>1. \A x, y \in G : x \in earlier[y] => earlier[x] \subseteq earlier[y]
    BY <1>1, <1>3
  <2>2. \A x, y \in G : x = y \/ x \in earlier[y] \/ y \in earlier[x]
    BY <1>1, <1>3
  <2>3. \A x \in G : x \notin earlier[x]
    BY <1>1, <1>3
  <2> QED
    BY <1>2, <2>1, <2>2, <2>3 DEF Linear
<1> QED
  BY <1>4 DEF earlier

(* Every candidate of C sits on a seat of its own, which has its label, and
   nobody on a seat without one. *)
Realises(place, p, scope, C, S) ==
  /\ place \in [C -> S] /\ IsInjective(place)
  /\ \A c \in C : p[place[c]] = Key(scope, c)
  /\ \A s \in S : p[s] \in Keys(scope, C) => \E c \in C : place[c] = s

(* assign_candidates realises every pattern that meets the quotas. *)
LEMMA AssignmentRealises ==
  ASSUME NEW scope, NEW C \in SUBSET Candidates, NEW S \in SUBSET AllSeats, IsFiniteSet(S),
         NEW p \in Patterns(scope, C, S)
  PROVE  Realises(AssignCandidates(scope, C, p), p, scope, C, S)
<1> DEFINE seatsOf(c) == SeatsOfKey(p, Key(scope, c))
           group(c) == Group(scope, C, Key(scope, c))
           rank(c) == Cardinality({d \in group(c) : RegisterCode[d] < RegisterCode[c]})
           place == AssignCandidates(scope, C, p)
<1>1. p \in [S -> Keys(scope, C) \cup {0}] /\ QuotasMet(scope, C, p)
  BY DEF Patterns
<1>2. \A c \in C : /\ seatsOf(c) = {s \in S : p[s] = Key(scope, c)}
                   /\ seatsOf(c) \in SUBSET AllSeats /\ IsFiniteSet(seatsOf(c))
  <2> SUFFICES ASSUME NEW c \in C
               PROVE  /\ seatsOf(c) = {s \in S : p[s] = Key(scope, c)}
                      /\ seatsOf(c) \in SUBSET AllSeats /\ IsFiniteSet(seatsOf(c))
    OBVIOUS
  <2>1. seatsOf(c) = {s \in S : p[s] = Key(scope, c)}
    BY <1>1 DEF SeatsOfKey
  <2>2. seatsOf(c) \in SUBSET S
    BY <2>1
  <2> QED
    BY <2>1, <2>2, FS_Subset
<1>3. \A c \in C : /\ group(c) \in SUBSET Candidates /\ IsFiniteSet(group(c))
                   /\ c \in group(c) /\ group(c) \subseteq C
  <2> SUFFICES ASSUME NEW c \in C
               PROVE  /\ group(c) \in SUBSET Candidates /\ IsFiniteSet(group(c))
                      /\ c \in group(c) /\ group(c) \subseteq C
    OBVIOUS
  <2>1. c \in group(c) /\ group(c) \in SUBSET Candidates /\ group(c) \subseteq C
    BY DEF Group
  <2> QED
    BY <2>1, CandidateAssumption, FS_Subset
<1>4. \A c \in C : Cardinality(seatsOf(c)) = Cardinality(group(c))
  BY <1>1 DEF QuotasMet, Keys
<1>5. ASSUME NEW c \in C
      PROVE  /\ rank(c) \in 0 .. Cardinality(seatsOf(c)) - 1
             /\ \A d \in group(c) : rank(d) = rank(c) => d = c
             /\ \A m \in 0 .. Cardinality(seatsOf(c)) - 1 : \E d \in group(c) : rank(d) = m
  <2> DEFINE G == group(c)
             earlier == EarlierNumbers(G)
  <2>1. G \in SUBSET Candidates /\ IsFiniteSet(G) /\ c \in G
    BY <1>3
  <2>2. \A d \in G : group(d) = G
    BY DEF Group
  <2>3. \A d \in G : rank(d) = Cardinality(earlier[d])
    BY <2>2 DEF EarlierNumbers
  <2>4. Cardinality(seatsOf(c)) = Cardinality(G)
    BY <1>4
  <2> HIDE DEF G, earlier, rank, seatsOf
  <2>5. /\ \A x \in G : Cardinality(earlier[x]) \in 0 .. Cardinality(G) - 1
        /\ \A x, y \in G : Cardinality(earlier[x]) = Cardinality(earlier[y]) => x = y
        /\ \A m \in 0 .. Cardinality(G) - 1 : \E x \in G : Cardinality(earlier[x]) = m
    <3>1. Linear(G, earlier)
      BY <2>1, NumbersAreLinear DEF earlier
    <3>2. RankedBy(G, earlier)
      BY <2>1, <3>1, Ranked
    <3> QED
      BY <3>2 DEF RankedBy
  <2>6. /\ rank(c) \in 0 .. Cardinality(G) - 1
        /\ \A d \in G : rank(d) = rank(c) => d = c
        /\ \A m \in 0 .. Cardinality(G) - 1 : \E d \in G : rank(d) = m
    BY <2>1, <2>3, <2>5
  <2> QED
    BY <2>4, <2>6 DEF G
<1> DEFINE before(c, s) == Cardinality({t \in seatsOf(c) : SolverBefore(t, s)})
<1>6. ASSUME NEW c \in C
      PROVE  /\ \A s \in seatsOf(c) : before(c, s) \in 0 .. Cardinality(seatsOf(c)) - 1
             /\ \A s, t \in seatsOf(c) : before(c, s) = before(c, t) => s = t
             /\ \A m \in 0 .. Cardinality(seatsOf(c)) - 1 : \E s \in seatsOf(c) : before(c, s) = m
  <2> DEFINE T == seatsOf(c)
             earlier == EarlierSeats(T)
  <2>1. T \in SUBSET AllSeats /\ IsFiniteSet(T)
    BY <1>2
  <2>2. \A s \in T : before(c, s) = Cardinality(earlier[s])
    BY DEF EarlierSeats
  <2> HIDE DEF T, earlier, before
  <2>3. /\ \A x \in T : Cardinality(earlier[x]) \in 0 .. Cardinality(T) - 1
        /\ \A x, y \in T : Cardinality(earlier[x]) = Cardinality(earlier[y]) => x = y
        /\ \A m \in 0 .. Cardinality(T) - 1 : \E x \in T : Cardinality(earlier[x]) = m
    <3>1. Linear(T, earlier)
      BY <2>1, SeatsAreLinear DEF earlier
    <3>2. RankedBy(T, earlier)
      BY <2>1, <3>1, Ranked
    <3> QED
      BY <3>2 DEF RankedBy
  <2>4. /\ \A s \in T : before(c, s) \in 0 .. Cardinality(T) - 1
        /\ \A s, t \in T : before(c, s) = before(c, t) => s = t
        /\ \A m \in 0 .. Cardinality(T) - 1 : \E s \in T : before(c, s) = m
    BY <2>2, <2>3
  <2> QED
    BY <2>4 DEF T
<1>7. \A c \in C : rank(c) < Cardinality(seatsOf(c))
  <2> SUFFICES ASSUME NEW c \in C PROVE rank(c) < Cardinality(seatsOf(c))
    OBVIOUS
  <2>1. rank(c) \in 0 .. Cardinality(seatsOf(c)) - 1 /\ Cardinality(seatsOf(c)) \in Nat
    BY <1>2, <1>5, FS_CardinalityType
  <2> HIDE DEF rank, seatsOf
  <2> QED
    BY <2>1
<1>8. place = [c \in C |-> CHOOSE s \in seatsOf(c) : before(c, s) = rank(c)]
  <2>1. place = [c \in {c \in C : rank(c) < Cardinality(seatsOf(c))} |->
                   CHOOSE s \in seatsOf(c) : before(c, s) = rank(c)]
    BY DEF AssignCandidates
  <2>2. {c \in C : rank(c) < Cardinality(seatsOf(c))} = C
    BY <1>7
  <2> HIDE DEF place, rank, seatsOf, before
  <2> QED
    BY <2>1, <2>2
<1>9. \A c \in C : place[c] \in seatsOf(c) /\ before(c, place[c]) = rank(c)
  <2> HIDE DEF place, rank, seatsOf, before
  <2> QED
    BY <1>5, <1>6, <1>8
<1>10. place = [c \in C |-> place[c]]
  <2> HIDE DEF place, rank, seatsOf, before
  <2> QED
    BY <1>8
<1>11. \A c \in C : place[c] \in S /\ p[place[c]] = Key(scope, c)
  <2> HIDE DEF place
  <2> QED
    BY <1>2, <1>9
<1>12. ASSUME NEW c \in C, NEW d \in C, place[c] = place[d] PROVE c = d
  <2>1. Key(scope, c) = Key(scope, d)
    BY <1>11, <1>12
  <2>2. d \in group(c) /\ \A s : before(c, s) = before(d, s)
    BY <2>1 DEF Group
  <2> HIDE DEF place, rank, group, before
  <2>3. rank(c) = rank(d)
    BY <1>9, <1>12, <2>2
  <2> QED
    BY <1>5, <2>2, <2>3
<1>13. ASSUME NEW s \in S, p[s] \in Keys(scope, C) PROVE \E c \in C : place[c] = s
  <2>1. PICK c \in C : p[s] = Key(scope, c)
    BY <1>13 DEF Keys
  <2>2. s \in seatsOf(c)
    BY <1>2, <2>1
  <2>3. before(c, s) \in 0 .. Cardinality(seatsOf(c)) - 1
    BY <1>6, <2>2
  <2>4. PICK d \in group(c) : rank(d) = before(c, s)
    <3> HIDE DEF rank, group, before, seatsOf
    <3> QED
      BY <1>5, <2>3
  <2>5. d \in C /\ seatsOf(d) = seatsOf(c) /\ \A t : before(d, t) = before(c, t)
    BY DEF Group
  <2> HIDE DEF place, rank, group, before, seatsOf
  <2>6. place[d] \in seatsOf(c) /\ before(c, place[d]) = before(c, s)
    BY <1>9, <2>4, <2>5
  <2>7. place[d] = s
    BY <1>6, <2>2, <2>6
  <2> QED
    BY <2>5, <2>7
<1> HIDE DEF place
<1>14. DOMAIN place = C /\ place \in [C -> S]
  BY <1>10, <1>11
<1>15. IsInjective(place)
  BY <1>12, <1>14 DEF IsInjective
<1>16. Realises(place, p, scope, C, S)
  BY <1>11, <1>13, <1>14, <1>15 DEF Realises
<1> QED
  BY <1>16 DEF place

(* Encoding D: no two neighbours have one class. *)
LEMMA EncodingKeepsApart ==
  ASSUME NEW scope, NEW C, NEW S, IsFiniteSet(S), NEW p \in Patterns(scope, C, S),
         NEW e \in ClassEdges(S), p[e[1]] \in Keys(scope, C)
  PROVE  p[e[1]] # p[e[2]]
<1> SUFFICES ASSUME p[e[1]] = p[e[2]] PROVE FALSE
  OBVIOUS
<1> DEFINE s == e[1]
           k == p[s]
           near == Neighbours(S, s)
           alike == near \cap SeatsOfKey(p, k)
<1>1. DOMAIN p = S /\ EncodingD(p, Keys(scope, C))
  BY DEF Patterns
<1>2. e \in S \X S /\ e = <<e[1], e[2]>>
  BY DEF ClassEdges, HallEdges
<1>3. e[2] \in alike
  BY <1>1, <1>2 DEF Neighbours, SeatsOfKey
<1>4. near \in SUBSET S
  BY DEF Neighbours
<1>5. IsFiniteSet(near) /\ Cardinality(near) \in Nat
  BY <1>4, FS_Subset, FS_CardinalityType
<1>6. alike \in SUBSET near
  OBVIOUS
<1>7. IsFiniteSet(alike) /\ Cardinality(alike) \in Nat
  BY <1>5, <1>6, FS_Subset, FS_CardinalityType
<1>8. Cardinality(alike) + Cardinality(near) * 1 <= Cardinality(near)
  BY <1>1, <1>2 DEF EncodingD
<1>9. Cardinality(alike) = 0
  <2> HIDE DEF alike, near
  <2> QED
    BY <1>5, <1>7, <1>8
<1> HIDE DEF alike
<1>10. alike = {}
  BY <1>7, <1>9, FS_EmptySet
<1> QED
  BY <1>3, <1>10

(* The candidates seated by a pattern keep apart from their likes. *)
LEMMA RealisedKeepApart ==
  ASSUME NEW scope, NEW C, NEW S, IsFiniteSet(S), NEW p \in Patterns(scope, C, S),
         NEW place, Realises(place, p, scope, C, S),
         NEW e \in ClassEdges(S), NEW c \in Inhabitant(place, e[1]),
         NEW d \in Inhabitant(place, e[2])
  PROVE  Key(scope, c) # Key(scope, d)
<1>1. c \in C /\ d \in C /\ p[e[1]] = Key(scope, c) /\ p[e[2]] = Key(scope, d)
  BY DEF Realises, Inhabitant
<1>2. p[e[1]] \in Keys(scope, C)
  BY <1>1 DEF Keys
<1> QED
  BY <1>1, <1>2, EncodingKeepsApart

(* The validator's zeros hold of whatever the class model answers. *)
LEMMA RealisedIsValid ==
  ASSUME NEW scope \in {"class", "department"}, NEW C, NEW S, IsFiniteSet(S),
         NEW p \in Patterns(scope, C, S), NEW place, Realises(place, p, scope, C, S)
  PROVE  /\ scope = "class" => RequiredZeros(place, C, S)
         /\ scope = "department" => SameDepartment(place, ClassEdges(S)) = {}
<1>1. DOMAIN place = C /\ IsInjective(place)
  BY DEF Realises
<1>2. ASSUME scope = "class" PROVE SameClassPairs(place, S) = {}
  <2>1. \A e \in ClassEdges(S) :
          \A c \in Inhabitant(place, e[1]), d \in Inhabitant(place, e[2]) : Class[c] # Class[d]
    BY <1>2, RealisedKeepApart DEF Key
  <2> QED
    BY <2>1 DEF SameClassPairs
<1>3. ASSUME scope = "department" PROVE SameDepartment(place, ClassEdges(S)) = {}
  <2>1. \A e \in ClassEdges(S) :
          \A c \in Inhabitant(place, e[1]), d \in Inhabitant(place, e[2]) :
            Department[c] # Department[d]
    BY <1>3, RealisedKeepApart DEF Key
  <2> QED
    BY <2>1 DEF SameDepartment
<1> QED
  BY <1>1, <1>2, <1>3 DEF RequiredZeros

(* The classes of the candidates of a placement, seat by seat. *)
PatternOf(place, C, S) ==
  [s \in S |-> IF \E c \in C : place[c] = s
               THEN Class[CHOOSE c \in C : place[c] = s] ELSE 0]

(* A placement realises its pattern. *)
LEMMA PatternIsRealised ==
  ASSUME NEW C \in SUBSET Candidates, NEW S, NEW place \in [C -> S], IsInjective(place)
  PROVE  /\ PatternOf(place, C, S) \in [S -> Keys("class", C) \cup {0}]
         /\ Realises(place, PatternOf(place, C, S), "class", C, S)
<1> DEFINE p == PatternOf(place, C, S)
<1>1. \A c \in C : (CHOOSE d \in C : place[d] = place[c]) = c
  BY DEF IsInjective
<1>2. \A c \in C : place[c] \in S /\ p[place[c]] = Class[c]
  BY <1>1 DEF PatternOf
<1>3. \A s \in S : (~\E c \in C : place[c] = s) => p[s] = 0
  BY DEF PatternOf
<1>4. p = [s \in S |-> p[s]]
  BY DEF PatternOf
<1>5. 0 \notin Keys("class", C) /\ \A c \in C : Class[c] \in Keys("class", C)
  BY ClassAssumption DEF Keys, Key
<1> HIDE DEF p
<1>6. \A s \in S : p[s] \in Keys("class", C) \cup {0}
  BY <1>2, <1>3, <1>5
<1>7. p \in [S -> Keys("class", C) \cup {0}]
  BY <1>4, <1>6
<1>8. Realises(place, p, "class", C, S)
  BY <1>2, <1>3, <1>5 DEF Realises, Key
<1> QED
  BY <1>7, <1>8 DEF p

(* The pattern of a placement solves the model if its classes are apart. *)
LEMMA PatternSolves ==
  ASSUME NEW C \in SUBSET Candidates, NEW S, IsFiniteSet(S),
         NEW place \in OraclePlacements(C, S)
  PROVE  PatternOf(place, C, S) \in Patterns("class", C, S)
<1> DEFINE p == PatternOf(place, C, S)
           K == Keys("class", C)
<1>1. place \in [C -> S] /\ IsInjective(place) /\ SameClassPairs(place, S) = {}
  BY DEF OraclePlacements
<1>2. p \in [S -> K \cup {0}] /\ Realises(place, p, "class", C, S)
  BY <1>1, PatternIsRealised
<1> HIDE DEF p
<1>3. \A c \in C : p[place[c]] = Class[c]
  BY <1>2 DEF Realises, Key
<1>4. \A s \in S : p[s] \in K => \E c \in C : place[c] = s
  BY <1>2 DEF Realises
<1>5. QuotasMet("class", C, p)
  <2> SUFFICES ASSUME NEW k \in K
               PROVE  Cardinality(SeatsOfKey(p, k)) = Cardinality(Group("class", C, k))
    BY DEF QuotasMet
  <2> DEFINE G == Group("class", C, k)
             T == SeatsOfKey(p, k)
             f == [c \in G |-> place[c]]
  <2>1. G = {c \in C : Class[c] = k} /\ T = {s \in S : p[s] = k}
    BY <1>2 DEF Group, Key, SeatsOfKey
  <2>2. f \in [G -> T]
    BY <1>1, <1>3, <2>1
  <2>3. \A a, b \in G : f[a] = f[b] => a = b
    BY <1>1, <2>1 DEF IsInjective
  <2>4. \A s \in T : \E c \in G : f[c] = s
    BY <1>3, <1>4, <2>1
  <2>5. IsFiniteSet(G)
    BY <2>1, CandidateAssumption, FS_Subset
  <2> HIDE DEF G, T, f
  <2>6. f \in Bijection(G, T)
    BY <2>2, <2>3, <2>4, Fun_IsBij
  <2>7. Cardinality(T) = Cardinality(G)
    BY <2>5, <2>6, FS_Bijection DEF ExistsBijection
  <2> QED
    BY <2>7 DEF G, T
<1>6. EncodingD(p, K)
  <2>0. DOMAIN p = S
    BY <1>2
  <2> SUFFICES ASSUME NEW s \in S, NEW k \in K
               PROVE  LET near == Neighbours(S, s)
                          deg == Cardinality(near)
                          z == IF p[s] = k THEN 1 ELSE 0
                      IN Cardinality(near \cap SeatsOfKey(p, k)) + deg * z <= deg
    BY <2>0 DEF EncodingD
  <2> DEFINE near == Neighbours(S, s)
             alike == near \cap SeatsOfKey(p, k)
  <2>1. near \in SUBSET S /\ alike \in SUBSET near
    BY DEF Neighbours
  <2>2. IsFiniteSet(near) /\ Cardinality(near) \in Nat
    BY <2>1, FS_Subset, FS_CardinalityType
  <2>3. Cardinality(alike) \in Nat /\ Cardinality(alike) <= Cardinality(near)
    BY <2>1, <2>2, FS_Subset, FS_CardinalityType
  <2>4. ASSUME p[s] = k PROVE alike = {}
    <3> SUFFICES ASSUME NEW t \in alike PROVE FALSE
      OBVIOUS
    <3>1. p[t] = k /\ t \in S
      BY <2>0 DEF SeatsOfKey
    <3>2. PICK c \in C, d \in C : place[c] = s /\ place[d] = t
      BY <1>4, <2>4, <3>1
    <3>3. Class[c] = Class[d]
      BY <1>3, <2>4, <3>1, <3>2
    <3>4. <<s, t>> \in ClassEdges(S) \/ <<t, s>> \in ClassEdges(S)
      BY DEF Neighbours
    <3>5. c \in Inhabitant(place, s) /\ d \in Inhabitant(place, t)
      BY <1>1, <3>2 DEF Inhabitant
    <3>6. <<s, t>> \in SameClassPairs(place, S) \/ <<t, s>> \in SameClassPairs(place, S)
      BY <3>3, <3>4, <3>5 DEF SameClassPairs
    <3> QED
      BY <1>1, <3>6
  <2>5. p[s] = k => Cardinality(alike) = 0
    BY <2>4, FS_EmptySet
  <2> HIDE DEF near, alike
  <2>6. Cardinality(alike) + Cardinality(near) * (IF p[s] = k THEN 1 ELSE 0) <= Cardinality(near)
    BY <2>2, <2>3, <2>5
  <2> QED
    BY <2>6 DEF near, alike
<1> QED
  BY <1>2, <1>5, <1>6 DEF Patterns, p

(* Where no class spans departments, a class has the department of each of
   its candidates, and a pattern costs what its realisation costs. *)
OneDepartmentEach(C) == \A c, d \in C : Class[c] = Class[d] => Department[c] = Department[d]

(* key_department, although the last candidate of the class decides. *)
LEMMA KeyDepartmentIs ==
  ASSUME NEW C \in SUBSET Candidates, OneDepartmentEach(C), NEW c \in C
  PROVE  KeyDepartment("class", C, Class[c]) = Department[c]
<1> DEFINE G == Group("class", C, Class[c])
           earlier == EarlierNumbers(G)
           n == Cardinality(G)
           last == CHOOSE x \in G : \A d \in G : RegisterCode[d] <= RegisterCode[x]
<1>1. c \in G /\ G \in SUBSET Candidates
  BY DEF Group, Key
<1>2. IsFiniteSet(G) /\ n \in Nat /\ n # 0
  BY <1>1, CandidateAssumption, FS_Subset, FS_CardinalityType, FS_EmptySet
<1>3. \E x \in G : \A d \in G : RegisterCode[d] <= RegisterCode[x]
  <2> HIDE DEF G
  <2>1. Linear(G, earlier)
    BY <1>1, NumbersAreLinear DEF earlier
  <2>2. RankedBy(G, earlier)
    BY <1>2, <2>1, Ranked
  <2>3. n - 1 \in 0 .. n - 1
    BY <1>2
  <2>4. PICK x \in G : Cardinality(earlier[x]) = n - 1
    BY <2>2, <2>3 DEF RankedBy
  <2>5. earlier[x] = {d \in G : RegisterCode[d] < RegisterCode[x]}
    BY DEF EarlierNumbers
  <2>6. earlier[x] \in SUBSET (G \ {x})
    BY <1>1, <2>5, CodeAssumption
  <2>7. IsFiniteSet(G \ {x}) /\ Cardinality(G \ {x}) = n - 1
    BY <1>2, FS_RemoveElement
  <2>8. earlier[x] = G \ {x}
    BY <2>4, <2>6, <2>7, FS_Subset
  <2>9. \A d \in G : RegisterCode[d] <= RegisterCode[x]
    BY <1>1, <2>5, <2>8, CodeAssumption
  <2> QED
    BY <2>9
<1>4. last \in G
  BY <1>3
<1>5. Department[last] = Department[c]
  <2> HIDE DEF last
  <2> QED
    BY <1>4 DEF Group, Key, OneDepartmentEach
<1> QED
  BY <1>5 DEF KeyDepartment

(* So the objective of stage 1 is the cost that the report counts. *)
LEMMA CostsAgree ==
  ASSUME NEW C \in SUBSET Candidates, OneDepartmentEach(C), NEW S,
         NEW p \in [S -> Keys("class", C) \cup {0}],
         NEW place, Realises(place, p, "class", C, S)
  PROVE  PatternCost("class", C, p) = Cost(place, ClassEdges(S))
<1> DEFINE dept(s) == KeyDepartment("class", C, p[s])
           clash == {e \in ClassEdges(S) : /\ p[e[1]] # 0 /\ p[e[2]] # 0
                                           /\ dept(e[1]) = dept(e[2])}
<1>1. /\ place \in [C -> S]
      /\ \A c \in C : p[place[c]] = Class[c]
      /\ \A s \in S : p[s] \in Keys("class", C) => \E c \in C : place[c] = s
  BY DEF Realises, Key
<1>2. \A s \in S, c \in C : c \in Inhabitant(place, s) => p[s] # 0 /\ dept(s) = Department[c]
  <2> SUFFICES ASSUME NEW s \in S, NEW c \in C, place[c] = s
               PROVE  p[s] # 0 /\ dept(s) = Department[c]
    BY DEF Inhabitant
  <2>1. p[s] = Class[c]
    BY <1>1
  <2> QED
    BY <2>1, KeyDepartmentIs, ClassAssumption
<1>3. \A s \in S : p[s] # 0 => \E c \in C : c \in Inhabitant(place, s)
  BY <1>1 DEF Inhabitant
<1>4. \A s : Inhabitant(place, s) \subseteq C
  BY <1>1 DEF Inhabitant
<1>5. \A e \in ClassEdges(S) : e[1] \in S /\ e[2] \in S
  BY DEF ClassEdges, HallEdges
<1> HIDE DEF dept
<1>6. clash = SameDepartment(place, ClassEdges(S))
  BY <1>2, <1>3, <1>4, <1>5 DEF SameDepartment
<1>7. DOMAIN p = S
  OBVIOUS
<1>8. PatternCost("class", C, p) = Cardinality(clash)
  BY <1>7 DEF PatternCost, dept
<1> QED
  BY <1>6, <1>8 DEF Cost

-----------------------------------------------------------------------------
(* POST /solve. *)

(* What the answer of a class or department request says of it. *)
ClassSound(r, scope, C, S) ==
  /\ r.code \notin {"ERR_INVALID_ASSIGNMENT", "ERR_VALIDATOR_MISMATCH"}
  /\ r.status \in {"OPTIMAL", "FEASIBLE"} =>
       /\ DOMAIN r.place = C /\ IsInjective(r.place)
       /\ \A c \in DOMAIN r.place : r.place[c] \in S
       /\ scope = "class" => RequiredZeros(r.place, C, S)
       /\ scope = "department" => SameDepartment(r.place, ClassEdges(S)) = {}
  /\ r.status = "INFEASIBLE" /\ scope = "class" => OraclePlacements(C, S) = {}
  /\ r.status = "OPTIMAL" /\ scope = "class" /\ OneDepartmentEach(C) =>
       /\ r.objective = Cost(r.place, ClassEdges(S))
       /\ \A q \in OraclePlacements(C, S) : r.objective <= Cost(q, ClassEdges(S))

(* solve_request makes such an answer of whatever CP-SAT returns. *)
LEMMA PatternResultIsSound ==
  ASSUME NEW scope \in {"class", "department"}, NEW C \in SUBSET Candidates,
         NEW S \in SUBSET AllSeats, IsFiniteSet(S), NEW a \in PatternAnswers(scope, C, S)
  PROVE  ClassSound(PatternResult(scope, C, S, a), scope, C, S)
<1> DEFINE sols == Patterns(scope, C, S)
           place == AssignCandidates(scope, C, a.pattern)
           r == PatternResult(scope, C, S, a)
<1>1. \/ /\ a.status = "OPTIMAL" /\ a.pattern \in sols
         /\ \A q \in sols : PatternCost(scope, C, a.pattern) <= PatternCost(scope, C, q)
      \/ a.status = "FEASIBLE" /\ a.pattern \in sols
      \/ a.status = "UNKNOWN"
      \/ a.status = "INFEASIBLE" /\ sols = {}
  BY DEF PatternAnswers
<1>2. CASE a.status = "UNKNOWN"
  <2>1. r = Result("ERROR", NoPlace, 0, "SOLVER_TIMEOUT_NO_SOLUTION")
    BY <1>2 DEF PatternResult, Classified
  <2> QED
    BY <2>1 DEF ClassSound, Result
<1>3. CASE a.status = "INFEASIBLE" /\ sols = {}
  <2>1. r = Result("INFEASIBLE", NoPlace, 0, "NO_FEASIBLE_ASSIGNMENT")
    BY <1>3 DEF PatternResult, Classified
  <2>2. scope = "class" => OraclePlacements(C, S) = {}
    BY <1>3, PatternSolves
  <2> QED
    BY <2>1, <2>2 DEF ClassSound, Result
<1>4. ASSUME a.pattern \in sols
      PROVE  /\ Realises(place, a.pattern, scope, C, S)
             /\ DOMAIN place = C /\ IsInjective(place)
             /\ \A c \in DOMAIN place : place[c] \in S
             /\ scope = "class" => RequiredZeros(place, C, S)
             /\ scope = "department" => SameDepartment(place, ClassEdges(S)) = {}
  <2>1. Realises(place, a.pattern, scope, C, S)
    BY <1>4, AssignmentRealises
  <2> HIDE DEF place
  <2>2. DOMAIN place = C /\ IsInjective(place) /\ \A c \in DOMAIN place : place[c] \in S
    BY <2>1 DEF Realises
  <2> QED
    BY <1>4, <2>1, <2>2, RealisedIsValid
<1>5. CASE a.status = "FEASIBLE" /\ a.pattern \in sols
  <2>1. r = Result("FEASIBLE", place, Cost(place, ClassEdges(S)), "none")
    BY <1>5 DEF PatternResult, Classified
  <2> HIDE DEF place
  <2> QED
    BY <1>4, <1>5, <2>1 DEF ClassSound, Result
<1>6. CASE /\ a.status = "OPTIMAL" /\ a.pattern \in sols
           /\ \A q \in sols : PatternCost(scope, C, a.pattern) <= PatternCost(scope, C, q)
  <2> DEFINE cost == PatternCost(scope, C, a.pattern)
  <2>1. r = Result("OPTIMAL", place, cost, "none")
    BY <1>6 DEF PatternResult, Classified
  <2>2. ASSUME scope = "class", OneDepartmentEach(C)
        PROVE  /\ cost = Cost(place, ClassEdges(S))
               /\ \A q \in OraclePlacements(C, S) : cost <= Cost(q, ClassEdges(S))
    <3>1. a.pattern \in [S -> Keys("class", C) \cup {0}]
      BY <1>6, <2>2 DEF Patterns
    <3>2. Realises(place, a.pattern, "class", C, S)
      BY <1>4, <1>6, <2>2
    <3>3. cost = Cost(place, ClassEdges(S))
      BY <2>2, <3>1, <3>2, CostsAgree
    <3>4. ASSUME NEW q \in OraclePlacements(C, S) PROVE cost <= Cost(q, ClassEdges(S))
      <4> DEFINE p == PatternOf(q, C, S)
      <4>1. p \in sols
        BY <2>2, PatternSolves
      <4>2. q \in [C -> S] /\ IsInjective(q)
        BY DEF OraclePlacements
      <4>3. p \in [S -> Keys("class", C) \cup {0}] /\ Realises(q, p, "class", C, S)
        BY <4>2, PatternIsRealised
      <4> HIDE DEF p
      <4>4. PatternCost("class", C, p) = Cost(q, ClassEdges(S))
        BY <2>2, <4>3, CostsAgree
      <4>5. cost <= PatternCost(scope, C, p)
        BY <1>6, <4>1
      <4> QED
        BY <2>2, <4>4, <4>5
    <3> QED
      BY <3>3, <3>4
  <2> HIDE DEF place, cost
  <2> QED
    BY <1>4, <1>6, <2>1, <2>2 DEF ClassSound, Result
<1> QED
  BY <1>1, <1>2, <1>3, <1>5, <1>6

-----------------------------------------------------------------------------
(* The domains together. *)

(* What _solve_domain may return for the i-th domain. *)
OutcomesOf(i) == DomainResults(request.policy, parts[i].candidates, parts[i].seats, Graph)

(* Every domain has its result so far. *)
ResultsKnown ==
  /\ results \in Seq(UNION {OutcomesOf(i) : i \in DOMAIN parts})
  /\ Len(results) <= Len(parts)
  /\ \A i \in DOMAIN results : results[i] \in OutcomesOf(i)

PartsKnown == parts = SolverDomains(request.seats, request.adjacency, request.candidates)

(* What the proofs use of a request's type ... *)
Typed ==
  /\ request.candidates \in SUBSET Candidates
  /\ request.seats \in SUBSET AllSeats /\ IsFiniteSet(request.seats)
  /\ request.scope \in {"class", "department"}
  /\ request.route \in {"solve", "solve-domain", "partitioned"}

(* ... which every request is. *)
LEMMA RequestsAreTyped ==
  ASSUME request \in Requests
  PROVE  Typed
  BY RequestsAssumption DEF Typed

(* The domains divide the seats and share the candidates. *)
LEMMA PartsDivide ==
  ASSUME Typed, PartsKnown
  PROVE  \E n \in Nat : DomainsOf(parts, n, request.seats, Graph, request.candidates)
  BY DomainsDivide DEF Typed, PartsKnown, Graph

(* A domain with more candidates than seats has no placement. *)
LEMMA OverfullHasNone ==
  ASSUME Typed, PartsKnown, NEW k \in DOMAIN parts, Overfull(k)
  PROVE  Placements(request.policy, parts[k].candidates, parts[k].seats, Graph) = {}
<1>1. PICK n \in Nat :
        /\ Len(parts) = n /\ DOMAIN parts = 1 .. n
        /\ Divide([i \in 1 .. n |-> parts[i].seats], n, request.seats, Graph)
        /\ Shares([i \in 1 .. n |-> parts[i].candidates], n, request.seats, request.candidates)
  BY PartsDivide DEF DomainsOf
<1> DEFINE C == parts[k].candidates
           S == parts[k].seats
<1>2. C \in SUBSET Candidates /\ S \in SUBSET request.seats
  BY <1>1 DEF Divide, Shares, Typed
<1>3. IsFiniteSet(C) /\ IsFiniteSet(S)
  BY <1>2, CandidateAssumption, FS_Subset DEF Typed
<1>4. Cardinality(C) > Cardinality(S)
  BY CapacityIsCounted DEF Overfull, Composition
<1> HIDE DEF C, S
<1>5. \A f \in [C -> S] : ~IsInjective(f)
  BY <1>3, <1>4, NoRoom
<1>6. Placements(request.policy, C, S, Graph) = {}
  BY <1>5 DEF Placements
<1> QED
  BY <1>6 DEF C, S

(* The solutions of the i-th domain's model. *)
Solving(i) == Placements(request.policy, parts[i].candidates, parts[i].seats, Graph)

(* The placements of all domains make one of all their candidates, and no
   edge leads from one domain to another. *)
LEMMA PlacesTogether ==
  ASSUME Typed, PartsKnown, DOMAIN results = DOMAIN parts,
         \A i \in DOMAIN parts : results[i].place \in Solving(i)
  PROVE  /\ IsInjective(AllPlaces)
         /\ Violations(request.policy, AllPlaces, Graph) = {}
         /\ \/ DOMAIN AllPlaces = request.candidates
            \/ /\ DOMAIN AllPlaces = {}
               /\ ~(Cardinality(request.candidates) <= Cardinality(request.seats))
         /\ \A i \in DOMAIN parts : \A c \in parts[i].candidates :
              c \in DOMAIN AllPlaces /\ AllPlaces[c] = results[i].place[c]
         /\ DOMAIN AllPlaces = UNION {parts[i].candidates : i \in DOMAIN parts}
         /\ \A c \in DOMAIN AllPlaces : AllPlaces[c] \in request.seats
<1> DEFINE all == AllPlaces
           place(i) == results[i].place
           C(i) == parts[i].candidates
           S(i) == parts[i].seats
<1>1. PICK n \in Nat :
        /\ Len(parts) = n /\ DOMAIN parts = 1 .. n
        /\ Divide([i \in 1 .. n |-> parts[i].seats], n, request.seats, Graph)
        /\ Shares([i \in 1 .. n |-> parts[i].candidates], n, request.seats, request.candidates)
  BY PartsDivide DEF DomainsOf
<1>2. /\ \A i, j \in 1 .. n : i # j => C(i) \cap C(j) = {} /\ S(i) \cap S(j) = {}
      /\ \A i \in 1 .. n : C(i) \subseteq request.candidates
      /\ \A i \in 1 .. n : Closed(S(i), Graph) /\ S(i) \subseteq request.seats
  BY <1>1 DEF Divide, Shares
<1>3. \/ \A c \in request.candidates : \E i \in 1 .. n : c \in C(i)
      \/ /\ \A i \in 1 .. n : C(i) = {}
         /\ ~(Cardinality(request.candidates) <= Cardinality(request.seats))
  BY <1>1 DEF Shares
<1>4. \A i \in 1 .. n : /\ place(i) \in [C(i) -> S(i)] /\ IsInjective(place(i))
                        /\ Violations(request.policy, place(i), Graph) = {}
  BY <1>1, PlacementsObey DEF Solving
<1>5. all = [c \in UNION {DOMAIN place(i) : i \in 1 .. n} |->
               place(CHOOSE j \in 1 .. n : c \in DOMAIN place(j))[c]]
  BY <1>1 DEF AllPlaces
<1> HIDE DEF all, place, C, S
<1>6. DOMAIN all = UNION {C(i) : i \in 1 .. n}
  BY <1>4, <1>5
<1>7. ASSUME NEW i \in 1 .. n, NEW c \in C(i)
      PROVE  c \in DOMAIN all /\ all[c] = place(i)[c] /\ all[c] \in S(i)
  <2>1. c \in DOMAIN all
    BY <1>6
  <2>2. \A j \in 1 .. n : c \in DOMAIN place(j) <=> j = i
    BY <1>2, <1>4
  <2>3. (CHOOSE j \in 1 .. n : c \in DOMAIN place(j)) = i
    BY <2>2
  <2>4. all[c] = place(i)[c]
    BY <1>5, <1>6, <2>1, <2>3
  <2> QED
    BY <1>4, <2>1, <2>4
<1>8. \A c \in DOMAIN all : \E i \in 1 .. n : c \in C(i)
  BY <1>6
<1>9. IsInjective(all)
  <2> SUFFICES ASSUME NEW c \in DOMAIN all, NEW d \in DOMAIN all, all[c] = all[d] PROVE c = d
    BY DEF IsInjective
  <2>1. PICK i \in 1 .. n, j \in 1 .. n : c \in C(i) /\ d \in C(j)
    BY <1>8
  <2>2. i = j
    BY <1>2, <1>7, <2>1
  <2>3. place(i)[c] = place(i)[d]
    BY <1>7, <2>1, <2>2
  <2> QED
    BY <1>4, <2>1, <2>2, <2>3 DEF IsInjective
<1>10. Violations(request.policy, all, Graph) = {}
  <2> SUFFICES ASSUME NEW e \in Violations(request.policy, all, Graph) PROVE FALSE
    OBVIOUS
  <2> DEFINE clash(c, d) ==
               LET sameYear == Year[c] # "<none>" /\ Year[c] = Year[d]
                   sameDept == Department[c] = Department[d]
               IN CASE request.policy = "DEPARTMENT_ONLY" -> sameDept
                    [] request.policy = "STRICT_DEPT_OR_YEAR" -> sameDept \/ sameYear
                    [] OTHER -> sameDept /\ sameYear
  <2>0. \A q : Violations(request.policy, q, Graph) =
                 {f \in Graph : \E c \in Inhabitant(q, f[1]), d \in Inhabitant(q, f[2]) : clash(c, d)}
    BY DEF Violations
  <2> HIDE DEF clash
  <2>1. e \in Graph /\ \E c \in Inhabitant(all, e[1]), d \in Inhabitant(all, e[2]) : clash(c, d)
    BY <2>0
  <2>2. PICK c \in Inhabitant(all, e[1]), d \in Inhabitant(all, e[2]) : clash(c, d)
    BY <2>1
  <2>3. c \in DOMAIN all /\ d \in DOMAIN all /\ all[c] = e[1] /\ all[d] = e[2]
    BY DEF Inhabitant
  <2>4. PICK i \in 1 .. n, j \in 1 .. n : c \in C(i) /\ d \in C(j)
    BY <1>8, <2>3
  <2>5. e[1] \in S(i) /\ e[2] \in S(j)
    BY <1>7, <2>3, <2>4
  <2>6. e[2] \in S(i)
    BY <1>2, <2>1, <2>5 DEF Closed
  <2>7. i = j
    BY <1>2, <2>5, <2>6
  <2>8. c \in Inhabitant(place(i), e[1]) /\ d \in Inhabitant(place(i), e[2])
    BY <1>4, <1>7, <2>3, <2>4, <2>7 DEF Inhabitant
  <2>9. e \in Violations(request.policy, place(i), Graph)
    BY <2>0, <2>1, <2>2, <2>8
  <2> QED
    BY <1>4, <2>9
<1>11. \/ DOMAIN all = request.candidates
       \/ /\ DOMAIN all = {}
          /\ ~(Cardinality(request.candidates) <= Cardinality(request.seats))
  BY <1>2, <1>3, <1>6
<1>12. \A i \in 1 .. n : \A c \in C(i) : c \in DOMAIN all /\ all[c] = place(i)[c]
  BY <1>7
<1>13. \A c \in DOMAIN all : all[c] \in request.seats
  BY <1>2, <1>7, <1>8
<1> QED
  BY <1>1, <1>6, <1>9, <1>10, <1>11, <1>12, <1>13 DEF all, place, C

-----------------------------------------------------------------------------
(* The service. *)

(* What is known of a request at each stage. *)
StagesKnow ==
  /\ request \in Requests
  /\ stage \in {"received", "parts", "solving", "answered"}
  /\ stage # "answered" => response = NoResponse
  /\ stage = "received" => results = << >>
  /\ stage \in {"parts", "solving"} => request.route # "solve" /\ Accepted /\ PartsKnown
  /\ stage = "parts" => results = << >>
  /\ stage = "solving" =>
       ResultsKnown /\ (request.route = "solve-domain" => Len(parts) = 1)

AnswerHolds ==
  /\ SolvedIsComplete /\ SolvedObeysRule /\ ValidatorAgrees
  /\ InfeasibleIsProven /\ OptimalIsBest

ServiceInv == StagesKnow /\ AnswerHolds

(* An answer without a solution and without a claim. *)
LEMMA QuietAnswers ==
  ASSUME response'.status \notin {"OPTIMAL", "FEASIBLE", "INFEASIBLE"},
         response'.code \notin {"ERR_INVALID_ASSIGNMENT", "ERR_VALIDATOR_MISMATCH"}
  PROVE  AnswerHolds'
  BY DEF AnswerHolds, SolvedIsComplete, SolvedObeysRule, ValidatorAgrees,
         InfeasibleIsProven, OptimalIsBest, Solved

(* A request that has just been received. *)
LEMMA InitKnows == InitService => ServiceInv
<1> SUFFICES ASSUME InitService PROVE ServiceInv
  OBVIOUS
<1>1. StagesKnow
  BY DEF InitService, StagesKnow
<1>2. AnswerHolds
  BY DEF InitService, NoResponse, Result, AnswerHolds, SolvedIsComplete, SolvedObeysRule,
         ValidatorAgrees, InfeasibleIsProven, OptimalIsBest, Solved
<1> QED
  BY <1>1, <1>2 DEF ServiceInv

(* 401 and 422 claim nothing. *)
LEMMA RefuseKeeps ==
  ASSUME ServiceInv, Refuse
  PROVE  ServiceInv'
<1>1. /\ response' \in {Result("HTTP_422", NoPlace, 0, "none"), Result("HTTP_401", NoPlace, 0, "none")}
      /\ stage' = "answered" /\ request' = request
  BY DEF Refuse, Http, Answer
<1>2. AnswerHolds'
  BY <1>1, QuietAnswers DEF Result
<1> QED
  BY <1>1, <1>2 DEF ServiceInv, StagesKnow

(* The numbers of candidates and seats are numbers. *)
LEMMA SizesAreNumbers ==
  ASSUME Typed
  PROVE  /\ Cardinality(request.candidates) \in Nat /\ IsFiniteSet(request.candidates)
         /\ Cardinality(request.seats) \in Nat
         /\ ~TooManyCandidates => Cardinality(request.candidates) <= Cardinality(request.seats)
<1>1. Cardinality(request.candidates) \in Nat /\ IsFiniteSet(request.candidates)
  BY CandidateAssumption, FS_Subset, FS_CardinalityType DEF Typed
<1>2. Cardinality(request.seats) \in Nat
  BY FS_CardinalityType DEF Typed
<1> QED
  BY <1>1, <1>2 DEF TooManyCandidates

(* /solve: one answer, of the class model. *)
LEMMA SolveRequestKeeps ==
  ASSUME ServiceInv, SolveRequest
  PROVE  ServiceInv'
<1> DEFINE C == request.candidates
           S == request.seats
           scope == request.scope
<1>1. Typed
  BY RequestsAreTyped DEF ServiceInv, StagesKnow
<1>2. request' = request /\ stage' = "answered" /\ request.route = "solve"
  BY DEF SolveRequest, Infeasible, Fail, Answer
<1>3. CASE TooManyCandidates
  <2>1. response' = Result("INFEASIBLE", NoPlace, 0, "INSUFFICIENT_SEATS")
    BY <1>3 DEF SolveRequest, Infeasible, Answer
  <2>2. \A f \in [C -> S] : ~IsInjective(f)
    BY <1>1, <1>3, SizesAreNumbers, NoRoom DEF Typed, TooManyCandidates
  <2>3. OraclePlacements(C, S) = {}
    BY <2>2 DEF OraclePlacements
  <2>4. AnswerHolds'
    BY <1>2, <2>1, <2>3 DEF Result, AnswerHolds, SolvedIsComplete, SolvedObeysRule,
         ValidatorAgrees, InfeasibleIsProven, OptimalIsBest, Solved
  <2> QED
    BY <1>2, <2>4 DEF ServiceInv, StagesKnow
<1>4. CASE response' = Result("ERROR", NoPlace, 0, "INTERNAL_ERROR")
  <2>1. AnswerHolds'
    BY <1>4, QuietAnswers DEF Result
  <2> QED
    BY <1>2, <2>1 DEF ServiceInv, StagesKnow
<1>5. CASE /\ ~TooManyCandidates
           /\ response' # Result("ERROR", NoPlace, 0, "INTERNAL_ERROR")
  <2>1. PICK a \in PatternAnswers(scope, C, S) : response' = PatternResult(scope, C, S, a)
    BY <1>5 DEF SolveRequest, Fail, Answer
  <2>2. ClassSound(response', scope, C, S)
    BY <1>1, <2>1, PatternResultIsSound DEF Typed
  <2>3. SolvedIsComplete' /\ SolvedObeysRule' /\ ValidatorAgrees' /\ InfeasibleIsProven'
    BY <1>1, <1>2, <2>2 DEF ClassSound, Typed, SolvedIsComplete, SolvedObeysRule,
         ValidatorAgrees, InfeasibleIsProven, Solved
  <2>4. ClassesHaveOneDepartment' => OneDepartmentEach(C)
    BY <1>2 DEF ClassesHaveOneDepartment, OneDepartmentEach
  <2>5. OptimalIsBest'
    BY <1>2, <2>2, <2>4 DEF ClassSound, OptimalIsBest
  <2> QED
    BY <1>2, <2>3, <2>5 DEF ServiceInv, StagesKnow, AnswerHolds
<1> QED
  BY <1>3, <1>4, <1>5

(* The domains, before any of them is looked at. *)
LEMMA GraphAndPartitionKeeps ==
  ASSUME ServiceInv, GraphAndPartition
  PROVE  ServiceInv'
<1>1. /\ stage = "received" /\ Accepted /\ request.route # "solve" /\ stage' = "parts"
      /\ parts' = SolverDomains(request.seats, request.adjacency, request.candidates)
      /\ request' = request /\ results' = results /\ response' = response
  BY DEF GraphAndPartition
<1>2. response' = NoResponse /\ results' = << >>
  BY <1>1 DEF ServiceInv, StagesKnow
<1>3. AnswerHolds'
  BY <1>2, QuietAnswers DEF NoResponse, Result
<1>4. Accepted' /\ PartsKnown'
  BY <1>1 DEF Accepted, TooManyCandidates, PartsKnown
<1> QED
  BY <1>1, <1>2, <1>3, <1>4 DEF ServiceInv, StagesKnow

(* "Infeasible" because of one domain. *)
LEMMA InfeasibleAnswers ==
  ASSUME request' = request, parts' = parts, request.route # "solve",
         response'.status = "INFEASIBLE",
         response'.code \notin {"ERR_INVALID_ASSIGNMENT", "ERR_VALIDATOR_MISMATCH"},
         \E i \in DOMAIN parts : Solving(i) = {}
  PROVE  AnswerHolds'
<1>1. InfeasibleIsProven'
  BY DEF InfeasibleIsProven, Solving, Graph
<1> QED
  BY <1>1 DEF AnswerHolds, SolvedIsComplete, SolvedObeysRule, ValidatorAgrees,
              OptimalIsBest, Solved

(* The checks before the domains are solved. *)
LEMMA CheckKeeps ==
  ASSUME ServiceInv, CheckDomain \/ CheckPartitioned
  PROVE  ServiceInv'
<1> DEFINE Quiet == \E code \in {"ERR_INVALID_DOMAIN_ASSIGNMENT",
                                 "ERR_GRAPH_TOPOLOGY_OVERSIZED_COMPONENT",
                                 "ERR_DOMAIN_COMPOSITION_IMBALANCE"} :
                      response' = Result("ERROR", NoPlace, 0, code)
<1>1. /\ stage = "parts" /\ request' = request /\ parts' = parts /\ results' = results
  BY DEF CheckDomain, CheckPartitioned
<1>2. /\ Accepted /\ PartsKnown /\ request.route # "solve" /\ results = << >> /\ Typed
      /\ response = NoResponse
  BY <1>1, RequestsAreTyped DEF ServiceInv, StagesKnow
<1>3. \/ stage' = "answered" /\ Quiet
      \/ /\ stage' = "answered" /\ Len(parts) = 1 /\ Overfull(1)
         /\ response' = Result("INFEASIBLE", NoPlace, 0, "ERR_INSUFFICIENT_DOMAIN_CAPACITY")
      \/ /\ stage' = "solving" /\ response' = response
         /\ request.route = "solve-domain" => Len(parts) = 1
  BY DEF CheckDomain, CheckPartitioned, Fail, Infeasible, Answer
<1>4. CASE stage' = "answered" /\ Quiet
  <2>1. AnswerHolds'
    BY <1>4, QuietAnswers DEF Result
  <2> QED
    BY <1>1, <1>4, <2>1 DEF ServiceInv, StagesKnow
<1>5. CASE /\ stage' = "answered" /\ Len(parts) = 1 /\ Overfull(1)
           /\ response' = Result("INFEASIBLE", NoPlace, 0, "ERR_INSUFFICIENT_DOMAIN_CAPACITY")
  <2>1. PICK n \in Nat : DomainsOf(parts, n, request.seats, Graph, request.candidates)
    BY <1>2, PartsDivide
  <2>2. 1 \in DOMAIN parts
    BY <1>5, <2>1 DEF DomainsOf
  <2>3. Solving(1) = {}
    BY <1>2, <1>5, <2>2, OverfullHasNone DEF Solving
  <2>4. AnswerHolds'
    BY <1>1, <1>2, <1>5, <2>2, <2>3, InfeasibleAnswers DEF Result
  <2> QED
    BY <1>1, <1>5, <2>4 DEF ServiceInv, StagesKnow
<1>6. CASE /\ stage' = "solving" /\ response' = response
           /\ request.route = "solve-domain" => Len(parts) = 1
  <2>1. AnswerHolds'
    BY <1>2, <1>6, QuietAnswers DEF NoResponse, Result
  <2>2. Accepted' /\ PartsKnown' /\ results' = << >>
    BY <1>1, <1>2 DEF Accepted, TooManyCandidates, PartsKnown
  <2>3. Len(parts) \in Nat
    BY <1>2, PartsDivide DEF DomainsOf
  <2>4. ResultsKnown'
    BY <1>1, <2>2, <2>3 DEF ResultsKnown
  <2> QED
    BY <1>1, <1>2, <1>6, <2>1, <2>2, <2>4 DEF ServiceInv, StagesKnow
<1> QED
  BY <1>3, <1>4, <1>5, <1>6

(* One more domain has its result, or the request ends without one. *)
LEMMA SolveDomainKeeps ==
  ASSUME ServiceInv, SolveDomain
  PROVE  ServiceInv'
<1> DEFINE i == Len(results) + 1
<1>1. /\ stage = "solving" /\ Len(results) < Len(parts)
      /\ request' = request /\ parts' = parts
  BY DEF SolveDomain
<1>2. /\ Accepted /\ PartsKnown /\ request.route # "solve" /\ Typed /\ ResultsKnown
      /\ request.route = "solve-domain" => Len(parts) = 1
      /\ response = NoResponse
  BY <1>1, RequestsAreTyped DEF ServiceInv, StagesKnow
<1>3. PICK n \in Nat : DomainsOf(parts, n, request.seats, Graph, request.candidates)
  BY <1>2, PartsDivide
<1>4. /\ i \in DOMAIN parts /\ Len(results) \in Nat /\ DOMAIN results = 1 .. Len(results)
      /\ Len(parts) \in Nat
  BY <1>1, <1>2, <1>3 DEF DomainsOf, ResultsKnown
<1>5. \/ /\ Overfull(i) /\ stage' = "answered"
         /\ response' = Result("INFEASIBLE", NoPlace, 0, "ERR_INSUFFICIENT_DOMAIN_CAPACITY")
      \/ /\ stage' = "answered"
         /\ response' \in {Result("ERROR", NoPlace, 0, "ERR_DOMAIN_COMPOSITION_IMBALANCE"),
                           Result("HTTP_500", NoPlace, 0, "none")}
      \/ /\ \E r \in OutcomesOf(i) : results' = Append(results, r)
         /\ stage' = stage /\ response' = response
  BY DEF SolveDomain, Fail, Infeasible, Http, Answer, OutcomesOf
<1> HIDE DEF i
<1>6. CASE /\ Overfull(i) /\ stage' = "answered"
           /\ response' = Result("INFEASIBLE", NoPlace, 0, "ERR_INSUFFICIENT_DOMAIN_CAPACITY")
  <2>1. Solving(i) = {}
    BY <1>2, <1>4, <1>6, OverfullHasNone DEF Solving
  <2>2. AnswerHolds'
    BY <1>1, <1>2, <1>4, <1>6, <2>1, InfeasibleAnswers DEF Result
  <2> QED
    BY <1>1, <1>6, <2>2 DEF ServiceInv, StagesKnow
<1>7. CASE /\ stage' = "answered"
           /\ response' \in {Result("ERROR", NoPlace, 0, "ERR_DOMAIN_COMPOSITION_IMBALANCE"),
                             Result("HTTP_500", NoPlace, 0, "none")}
  <2>1. AnswerHolds'
    BY <1>7, QuietAnswers DEF Result
  <2> QED
    BY <1>1, <1>7, <2>1 DEF ServiceInv, StagesKnow
<1>8. CASE /\ \E r \in OutcomesOf(i) : results' = Append(results, r)
           /\ stage' = stage /\ response' = response
  <2>1. PICK r \in OutcomesOf(i) : results' = Append(results, r)
    BY <1>8
  <2> DEFINE All == UNION {OutcomesOf(k) : k \in DOMAIN parts}
  <2>2. results \in Seq(All) /\ r \in All
    BY <1>2, <1>4 DEF ResultsKnown
  <2> HIDE DEF All
  <2>3. /\ results' \in Seq(All) /\ Len(results') = Len(results) + 1
        /\ results'[Len(results) + 1] = r
        /\ \A k \in 1 .. Len(results) : results'[k] = results[k]
        /\ DOMAIN results' = 1 .. Len(results) + 1
    BY <2>1, <2>2
  <2>4. \A k \in 1 .. Len(results) + 1 : results'[k] \in OutcomesOf(k)
    <3> SUFFICES ASSUME NEW k \in 1 .. Len(results) + 1 PROVE results'[k] \in OutcomesOf(k)
      OBVIOUS
    <3>1. k \in 1 .. Len(results) \/ k = i
      BY <1>4 DEF i
    <3> QED
      BY <1>2, <1>4, <2>3, <3>1 DEF ResultsKnown, i
  <2>5. \A k : OutcomesOf(k)' = OutcomesOf(k)
    BY <1>1 DEF OutcomesOf, Graph
  <2>6. Len(results') <= Len(parts)
    BY <1>1, <1>4, <2>3
  <2>7. ResultsKnown'
    BY <1>1, <2>3, <2>4, <2>5, <2>6 DEF ResultsKnown, All
  <2>8. Accepted' /\ PartsKnown'
    BY <1>1, <1>2 DEF Accepted, TooManyCandidates, PartsKnown
  <2>9. AnswerHolds'
    BY <1>2, <1>8, QuietAnswers DEF NoResponse, Result
  <2> QED
    BY <1>1, <1>2, <1>8, <2>7, <2>8, <2>9 DEF ServiceInv, StagesKnow
<1> QED
  BY <1>5, <1>6, <1>7, <1>8

(* The results of all domains are in. *)
LEMMA RespondKeeps ==
  ASSUME ServiceInv, Respond
  PROVE  ServiceInv'
<1> DEFINE C == request.candidates
           S == request.seats
           policy == request.policy
           failed(i) == results[i].status \in {"INFEASIBLE", "ERROR"}
           status == IF \A i \in DOMAIN results : results[i].status = "OPTIMAL"
                     THEN "OPTIMAL" ELSE "FEASIBLE"
<1>1. /\ stage = "solving" /\ Len(results) = Len(parts)
      /\ request' = request /\ parts' = parts /\ results' = results
      /\ stage' = "answered"
  BY DEF Respond, Answer, Fail
<1>2. /\ Accepted /\ PartsKnown /\ request.route # "solve" /\ Typed /\ ResultsKnown
      /\ request.route = "solve-domain" => Len(parts) = 1
  BY <1>1, RequestsAreTyped DEF ServiceInv, StagesKnow
<1>3. PICK n \in Nat : DomainsOf(parts, n, S, Graph, C)
  BY <1>2, PartsDivide
<1>4. DOMAIN results = 1 .. n /\ DOMAIN parts = 1 .. n /\ Len(parts) = n
  BY <1>1, <1>2, <1>3 DEF DomainsOf, ResultsKnown
<1>5. \A i \in 1 .. n : Sound(results[i], policy, parts[i].candidates, parts[i].seats, Graph)
  BY <1>2, <1>4, ResultsAreSound DEF ResultsKnown, OutcomesOf
<1>6. StagesKnow'
  BY <1>1 DEF ServiceInv, StagesKnow
<1>7. CASE \E i \in 1 .. n : failed(i)
  <2> DEFINE T == {i \in 1 .. n : failed(i)}
  <2>1. PICK f \in T : \A m \in T : f <= m
    <3>1. T \in SUBSET Nat /\ T # {}
      BY <1>7
    <3> HIDE DEF T
    <3> QED
      BY <3>1, LeastNatural
  <2>2. \A j \in 1 .. f - 1 : ~failed(j)
    <3> SUFFICES ASSUME NEW j \in 1 .. f - 1, failed(j) PROVE FALSE
      OBVIOUS
    <3>1. j \in 1 .. n /\ ~(f <= j)
      OBVIOUS
    <3> QED
      BY <2>1, <3>1
  <2>3. FirstFailure \in 1 .. n /\ failed(FirstFailure)
    BY <1>4, <2>1, <2>2 DEF FirstFailure
  <2>4. response' = results[FirstFailure]
    BY <1>4, <1>7 DEF Respond, Answer
  <2> DEFINE g == FirstFailure
  <2> HIDE DEF g
  <2>5. g \in 1 .. n /\ failed(g) /\ response' = results[g]
    BY <2>3, <2>4 DEF g
  <2>6. Sound(response', policy, parts[g].candidates, parts[g].seats, Graph)
    BY <1>5, <2>5
  <2>7. ASSUME response'.status = "ERROR" PROVE AnswerHolds'
    BY <2>6, <2>7, QuietAnswers DEF Sound
  <2>8. ASSUME response'.status = "INFEASIBLE" PROVE AnswerHolds'
    <3>1. Solving(g) = {}
      BY <2>6, <2>8 DEF Sound, Solving
    <3> QED
      BY <1>1, <1>2, <1>4, <2>5, <2>6, <2>8, <3>1, InfeasibleAnswers DEF Sound
  <2>9. AnswerHolds'
    BY <2>5, <2>7, <2>8
  <2> QED
    BY <1>6, <2>9 DEF ServiceInv
<1>8. CASE ~\E i \in 1 .. n : failed(i)
  <2> DEFINE all == AllPlaces
  <2>1. \A i \in 1 .. n : /\ results[i].status \in {"OPTIMAL", "FEASIBLE"}
                          /\ results[i].place \in Solving(i)
    BY <1>5, <1>8 DEF Sound, Solving
  <2>2. /\ IsInjective(all) /\ Violations(policy, all, Graph) = {}
        /\ DOMAIN all = C \/ (DOMAIN all = {} /\ ~(Cardinality(C) <= Cardinality(S)))
        /\ \A i \in 1 .. n : \A c \in parts[i].candidates :
             c \in DOMAIN all /\ all[c] = results[i].place[c]
        /\ DOMAIN all = UNION {parts[i].candidates : i \in 1 .. n}
        /\ \A c \in DOMAIN all : all[c] \in S
    BY <1>2, <1>4, <2>1, PlacesTogether
  <2>3. response' = Result(status, all, Cost(all, Graph), "none")
    BY <1>4, <1>8, <2>2 DEF Respond, Answer
  <2>4. status \in {"OPTIMAL", "FEASIBLE"}
    OBVIOUS
  <2>5. /\ response'.status \in {"OPTIMAL", "FEASIBLE"} /\ response'.status = status
        /\ response'.place = all /\ response'.objective = Cost(all, Graph)
        /\ response'.code = "none"
    <3> HIDE DEF all, status
    <3> QED
      BY <2>3, <2>4 DEF Result
  <2>6. Graph' = Graph /\ (TooManyCandidates' <=> TooManyCandidates)
    BY <1>1 DEF Graph, TooManyCandidates
  <2> HIDE DEF all, status
  <2>7. DOMAIN all = IF TooManyCandidates THEN {} ELSE C
    <3>1. ASSUME TooManyCandidates, DOMAIN all = C PROVE FALSE
      <4>1. all \in [C -> S]
        <5>1. all = [c \in DOMAIN all |-> all[c]]
          BY DEF all, AllPlaces
        <5> QED
          BY <2>2, <3>1, <5>1
      <4> QED
        BY <1>2, <2>2, <3>1, <4>1, SizesAreNumbers, NoRoom DEF Typed, TooManyCandidates
    <3> QED
      BY <1>2, <2>2, <3>1, SizesAreNumbers
  <2>8. /\ SolvedIsComplete' /\ SolvedObeysRule' /\ ValidatorAgrees' /\ InfeasibleIsProven'
    <3>1. SolvedIsComplete'
      <4>1. request.route # "partitioned" => ~TooManyCandidates
        BY <1>2 DEF Accepted
      <4> QED
        BY <1>1, <2>2, <2>5, <2>6, <2>7, <4>1 DEF SolvedIsComplete
    <3>2. SolvedObeysRule'
      <4>1. request'.route # "solve"
        BY <1>1, <1>2
      <4>2. Violations(request'.policy, response'.place, Graph') = {}
        BY <1>1, <2>2, <2>5, <2>6
      <4> QED
        BY <4>1, <4>2 DEF SolvedObeysRule
    <3>3. ValidatorAgrees'
      BY <2>5 DEF ValidatorAgrees
    <3>4. InfeasibleIsProven'
      BY <2>5 DEF InfeasibleIsProven
    <3> QED
      BY <3>1, <3>2, <3>3, <3>4
  <2>9. ASSUME status = "OPTIMAL", request.route = "solve-domain",
               NEW q \in Placements(policy, C, S, Graph)
        PROVE  Cost(all, Graph) <= Cost(q, Graph)
    <3>1. n = 1 /\ ~TooManyCandidates
      BY <1>2, <1>4, <2>9 DEF Accepted
    <3>2. 1 \in 1 .. n /\ results[1].status = "OPTIMAL"
      BY <1>4, <2>9, <3>1 DEF status
    <3>3. DOMAIN all = C /\ DOMAIN all = parts[1].candidates
      <4>1. 1 .. n = {1}
        BY <3>1
      <4> QED
        BY <2>2, <2>7, <3>1, <4>1
    <3>4. parts[1].seats = S
      <4>1. /\ [i \in 1 .. n |-> parts[i].seats] \in [1 .. n -> SUBSET S]
            /\ \A s \in S : \E i \in 1 .. n : s \in parts[i].seats
        BY <1>3 DEF DomainsOf, Divide
      <4>2. \A i \in 1 .. n : i = 1
        BY <3>1
      <4> QED
        BY <3>2, <4>1, <4>2
    <3>5. results[1].place \in [C -> S]
      BY <2>1, <3>2, <3>3, <3>4 DEF Solving, Placements
    <3>6. all = [c \in DOMAIN all |-> all[c]]
      BY DEF all, AllPlaces
    <3>7. all = results[1].place
      BY <2>2, <3>2, <3>3, <3>5, <3>6
    <3>8. Cost(results[1].place, Graph) <= Cost(q, Graph)
      BY <1>5, <3>2, <3>3, <3>4 DEF Sound
    <3> QED
      BY <3>7, <3>8
  <2>10. OptimalIsBest'
    BY <1>1, <1>2, <2>5, <2>6, <2>9 DEF OptimalIsBest
  <2>11. AnswerHolds'
    BY <2>8, <2>10 DEF AnswerHolds
  <2> QED
    BY <1>6, <2>11 DEF ServiceInv
<1> QED
  BY <1>7, <1>8

(* The invariant is inductive. *)
LEMMA StepKeeps == ServiceInv /\ [NextService]_serviceVars => ServiceInv'
<1> SUFFICES ASSUME ServiceInv, [NextService]_serviceVars PROVE ServiceInv'
  OBVIOUS
<1>1. CASE UNCHANGED serviceVars
  <2>1. UNCHANGED <<request, stage, parts, results, response>>
    BY <1>1 DEF serviceVars
  <2>2. StagesKnow'
    BY <2>1 DEF ServiceInv, StagesKnow, Accepted, TooManyCandidates, PartsKnown, ResultsKnown,
                OutcomesOf, Graph
  <2>3. AnswerHolds'
    BY <2>1 DEF ServiceInv, AnswerHolds, SolvedIsComplete, SolvedObeysRule, ValidatorAgrees,
                InfeasibleIsProven, OptimalIsBest, Solved, TooManyCandidates, Graph,
                ClassesHaveOneDepartment
  <2> QED
    BY <2>2, <2>3 DEF ServiceInv
<1>2. CASE NextService
  BY <1>2, RefuseKeeps, SolveRequestKeeps, GraphAndPartitionKeeps, CheckKeeps,
     SolveDomainKeeps, RespondKeeps DEF NextService
<1> QED
  BY <1>1, <1>2

(* Whatever requests there are and however CP-SAT answers them, truthfully:
   the inductive invariant. *)
THEOREM ServiceInvariance == SpecService => []ServiceInv
  BY InitKnows, StepKeeps, PTL DEF SpecService

(* A solution is whole, or empty where the pipeline was given more candidates
   than seats; it is never a part of a seating. *)
THEOREM SolutionsAreComplete == SpecService => []SolvedIsComplete
<1>1. ServiceInv => SolvedIsComplete
  BY DEF ServiceInv, AnswerHolds
<1> QED
  BY <1>1, ServiceInvariance, PTL

(* A solution obeys the policy, or has the zeros of its scope. *)
THEOREM SolutionsObeyTheRule == SpecService => []SolvedObeysRule
<1>1. ServiceInv => SolvedObeysRule
  BY DEF ServiceInv, AnswerHolds
<1> QED
  BY <1>1, ServiceInvariance, PTL

(* The validators never turn down what the models chose. *)
THEOREM ValidatorsAgree == SpecService => []ValidatorAgrees
<1>1. ServiceInv => ValidatorAgrees
  BY DEF ServiceInv, AnswerHolds
<1> QED
  BY <1>1, ServiceInvariance, PTL

(* "Infeasible" is true of every placement of the candidates themselves. *)
THEOREM InfeasibleIsTrue == SpecService => []InfeasibleIsProven
<1>1. ServiceInv => InfeasibleIsProven
  BY DEF ServiceInv, AnswerHolds
<1> QED
  BY <1>1, ServiceInvariance, PTL

(* "Optimal" is true of every placement of the candidates themselves; on
   /solve, for the class scope and classes of one department. *)
THEOREM OptimalIsTrue == SpecService => []OptimalIsBest
<1>1. ServiceInv => OptimalIsBest
  BY DEF ServiceInv, AnswerHolds
<1> QED
  BY <1>1, ServiceInvariance, PTL

-----------------------------------------------------------------------------
(* The models themselves, apart from any request. *)

(* Choosing the classes first (approach C) neither gains nor loses a solution:
   every pattern that stage 1 may choose becomes a placement that the oracle
   accepts, and every placement that it accepts has a pattern. *)
THEOREM PatternsMatchPlacements ==
  ASSUME NEW C \in SUBSET Candidates, NEW S \in SUBSET AllSeats, IsFiniteSet(S)
  PROVE  /\ \A p \in Patterns("class", C, S) :
              AssignCandidates("class", C, p) \in OraclePlacements(C, S)
         /\ \A place \in OraclePlacements(C, S) :
              /\ PatternOf(place, C, S) \in Patterns("class", C, S)
              /\ Realises(place, PatternOf(place, C, S), "class", C, S)
<1>1. ASSUME NEW p \in Patterns("class", C, S)
      PROVE  AssignCandidates("class", C, p) \in OraclePlacements(C, S)
  <2> DEFINE place == AssignCandidates("class", C, p)
  <2>1. Realises(place, p, "class", C, S)
    BY AssignmentRealises
  <2> HIDE DEF place
  <2>2. RequiredZeros(place, C, S)
    BY <2>1, RealisedIsValid
  <2>3. place \in OraclePlacements(C, S)
    BY <2>1, <2>2 DEF Realises, RequiredZeros, OraclePlacements
  <2> QED
    BY <2>3 DEF place
<1>2. ASSUME NEW place \in OraclePlacements(C, S)
      PROVE  /\ PatternOf(place, C, S) \in Patterns("class", C, S)
             /\ Realises(place, PatternOf(place, C, S), "class", C, S)
  BY PatternSolves, PatternIsRealised DEF OraclePlacements
<1> QED
  BY <1>1, <1>2

(* The constraints on labels (seatlabel.py) and the validator's count of pairs
   (validation.py) are one rule, in both directions, wherever a model is built
   at all: a missing year is a label to the one and no year to the other, but
   _solve_domain raises before they could differ. *)
THEOREM ModelAndValidatorAgree ==
  ASSUME NEW policy \in {"DEPARTMENT_ONLY", "STRICT_DEPT_OR_YEAR", "COHORT"},
         NEW C, NEW S, NEW es, BuildFailure(policy, C) = "none",
         NEW place \in [C -> S], IsInjective(place)
  PROVE  place \in Placements(policy, C, S, es) <=> Violations(policy, place, es) = {}
<1>1. ASSUME place \in Placements(policy, C, S, es)
      PROVE  Violations(policy, place, es) = {}
  BY <1>1, PlacementsObey
<1>2. ASSUME Violations(policy, place, es) = {}
      PROVE  place \in Placements(policy, C, S, es)
  <2>1. \A e : \A c \in Inhabitant(place, e[1]), d \in Inhabitant(place, e[2]) :
          c \in C /\ d \in C
    BY DEF Inhabitant
  <2>2. policy = "DEPARTMENT_ONLY" \/ \A c \in C : Year[c] # "<none>"
    BY DEF BuildFailure, YearsOf
  <2>3. ASSUME NEW e \in es,
               NEW c \in Inhabitant(place, e[1]), NEW d \in Inhabitant(place, e[2]),
               Forbidden(policy, c, d)
        PROVE  FALSE
    <3>1. policy = "DEPARTMENT_ONLY" \/ (Year[c] # "<none>" /\ Year[d] # "<none>")
      BY <2>1, <2>2
    <3>2. e \in Violations(policy, place, es)
      BY <2>3, <3>1 DEF Violations, Forbidden, CohortOf
    <3> QED
      BY <1>2, <3>2
  <2> QED
    BY <2>3 DEF Placements, DomainEdges
<1> QED
  BY <1>1, <1>2
=============================================================================
