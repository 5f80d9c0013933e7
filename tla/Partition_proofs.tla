--------------------------- MODULE Partition_proofs ---------------------------
(***************************************************************************)
(* Proofs about Partition: union-find yields connected components, what is *)
(* dispatched is a partition, the round robin is balanced, and the solver  *)
(* service finds the same domains and solves them (the lemmas about its    *)
(* side are in SolverService_proofs).                                      *)
(*                                                                         *)
(* Paths in the forest would need induction.  Sets that the forest does    *)
(* not lead out of or into do not: two seats are in one tree when no such  *)
(* set separates them (Joined).                                            *)
(***************************************************************************)
EXTENDS PartitionMirror, SolverService_proofs, FiniteSetTheorems, FunctionTheorems,
        WellFoundedInduction, TLAPS

ParentClosed(p, Q) == \A s \in DOMAIN p : s \in Q <=> p[s] \in Q

Joined(p, s, t) == \A Q \in SUBSET DOMAIN p : ParentClosed(p, Q) => (s \in Q <=> t \in Q)

(* Every path ends: a nonempty set that p does not lead out of has a root. *)
Grounded(p) ==
  \A Q \in SUBSET DOMAIN p :
    Q # {} /\ (\A s \in Q : p[s] \in Q) => \E r \in Q : p[r] = r

(* Two roots are roots of two trees. *)
Separated(p) ==
  \A r, t \in DOMAIN p :
    p[r] = r /\ p[t] = t /\ r # t =>
      \E Q \in SUBSET DOMAIN p : ParentClosed(p, Q) /\ r \in Q /\ t \notin Q

Forest(p) == Grounded(p) /\ Separated(p)

Halved(p, x) == [p EXCEPT ![x] = p[p[x]]]
Linked(p, b, a) == [p EXCEPT ![b] = a]

-----------------------------------------------------------------------------
(* Joined is an equivalence. *)
LEMMA JoinedIsEquivalence ==
  ASSUME NEW p
  PROVE  /\ \A s : Joined(p, s, s)
         /\ \A s, t : Joined(p, s, t) => Joined(p, t, s)
         /\ \A s, t, u : Joined(p, s, t) /\ Joined(p, t, u) => Joined(p, s, u)
  BY DEF Joined

LEMMA ParentIsJoined ==
  ASSUME NEW S, NEW p \in [S -> S], NEW s \in S
  PROVE  Joined(p, p[s], s)
  BY DEF Joined, ParentClosed

(* Path halving changes neither roots nor trees. *)
LEMMA HalvingKeepsForest ==
  ASSUME NEW S, NEW p \in [S -> S], Forest(p), NEW x \in S, p[x] # x,
         NEW q, q = Halved(p, x)
  PROVE  /\ q \in [S -> S] /\ Forest(q)
         /\ \A s \in S : q[s] = s <=> p[s] = s
         /\ \A Q \in SUBSET S : ParentClosed(q, Q) <=> ParentClosed(p, Q)
         /\ \A s, t : Joined(q, s, t) <=> Joined(p, s, t)
<1>1. q \in [S -> S] /\ q[x] = p[p[x]] /\ \A s \in S : s # x => q[s] = p[s]
  BY DEF Halved
<1>2. p[p[x]] # x
  <2> SUFFICES ASSUME p[p[x]] = x PROVE FALSE
    OBVIOUS
  <2>1. {x, p[x]} \in SUBSET DOMAIN p /\ {x, p[x]} # {}
    OBVIOUS
  <2>2. \A s \in {x, p[x]} : p[s] \in {x, p[x]}
    OBVIOUS
  <2>3. PICK r \in {x, p[x]} : p[r] = r
    BY <2>1, <2>2 DEF Forest, Grounded
  <2> QED
    BY <2>3
<1>3. \A s \in S : q[s] = s <=> p[s] = s
  BY <1>1, <1>2
<1>4. \A Q \in SUBSET S : ParentClosed(q, Q) <=> ParentClosed(p, Q)
  <2> SUFFICES ASSUME NEW Q \in SUBSET S
               PROVE  ParentClosed(q, Q) <=> ParentClosed(p, Q)
    OBVIOUS
  <2>1. DOMAIN p = S /\ DOMAIN q = S /\ p[x] \in S
    BY <1>1
  <2>2. ASSUME ParentClosed(p, Q) PROVE ParentClosed(q, Q)
    BY <1>1, <2>1, <2>2 DEF ParentClosed
  <2>3. ASSUME ParentClosed(q, Q) PROVE ParentClosed(p, Q)
    <3>1. p[x] \in Q <=> p[p[x]] \in Q
      BY <1>1, <2>1, <2>3 DEF ParentClosed
    <3>2. x \in Q <=> p[p[x]] \in Q
      BY <1>1, <2>1, <2>3 DEF ParentClosed
    <3>3. \A s \in S : s # x => (s \in Q <=> p[s] \in Q)
      BY <1>1, <2>1, <2>3 DEF ParentClosed
    <3> QED
      BY <2>1, <3>1, <3>2, <3>3 DEF ParentClosed
  <2> QED
    BY <2>2, <2>3
<1>5. Grounded(q)
  <2> SUFFICES ASSUME NEW Q \in SUBSET S, Q # {}, \A s \in Q : q[s] \in Q
               PROVE  \E r \in Q : q[r] = r
    BY <1>1 DEF Grounded
  <2>1. CASE x \notin Q
    <3>1. \A s \in Q : p[s] \in Q
      BY <1>1, <2>1
    <3>2. \E r \in Q : p[r] = r
      BY <3>1 DEF Forest, Grounded
    <3> QED
      BY <1>3, <3>2
  <2>2. CASE x \in Q
    <3>1. Q \cup {p[x]} \in SUBSET DOMAIN p /\ Q \cup {p[x]} # {}
      BY <2>2
    <3>2. \A s \in Q \cup {p[x]} : p[s] \in Q \cup {p[x]}
      BY <1>1, <2>2
    <3>3. PICK r \in Q \cup {p[x]} : p[r] = r
      BY <3>1, <3>2 DEF Forest, Grounded
    <3>4. r \in Q
      BY <1>1, <2>2, <3>3
    <3> QED
      BY <1>3, <3>3, <3>4
  <2> QED
    BY <2>1, <2>2
<1>6. Separated(q)
  <2>0. DOMAIN q = S
    BY <1>1
  <2> SUFFICES ASSUME NEW r \in DOMAIN q, NEW t \in DOMAIN q, q[r] = r, q[t] = t, r # t
               PROVE  \E Q \in SUBSET DOMAIN q : ParentClosed(q, Q) /\ r \in Q /\ t \notin Q
    BY DEF Separated
  <2> r \in S /\ t \in S
    BY <2>0
  <2>1. p[r] = r /\ p[t] = t
    BY <1>3
  <2>2. \E Q \in SUBSET S : ParentClosed(p, Q) /\ r \in Q /\ t \notin Q
    BY <2>1 DEF Forest, Separated
  <2> QED
    BY <1>4, <2>0, <2>2
<1>7. \A s, t : Joined(q, s, t) <=> Joined(p, s, t)
  BY <1>1, <1>4 DEF Joined
<1> QED
  BY <1>1, <1>3, <1>4, <1>5, <1>6, <1>7 DEF Forest

(* Linking a root below another joins their two trees and no others. *)
LEMMA LinkingKeepsForest ==
  ASSUME NEW S, NEW p \in [S -> S], Forest(p),
         NEW a \in S, p[a] = a, NEW b \in S, p[b] = b,
         NEW q, q = Linked(p, b, a)
  PROVE  /\ q \in [S -> S] /\ Forest(q)
         /\ \A Q \in SUBSET S :
              ParentClosed(q, Q) <=> ParentClosed(p, Q) /\ (a \in Q <=> b \in Q)
<1>1. q \in [S -> S] /\ q[b] = a /\ \A s \in S : s # b => q[s] = p[s]
  BY DEF Linked
<1>2. \A Q \in SUBSET S :
        ParentClosed(q, Q) <=> ParentClosed(p, Q) /\ (a \in Q <=> b \in Q)
  <2> SUFFICES ASSUME NEW Q \in SUBSET S
               PROVE  ParentClosed(q, Q) <=> ParentClosed(p, Q) /\ (a \in Q <=> b \in Q)
    OBVIOUS
  <2>1. DOMAIN p = S /\ DOMAIN q = S
    BY <1>1
  <2>2. ParentClosed(q, Q) => ParentClosed(p, Q) /\ (a \in Q <=> b \in Q)
    BY <1>1, <2>1 DEF ParentClosed
  <2>3. ParentClosed(p, Q) /\ (a \in Q <=> b \in Q) => ParentClosed(q, Q)
    BY <1>1, <2>1 DEF ParentClosed
  <2> QED
    BY <2>2, <2>3
<1>3. CASE a = b
  <2>1. q = p
    BY <1>3 DEF Linked
  <2> QED
    BY <1>1, <1>2, <2>1
<1>4. CASE a # b
  <2>1. \A s \in S : q[s] = s <=> p[s] = s /\ s # b
    BY <1>1, <1>4
  <2>2. Grounded(q)
    <3> SUFFICES ASSUME NEW Q \in SUBSET S, Q # {}, \A s \in Q : q[s] \in Q
                 PROVE  \E r \in Q : q[r] = r
      BY <1>1 DEF Grounded
    <3>1. CASE b \in Q
      BY <1>1, <1>4, <3>1
    <3>2. CASE b \notin Q
      <4>1. \A s \in Q : p[s] \in Q
        BY <1>1, <3>2
      <4>2. PICK r \in Q : p[r] = r
        BY <4>1 DEF Forest, Grounded
      <4> QED
        BY <1>1, <3>2, <4>2
    <3> QED
      BY <3>1, <3>2
  <2>3. Separated(q)
    <3>0. DOMAIN q = S
      BY <1>1
    <3> SUFFICES ASSUME NEW r \in DOMAIN q, NEW t \in DOMAIN q, q[r] = r, q[t] = t, r # t
                 PROVE  \E Q \in SUBSET DOMAIN q : ParentClosed(q, Q) /\ r \in Q /\ t \notin Q
      BY DEF Separated
    <3> r \in S /\ t \in S
      BY <3>0
    <3>1. p[r] = r /\ r # b /\ p[t] = t /\ t # b
      BY <2>1
    <3>2. PICK Q \in SUBSET S : ParentClosed(p, Q) /\ r \in Q /\ t \notin Q
      BY <3>1 DEF Forest, Separated
    <3>3. PICK B \in SUBSET S : ParentClosed(p, B) /\ b \in B /\ t \notin B
      BY <3>1 DEF Forest, Separated
    <3>4. PICK R \in SUBSET S : ParentClosed(p, R) /\ b \in R /\ r \notin R
      BY <3>1 DEF Forest, Separated
    <3>5. CASE a \in Q
      <4>1. Q \cup B \in SUBSET S /\ ParentClosed(p, Q \cup B)
        BY <3>2, <3>3 DEF ParentClosed
      <4> QED
        BY <1>2, <3>0, <3>2, <3>3, <3>5, <4>1
    <3>6. CASE a \notin Q
      <4>1. Q \ R \in SUBSET S /\ ParentClosed(p, Q \ R)
        BY <3>2, <3>4 DEF ParentClosed
      <4> QED
        BY <1>2, <3>0, <3>2, <3>4, <3>6, <4>1
    <3> QED
      BY <3>5, <3>6
  <2> QED
    BY <1>1, <1>2, <2>2, <2>3 DEF Forest
<1> QED
  BY <1>3, <1>4

-----------------------------------------------------------------------------
(* The orders of seats and edges are strict, so there is one next one.     *)

LEMMA EdgeBeforeIsStrict ==
  ASSUME NEW e \in AllSeats \X AllSeats, NEW f \in AllSeats \X AllSeats, EdgeBefore(e, f)
  PROVE  ~EdgeBefore(f, e)
<1>1. e[1] \in AllSeats /\ e[2] \in AllSeats /\ f[1] \in AllSeats /\ f[2] \in AllSeats
  OBVIOUS
<1> QED
  BY <1>1, BeforeIsStrict DEF EdgeBefore

-----------------------------------------------------------------------------
GraphTypes ==
  /\ input \in Inputs
  /\ edges \subseteq Seats \X Seats /\ todo \subseteq edges
  /\ parent \in [Seats -> Seats]
  /\ rest \subseteq Seats
  /\ groups \in [Seats -> SUBSET Seats]
  /\ roots \in Seq(Seats)
  /\ at \in Seq(Seats)
  /\ \/ at = << >>
     \/ pc = "union" /\ DOMAIN at = {1, 2} /\ at[1] \in Seats /\ at[2] \in Seats
     \/ pc = "group" /\ DOMAIN at = {1} /\ at[1] \in Seats

(* The trees are unions of what the edges taken so far connect, and a find
   stays in the tree it started in. *)
TreesInv ==
  /\ Forest(parent)
  /\ \A B \in SUBSET Seats : Closed(B, edges) => ParentClosed(parent, B)
  /\ \A e \in edges \ todo : Joined(parent, e[1], e[2])
  /\ pc = "graph" => edges = {} /\ todo = {}
  /\ pc = "union" /\ at # << >> =>
       \A e \in todo : NextEdge(e) => /\ Joined(parent, at[1], e[1])
                                      /\ Joined(parent, at[2], e[2])
  /\ pc = "group" /\ at # << >> =>
       \A s \in rest : NextSeat(s) => Joined(parent, at[1], s)

(* A group is what has been collected of a root's tree. *)
GroupsInv ==
  /\ pc \in {"graph", "union"} => \A r \in Seats : groups[r] = {}
  /\ pc \in {"group", "allocate"} =>
       todo = {} /\ \A s \in Seats \ rest : \E r \in Seats : s \in groups[r]
  /\ pc = "allocate" => rest = {}
  /\ \A r \in Seats : \A s \in groups[r] : IsRoot(r) /\ Joined(parent, s, r)
  /\ \A r \in Seats : groups[r] # {} => \E i \in DOMAIN roots : roots[i] = r
  /\ \A i \in DOMAIN roots : groups[roots[i]] # {}
  /\ \A i, j \in DOMAIN roots : i # j => roots[i] # roots[j]

GraphInv == GraphTypes /\ TreesInv /\ GroupsInv

LEMMA SeatsOfInput ==
  ASSUME input \in Inputs
  PROVE  Seats \subseteq AllSeats /\ IsFiniteSet(Seats)
  BY InputAssumption DEF Seats

LEMMA OneNext ==
  ASSUME GraphTypes
  PROVE  /\ \A e, f \in todo : NextEdge(e) /\ NextEdge(f) => e = f
         /\ \A s, t \in rest : NextSeat(s) /\ NextSeat(t) => s = t
<1>1. todo \subseteq AllSeats \X AllSeats /\ rest \subseteq AllSeats
  BY SeatsOfInput DEF GraphTypes
<1> QED
  BY <1>1, BeforeIsStrict, EdgeBeforeIsStrict DEF NextEdge, NextSeat

(* At first every seat is a tree. *)
LEMMA InitGraph == Init => GraphInv
<1> SUFFICES ASSUME Init PROVE GraphInv
  OBVIOUS
<1>1. GraphTypes
  BY DEF Init, GraphTypes
<1>2. \A Q \in SUBSET Seats : ParentClosed(parent, Q)
  BY DEF Init, ParentClosed
<1>3. Forest(parent)
  <2>1. Grounded(parent)
    BY DEF Init, Grounded
  <2>2. Separated(parent)
    <3> SUFFICES ASSUME NEW r \in Seats, NEW t \in Seats, r # t
                 PROVE  \E Q \in SUBSET Seats : ParentClosed(parent, Q) /\ r \in Q /\ t \notin Q
      BY DEF Init, Separated
    <3> QED
      BY <1>2
  <2> QED
    BY <2>1, <2>2 DEF Forest
<1>4. TreesInv
  BY <1>2, <1>3 DEF Init, TreesInv
<1>5. GroupsInv
  BY DEF Init, GroupsInv
<1> QED
  BY <1>1, <1>4, <1>5 DEF GraphInv

-----------------------------------------------------------------------------
(* The steps of partitionCandidates that work on the graph.                *)

LEMMA BuildGraphKeeps == GraphInv /\ BuildGraph => GraphInv'
<1> SUFFICES ASSUME GraphInv, BuildGraph PROVE GraphInv'
  OBVIOUS
<1>1. Seats' = Seats
  BY DEF BuildGraph, Seats
<1>2. GraphTypes'
  <2>1. edges' \subseteq Seats \X Seats /\ todo' \subseteq edges'
    <3>1. CASE UNCHANGED <<edges, todo>>
      BY <3>1 DEF GraphInv, GraphTypes
    <3>2. CASE ~UNCHANGED <<edges, todo>>
      <4>1. edges' = HallEdges(Seats, input.adjacency) \cup input.cross /\ todo' = edges'
        BY <3>2 DEF BuildGraph
      <4>2. \A e \in input.cross : e \in AllSeats \X AllSeats /\ LegalCrossEdge(Seats, e)
        BY <3>2, InputAssumption DEF BuildGraph, GraphInv, GraphTypes
      <4>3. \A e \in input.cross : e \in Seats \X Seats
        BY <4>2 DEF LegalCrossEdge
      <4>4. HallEdges(Seats, input.adjacency) \subseteq Seats \X Seats
        BY DEF HallEdges
      <4> QED
        BY <4>1, <4>3, <4>4
    <3> QED
      BY <3>1, <3>2
  <2>2. at = << >>
    BY DEF BuildGraph, GraphInv, GraphTypes
  <2> QED
    BY <1>1, <2>1, <2>2 DEF BuildGraph, GraphInv, GraphTypes
<1>3. TreesInv'
  <2>1. \A B \in SUBSET Seats : ParentClosed(parent, B)
    BY DEF BuildGraph, GraphInv, TreesInv, Closed
  <2>2. edges' \ todo' = {}
    BY DEF BuildGraph, GraphInv, TreesInv
  <2>3. at' = << >> /\ parent' = parent /\ pc' # "graph"
    BY DEF BuildGraph, GraphInv, GraphTypes
  <2> QED
    BY <1>1, <2>1, <2>2, <2>3 DEF GraphInv, TreesInv
<1>4. GroupsInv'
  BY <1>1 DEF BuildGraph, GraphInv, GroupsInv, IsRoot
<1> QED
  BY <1>2, <1>3, <1>4 DEF GraphInv

LEMMA HalveKeeps == GraphInv /\ Halve => GraphInv'
<1> SUFFICES ASSUME GraphInv, Halve PROVE GraphInv'
  OBVIOUS
<1>1. Seats' = Seats
  BY DEF Halve, Seats
<1>2. PICK k \in DOMAIN at :
        /\ parent[at[k]] # at[k]
        /\ parent' = Halved(parent, at[k])
        /\ at' = [at EXCEPT ![k] = parent[parent[at[k]]]]
  BY DEF Halve, IsRoot, Halved
<1>3. at # << >> /\ at[k] \in Seats
  BY <1>2 DEF GraphInv, GraphTypes
<1>4. /\ parent' \in [Seats -> Seats] /\ Forest(parent')
      /\ \A s \in Seats : parent'[s] = s <=> parent[s] = s
      /\ \A Q \in SUBSET Seats : ParentClosed(parent', Q) <=> ParentClosed(parent, Q)
      /\ \A s, t : Joined(parent', s, t) <=> Joined(parent, s, t)
  <2>1. parent \in [Seats -> Seats] /\ Forest(parent)
    BY DEF GraphInv, GraphTypes, TreesInv
  <2> QED
    BY <1>2, <1>3, <2>1, HalvingKeepsForest
<1>5. GraphTypes'
  <2>1. parent[parent[at[k]]] \in Seats
    BY <1>3 DEF GraphInv, GraphTypes
  <2> QED
    BY <1>1, <1>2, <1>3, <1>4, <2>1 DEF Halve, GraphInv, GraphTypes
<1>6. \A j \in DOMAIN at : Joined(parent, at'[j], at[j])
  <2>1. parent[at[k]] \in Seats /\ parent \in [Seats -> Seats]
    BY <1>3 DEF GraphInv, GraphTypes
  <2>2. Joined(parent, parent[parent[at[k]]], at[k])
    BY <1>3, <2>1, ParentIsJoined, JoinedIsEquivalence
  <2> QED
    BY <1>2, <2>2, JoinedIsEquivalence
<1>7. TreesInv'
  <2>1. \A e \in edges' \ todo' : Joined(parent', e[1], e[2])
    BY <1>4 DEF Halve, GraphInv, TreesInv
  <2>2. \A B \in SUBSET Seats : Closed(B, edges') => ParentClosed(parent', B)
    BY <1>4 DEF Halve, GraphInv, TreesInv
  <2>3. pc = "union" =>
          \A e \in todo : NextEdge(e) => /\ Joined(parent', at'[1], e[1])
                                         /\ Joined(parent', at'[2], e[2])
    <3> SUFFICES ASSUME pc = "union", NEW e \in todo, NextEdge(e)
                 PROVE  Joined(parent', at'[1], e[1]) /\ Joined(parent', at'[2], e[2])
      OBVIOUS
    <3>1. 1 \in DOMAIN at /\ 2 \in DOMAIN at
      BY <1>3 DEF GraphInv, GraphTypes
    <3>2. Joined(parent, at[1], e[1]) /\ Joined(parent, at[2], e[2])
      BY <1>3 DEF GraphInv, TreesInv
    <3> QED
      BY <1>4, <1>6, <3>1, <3>2, JoinedIsEquivalence
  <2>4. pc = "group" =>
          \A s \in rest : NextSeat(s) => Joined(parent', at'[1], s)
    <3> SUFFICES ASSUME pc = "group", NEW s \in rest, NextSeat(s)
                 PROVE  Joined(parent', at'[1], s)
      OBVIOUS
    <3>1. 1 \in DOMAIN at
      BY <1>3 DEF GraphInv, GraphTypes
    <3>2. Joined(parent, at[1], s)
      BY <1>3 DEF GraphInv, TreesInv
    <3> QED
      BY <1>4, <1>6, <3>1, <3>2, JoinedIsEquivalence
  <2>5. /\ pc' = pc /\ edges' = edges /\ todo' = todo /\ rest' = rest
        /\ \A e : NextEdge(e)' = NextEdge(e)
        /\ \A s : NextSeat(s)' = NextSeat(s)
    BY DEF Halve, NextEdge, NextSeat
  <2> QED
    BY <1>1, <2>1, <2>2, <1>4, <2>3, <2>4, <2>5 DEF GraphInv, TreesInv
<1>8. GroupsInv'
  <2>1. \A r \in Seats : IsRoot(r)' <=> IsRoot(r)
    BY <1>4 DEF IsRoot
  <2>2. UNCHANGED <<pc, todo, rest, roots, groups>>
    BY DEF Halve
  <2>3. \A r \in Seats : \A s \in groups[r] : IsRoot(r)' /\ Joined(parent', s, r)
    BY <1>4, <2>1 DEF GraphInv, GroupsInv
  <2> QED
    BY <1>1, <2>2, <2>3 DEF GraphInv, GroupsInv
<1> QED
  BY <1>5, <1>7, <1>8 DEF GraphInv

LEMMA StartUnionKeeps == GraphInv /\ StartUnion => GraphInv'
<1> SUFFICES ASSUME GraphInv, StartUnion PROVE GraphInv'
  OBVIOUS
<1>1. Seats' = Seats
  BY DEF StartUnion, Seats
<1>2. PICK e \in todo : NextEdge(e) /\ at' = e
  BY DEF StartUnion
<1>3. /\ UNCHANGED <<pc, input, edges, parent, todo, rest, roots, groups>>
      /\ \A f : NextEdge(f)' = NextEdge(f)
  BY DEF StartUnion, NextEdge
<1>4. GraphTypes'
  <2>1. e \in Seats \X Seats
    BY DEF GraphInv, GraphTypes
  <2>2. DOMAIN e = {1, 2} /\ e[1] \in Seats /\ e[2] \in Seats
    BY <2>1
  <2>3. e \in Seq(Seats)
    <3>1. PICK s, t \in Seats : e = <<s, t>>
      BY <2>1
    <3> QED
      BY <3>1
  <2>4. pc = "union"
    BY DEF StartUnion
  <2> QED
    BY <1>1, <1>2, <1>3, <2>2, <2>3, <2>4 DEF GraphInv, GraphTypes
<1>5. TreesInv'
  <2>1. \A f \in todo : NextEdge(f) => f = e
    BY <1>2, OneNext DEF GraphInv
  <2>2. \A f \in todo : NextEdge(f) => /\ Joined(parent, at'[1], f[1])
                                       /\ Joined(parent, at'[2], f[2])
    BY <1>2, <2>1, JoinedIsEquivalence
  <2>3. pc # "group"
    BY DEF StartUnion
  <2> QED
    BY <1>1, <1>3, <2>2, <2>3 DEF GraphInv, TreesInv
<1>6. GroupsInv'
  BY <1>1, <1>3 DEF GraphInv, GroupsInv, IsRoot
<1> QED
  BY <1>4, <1>5, <1>6 DEF GraphInv

LEMMA LinkKeeps == GraphInv /\ Link => GraphInv'
<1> SUFFICES ASSUME GraphInv, Link PROVE GraphInv'
  OBVIOUS
<1>1. Seats' = Seats
  BY DEF Link, Seats
<1>2. PICK e \in todo : NextEdge(e) /\ todo' = todo \ {e}
  BY DEF Link
<1>3. /\ pc = "union" /\ at # << >> /\ at' = << >>
      /\ parent[at[1]] = at[1] /\ parent[at[2]] = at[2]
      /\ parent' = Linked(parent, at[2], at[1])
      /\ UNCHANGED <<pc, input, edges, rest, roots, groups>>
  BY DEF Link, IsRoot, Linked
<1>4. at[1] \in Seats /\ at[2] \in Seats /\ parent \in [Seats -> Seats] /\ Forest(parent)
  BY <1>3 DEF GraphInv, GraphTypes, TreesInv
<1>5. /\ parent' \in [Seats -> Seats] /\ Forest(parent')
      /\ \A Q \in SUBSET Seats :
           ParentClosed(parent', Q) <=> ParentClosed(parent, Q) /\ (at[1] \in Q <=> at[2] \in Q)
  BY <1>3, <1>4, LinkingKeepsForest
<1>6. GraphTypes'
  BY <1>1, <1>2, <1>3, <1>5 DEF GraphInv, GraphTypes
<1>7. TreesInv'
  <2>1. e \in edges /\ e[1] \in Seats /\ e[2] \in Seats
    BY DEF GraphInv, GraphTypes
  <2>2. Joined(parent, at[1], e[1]) /\ Joined(parent, at[2], e[2])
    BY <1>2, <1>3 DEF GraphInv, TreesInv
  <2>3. \A B \in SUBSET Seats : Closed(B, edges) => ParentClosed(parent', B)
    <3> SUFFICES ASSUME NEW B \in SUBSET Seats, Closed(B, edges)
                 PROVE  ParentClosed(parent', B)
      OBVIOUS
    <3>1. ParentClosed(parent, B)
      BY DEF GraphInv, TreesInv
    <3>2. e[1] \in B <=> e[2] \in B
      BY <2>1 DEF Closed
    <3>3. at[1] \in B <=> at[2] \in B
      BY <1>4, <2>2, <3>1, <3>2 DEF Joined
    <3> QED
      BY <1>5, <3>1, <3>3
  <2>4. \A s, t : Joined(parent, s, t) => Joined(parent', s, t)
    BY <1>4, <1>5 DEF Joined
  <2>5. Joined(parent', at[1], at[2])
    BY <1>5 DEF Joined
  <2>6. Joined(parent', e[1], e[2])
    BY <2>2, <2>4, <2>5, JoinedIsEquivalence
  <2>7. \A f \in edges \ todo' : Joined(parent', f[1], f[2])
    BY <1>2, <2>4, <2>6 DEF GraphInv, TreesInv
  <2> QED
    BY <1>1, <1>3, <1>5, <2>3, <2>7 DEF TreesInv
<1>8. GroupsInv'
  <2>1. \A r \in Seats : groups[r] = {}
    BY <1>3 DEF GraphInv, GroupsInv
  <2> QED
    BY <1>1, <1>3, <2>1 DEF GraphInv, GroupsInv
<1> QED
  BY <1>6, <1>7, <1>8 DEF GraphInv

LEMMA GroupingKeeps == GraphInv /\ Grouping => GraphInv'
<1> SUFFICES ASSUME GraphInv, Grouping PROVE GraphInv'
  OBVIOUS
<1>1. Seats' = Seats
  BY DEF Grouping, Seats
<1>2. GraphTypes'
  BY <1>1 DEF Grouping, GraphInv, GraphTypes
<1>3. TreesInv'
  BY <1>1 DEF Grouping, GraphInv, TreesInv
<1>4. GroupsInv'
  BY <1>1 DEF Grouping, GraphInv, GroupsInv, IsRoot
<1> QED
  BY <1>2, <1>3, <1>4 DEF GraphInv

LEMMA StartFindKeeps == GraphInv /\ StartFind => GraphInv'
<1> SUFFICES ASSUME GraphInv, StartFind PROVE GraphInv'
  OBVIOUS
<1>1. Seats' = Seats
  BY DEF StartFind, Seats
<1>2. PICK s \in rest : NextSeat(s) /\ at' = <<s>>
  BY DEF StartFind
<1>3. /\ UNCHANGED <<pc, input, edges, parent, todo, rest, roots, groups>>
      /\ \A t : NextSeat(t)' = NextSeat(t)
      /\ pc = "group"
  BY DEF StartFind, NextSeat
<1>4. GraphTypes'
  <2>1. s \in Seats
    BY DEF GraphInv, GraphTypes
  <2>2. DOMAIN <<s>> = {1} /\ <<s>>[1] = s
    OBVIOUS
  <2> QED
    BY <1>1, <1>2, <1>3, <2>1, <2>2 DEF GraphInv, GraphTypes
<1>5. TreesInv'
  <2>1. \A t \in rest : NextSeat(t) => t = s
    BY <1>2, OneNext DEF GraphInv
  <2>2. \A t \in rest : NextSeat(t) => Joined(parent, at'[1], t)
    BY <1>2, <2>1, JoinedIsEquivalence
  <2> QED
    BY <1>1, <1>3, <2>2 DEF GraphInv, TreesInv
<1>6. GroupsInv'
  BY <1>1, <1>3 DEF GraphInv, GroupsInv, IsRoot
<1> QED
  BY <1>4, <1>5, <1>6 DEF GraphInv

LEMMA CollectKeeps == GraphInv /\ Collect => GraphInv'
<1> SUFFICES ASSUME GraphInv, Collect PROVE GraphInv'
  OBVIOUS
<1> DEFINE r == at[1]
<1>1. Seats' = Seats
  BY DEF Collect, Seats
<1>2. PICK s \in rest : /\ NextSeat(s)
                        /\ rest' = rest \ {s}
                        /\ groups' = [groups EXCEPT ![r] = groups[r] \cup {s}]
  BY DEF Collect
<1>3. /\ pc = "group" /\ at # << >> /\ at' = << >> /\ parent[r] = r
      /\ roots' = IF groups[r] = {} THEN Append(roots, r) ELSE roots
      /\ UNCHANGED <<pc, input, edges, parent, todo>>
  BY DEF Collect, IsRoot
<1>4. /\ r \in Seats /\ s \in Seats /\ groups \in [Seats -> SUBSET Seats]
      /\ roots \in Seq(Seats)
  BY <1>2, <1>3 DEF GraphInv, GraphTypes
<1>5. /\ groups' \in [Seats -> SUBSET Seats]
      /\ groups'[r] = groups[r] \cup {s}
      /\ \A t \in Seats : t # r => groups'[t] = groups[t]
  BY <1>2, <1>4
<1>6. GraphTypes'
  <2>1. roots' \in Seq(Seats)
    BY <1>3, <1>4
  <2> QED
    BY <1>1, <1>2, <1>3, <1>5, <2>1 DEF GraphInv, GraphTypes
<1>7. TreesInv'
  BY <1>1, <1>3 DEF GraphInv, TreesInv
<1>8. GroupsInv'
  <2>1. Joined(parent, s, r)
    BY <1>2, <1>3, JoinedIsEquivalence DEF GraphInv, TreesInv
  <2>2. \A t \in Seats : \A u \in groups'[t] : parent'[t] = t /\ Joined(parent', u, t)
    BY <1>3, <1>5, <2>1 DEF GraphInv, GroupsInv, IsRoot
  <2>3. \A u \in Seats \ rest' : \E t \in Seats : u \in groups'[t]
    <3> SUFFICES ASSUME NEW u \in Seats \ rest' PROVE \E t \in Seats : u \in groups'[t]
      OBVIOUS
    <3>1. CASE u = s
      BY <1>4, <1>5, <3>1
    <3>2. CASE u # s
      <4>1. \E t \in Seats : u \in groups[t]
        BY <1>2, <1>3, <3>2 DEF GraphInv, GroupsInv
      <4> QED
        BY <1>5, <4>1
    <3> QED
      BY <3>1, <3>2
  <2>4. CASE groups[r] # {}
    <3>1. roots' = roots
      BY <1>3, <2>4
    <3>2. \A t \in Seats : groups'[t] # {} <=> groups[t] # {}
      BY <1>5, <2>4
    <3>3. \A i \in DOMAIN roots : roots[i] \in Seats
      BY <1>4
    <3>4. /\ \A t \in Seats : groups'[t] # {} => \E i \in DOMAIN roots' : roots'[i] = t
          /\ \A i \in DOMAIN roots' : groups'[roots'[i]] # {}
          /\ \A i, j \in DOMAIN roots' : i # j => roots'[i] # roots'[j]
      BY <3>1, <3>2, <3>3 DEF GraphInv, GroupsInv
    <3> QED
      BY <1>1, <1>3, <2>2, <2>3, <3>4 DEF GraphInv, GroupsInv, IsRoot
  <2>5. CASE groups[r] = {}
    <3>1. /\ roots' = Append(roots, r)
          /\ DOMAIN roots' = DOMAIN roots \cup {Len(roots) + 1}
          /\ roots'[Len(roots) + 1] = r
          /\ \A i \in DOMAIN roots : roots'[i] = roots[i] /\ roots[i] \in Seats
      BY <1>3, <1>4, <2>5
    <3>2. \A i \in DOMAIN roots : roots[i] # r /\ groups[roots[i]] # {}
      BY <2>5 DEF GraphInv, GroupsInv
    <3>3. /\ \A t \in Seats : groups'[t] # {} => \E i \in DOMAIN roots' : roots'[i] = t
          /\ \A i \in DOMAIN roots' : groups'[roots'[i]] # {}
          /\ \A i, j \in DOMAIN roots' : i # j => roots'[i] # roots'[j]
      <4>1. \A t \in Seats : groups[t] # {} => \E i \in DOMAIN roots : roots[i] = t
        BY DEF GraphInv, GroupsInv
      <4>2. \A i, j \in DOMAIN roots : i # j => roots[i] # roots[j]
        BY DEF GraphInv, GroupsInv
      <4>3. \A t \in Seats : groups'[t] # {} => \E i \in DOMAIN roots' : roots'[i] = t
        BY <1>5, <3>1, <4>1
      <4>4. \A i \in DOMAIN roots' : groups'[roots'[i]] # {}
        BY <1>5, <3>1, <3>2
      <4>5. \A i, j \in DOMAIN roots' : i # j => roots'[i] # roots'[j]
        BY <3>1, <3>2, <4>2
      <4> QED
        BY <4>3, <4>4, <4>5
    <3> QED
      BY <1>1, <1>3, <2>2, <2>3, <3>3 DEF GraphInv, GroupsInv, IsRoot
  <2> QED
    BY <2>4, <2>5
<1> QED
  BY <1>6, <1>7, <1>8 DEF GraphInv

(* The graph is left alone from then on. *)
LEMMA GraphStays ==
  ASSUME GraphInv, UNCHANGED <<input, graphVars>>,
         \/ pc' = pc
         \/ /\ at = << >> /\ pc' \notin {"graph", "union", "group"}
            /\ pc' = "allocate" => pc = "group" /\ rest = {}
  PROVE  GraphInv'
<1>1. /\ Seats' = Seats
      /\ UNCHANGED <<edges, parent, todo, rest, at, roots, groups>>
      /\ \A s : NextSeat(s)' = NextSeat(s)
      /\ \A e : NextEdge(e)' = NextEdge(e)
      /\ \A s : IsRoot(s)' = IsRoot(s)
  BY DEF graphVars, Seats, NextSeat, NextEdge, IsRoot
<1>2. GraphTypes'
  BY <1>1 DEF GraphInv, GraphTypes
<1>3. TreesInv'
  BY <1>1 DEF GraphInv, TreesInv
<1>4. GroupsInv'
  BY <1>1 DEF GraphInv, GroupsInv
<1> QED
  BY <1>2, <1>3, <1>4 DEF GraphInv

LEMMA NextKeepsGraph == GraphInv /\ [Next]_vars => GraphInv'
<1> SUFFICES ASSUME GraphInv, [Next]_vars PROVE GraphInv'
  OBVIOUS
<1>1. CASE BuildGraph
  BY <1>1, BuildGraphKeeps
<1>2. CASE Halve
  BY <1>2, HalveKeeps
<1>3. CASE StartUnion
  BY <1>3, StartUnionKeeps
<1>4. CASE Link
  BY <1>4, LinkKeeps
<1>5. CASE Grouping
  BY <1>5, GroupingKeeps
<1>6. CASE StartFind
  BY <1>6, StartFindKeeps
<1>7. CASE Collect
  BY <1>7, CollectKeeps
<1>8. CASE MakeDomains
  BY <1>8, GraphStays DEF MakeDomains
<1>9. CASE Allocate
  BY <1>9, GraphStays DEF Allocate
<1>10. CASE AllocationDone \/ Guards \/ Gate
  <2>1. at = << >>
    BY <1>10 DEF GraphInv, GraphTypes, AllocationDone, Guards, Gate
  <2> QED
    BY <1>10, <2>1, GraphStays DEF AllocationDone, Guards, Gate
<1>11. CASE UNCHANGED vars
  BY <1>11, GraphStays DEF vars
<1> QED
  BY <1>1, <1>2, <1>3, <1>4, <1>5, <1>6, <1>7, <1>8, <1>9, <1>10, <1>11 DEF Next

LEMMA GraphInvariant == Spec => []GraphInv
  BY InitGraph, NextKeepsGraph, PTL DEF Spec

LEMMA GroupsAreRight == GraphInv => GroupsAreComponents
<1> SUFFICES ASSUME GraphInv, pc = "allocate"
             PROVE  /\ Seats = UNION {groups[roots[i]] : i \in DOMAIN roots}
                    /\ \A i, j \in DOMAIN roots :
                         i # j => groups[roots[i]] \cap groups[roots[j]] = {}
                    /\ \A i \in DOMAIN roots : IsComponent(groups[roots[i]], edges)
  BY DEF GroupsAreComponents
<1>1. /\ parent \in [Seats -> Seats] /\ groups \in [Seats -> SUBSET Seats]
      /\ edges \subseteq Seats \X Seats
      /\ \A i \in DOMAIN roots : roots[i] \in Seats
  BY DEF GraphInv, GraphTypes
<1>2. \A s \in Seats : \E r \in Seats : s \in groups[r]
  BY DEF GraphInv, GroupsInv
<1>3. \A r, t \in Seats : IsRoot(r) /\ IsRoot(t) /\ Joined(parent, r, t) => r = t
  BY <1>1 DEF GraphInv, TreesInv, Forest, Separated, Joined, IsRoot
<1>4. \A r \in Seats : \A s \in groups[r] : IsRoot(r) /\ Joined(parent, s, r)
  BY DEF GraphInv, GroupsInv
<1>5. Seats = UNION {groups[roots[i]] : i \in DOMAIN roots}
  <2>1. \A s \in Seats : \E i \in DOMAIN roots : s \in groups[roots[i]]
    BY <1>1, <1>2 DEF GraphInv, GroupsInv
  <2> QED
    BY <1>1, <2>1
<1>6. \A r, t \in Seats : groups[r] \cap groups[t] # {} => r = t
  BY <1>3, <1>4, JoinedIsEquivalence
<1>7. \A i, j \in DOMAIN roots :
        i # j => groups[roots[i]] \cap groups[roots[j]] = {}
  BY <1>1, <1>6 DEF GraphInv, GroupsInv
<1>8. ASSUME NEW i \in DOMAIN roots PROVE IsComponent(groups[roots[i]], edges)
  <2> DEFINE r == roots[i]
             C == groups[r]
  <2>1. r \in Seats /\ C \in SUBSET Seats /\ C # {} /\ IsRoot(r)
    BY <1>1, <1>4 DEF GraphInv, GroupsInv
  <2>2. \A s \in Seats : s \in C <=> Joined(parent, s, r)
    <3> SUFFICES ASSUME NEW s \in Seats, Joined(parent, s, r) PROVE s \in C
      BY <1>4, <2>1
    <3>1. PICK t \in Seats : s \in groups[t]
      BY <1>2
    <3>2. IsRoot(t) /\ Joined(parent, t, r)
      BY <1>4, <3>1, JoinedIsEquivalence
    <3> QED
      BY <1>3, <2>1, <3>1, <3>2
  <2>3. Closed(C, edges)
    <3>1. \A e \in edges : /\ e[1] \in Seats /\ e[2] \in Seats
                           /\ Joined(parent, e[1], e[2])
      BY <1>1 DEF GraphInv, GroupsInv, TreesInv
    <3> QED
      BY <2>2, <3>1, JoinedIsEquivalence DEF Closed
  <2>4. ASSUME NEW B \in SUBSET C, Closed(B, edges), B # {} PROVE B = C
    <3>1. B \in SUBSET Seats /\ ParentClosed(parent, B)
      BY <2>1, <2>4 DEF GraphInv, TreesInv
    <3>2. \A s \in C : s \in B <=> r \in B
      BY <1>1, <2>1, <2>2, <3>1 DEF Joined
    <3> QED
      BY <2>4, <3>2
  <2> QED
    BY <2>1, <2>3, <2>4 DEF IsComponent
<1> QED
  BY <1>5, <1>7, <1>8

(* Union-find is right for every set of active seats and every set of edges:
   when the domains are made, the groups of seats are the connected components
   of the seat graph. *)
THEOREM GroupsFoundAreComponents == Spec => []GroupsAreComponents
  BY GroupsAreRight, GraphInvariant, PTL

-----------------------------------------------------------------------------
(* Types of the allocation and of the verdict.                             *)

AllocTypes ==
  /\ pc \in {"graph", "union", "group", "allocate", "guard", "gate", "done"}
  /\ domains \in Seq(SUBSET Seats)
  /\ broken \in BOOLEAN /\ failed \in BOOLEAN
  /\ waiting \subseteq input.candidates
  /\ placed \in [Candidates -> 0 .. Len(domains)]
  /\ cursor \in Nat
  /\ reason \in {"none", "aggregate", "capacity", "oversized", "allocation", "invariant"}
  /\ verdict \in {"none", "threw", "FAILED_PARTITION", "FAILED_GUARD", "DISPATCHING"}
  /\ pc \in {"graph", "union", "group"} => placed = [c \in Candidates |-> 0]

LEMMA DomainAtIsDomain ==
  ASSUME NEW n \in Nat, Len(domains) \in Nat \ {0}
  PROVE  DomainAt(n) \in 1 .. Len(domains)
  BY DEF DomainAt

LEMMA CursorForType == cursor \in Nat => \A c : CursorFor(c) \in Nat
  BY DEF CursorFor

LEMMA InitAllocTypes == Init => AllocTypes
<1> SUFFICES ASSUME Init PROVE AllocTypes
  OBVIOUS
<1>1. domains = << >> /\ Len(domains) = 0
  BY DEF Init
<1>2. placed = [c \in Candidates |-> 0]
  BY DEF Init
<1>3. placed \in [Candidates -> 0 .. Len(domains)] /\ domains \in Seq(SUBSET Seats)
  BY <1>1, <1>2
<1> QED
  BY <1>2, <1>3 DEF Init, AllocTypes

(* What Allocate does to a candidate: it is placed on a free domain, or every
   domain is full. *)
LEMMA Allocation ==
  ASSUME AllocTypes, GraphTypes, Allocate
  PROVE  \E c \in waiting :
           /\ c \in input.candidates /\ c \in Candidates
           /\ waiting' = waiting \ {c}
           /\ cursor' \in Nat
           /\ \/ \E d \in DOMAIN domains : /\ Free(d)
                                          /\ placed' = [placed EXCEPT ![c] = d]
                                          /\ failed' = failed
              \/ /\ \A d \in DOMAIN domains : ~Free(d)
                 /\ failed' = TRUE
                 /\ placed' = placed
<1>1. PICK c \in waiting :
        /\ waiting' = waiting \ {c}
        /\ \/ \E k \in 0 .. Len(domains) - 1 :
                /\ Free(DomainAt(CursorFor(c) + k))
                /\ placed' = [placed EXCEPT ![c] = DomainAt(CursorFor(c) + k)]
                /\ cursor' = CursorFor(c) + k + 1
                /\ failed' = failed
           \/ /\ \A j \in DOMAIN domains : ~Free(j)
              /\ cursor' = CursorFor(c) + Len(domains)
              /\ failed' = TRUE
              /\ placed' = placed
  BY DEF Allocate
<1>2. c \in input.candidates /\ c \in Candidates
  BY InputAssumption DEF AllocTypes, GraphTypes
<1>3. CursorFor(c) \in Nat /\ Len(domains) \in Nat /\ DOMAIN domains = 1 .. Len(domains)
  BY CursorForType DEF AllocTypes
<1>4. CASE \E k \in 0 .. Len(domains) - 1 :
             /\ Free(DomainAt(CursorFor(c) + k))
             /\ placed' = [placed EXCEPT ![c] = DomainAt(CursorFor(c) + k)]
             /\ cursor' = CursorFor(c) + k + 1
             /\ failed' = failed
  <2>1. PICK k \in 0 .. Len(domains) - 1 :
             /\ Free(DomainAt(CursorFor(c) + k))
             /\ placed' = [placed EXCEPT ![c] = DomainAt(CursorFor(c) + k)]
             /\ cursor' = CursorFor(c) + k + 1
             /\ failed' = failed
    BY <1>4
  <2>2. CursorFor(c) + k \in Nat /\ Len(domains) \in Nat \ {0} /\ cursor' \in Nat
    BY <1>3, <2>1
  <2>3. DomainAt(CursorFor(c) + k) \in DOMAIN domains
    BY <1>3, <2>2, DomainAtIsDomain
  <2> QED
    BY <1>1, <1>2, <2>1, <2>2, <2>3
<1>5. CASE /\ \A j \in DOMAIN domains : ~Free(j)
           /\ cursor' = CursorFor(c) + Len(domains)
           /\ failed' = TRUE
           /\ placed' = placed
  <2>1. cursor' \in Nat
    BY <1>3, <1>5
  <2> QED
    BY <1>1, <1>2, <1>5, <2>1, Zenon
<1> QED
  BY <1>1, <1>4, <1>5

LEMMA NextKeepsAllocTypes == GraphTypes /\ AllocTypes /\ [Next]_vars => AllocTypes'
<1> SUFFICES ASSUME GraphTypes, AllocTypes, [Next]_vars PROVE AllocTypes'
  OBVIOUS
<1>1. CASE BuildGraph \/ Halve \/ StartUnion \/ Link \/ Grouping \/ StartFind \/ Collect
  BY <1>1 DEF AllocTypes, Seats, BuildGraph, Halve, StartUnion, Link, Grouping, StartFind,
     Collect, allocVars, outVars
<1>2. CASE MakeDomains
  <2>1. CASE TooMany
    BY <1>2, <2>1 DEF AllocTypes, Seats, MakeDomains
  <2>2. CASE ~TooMany
    <3>1. domains' = [i \in DOMAIN roots |-> SeatsOfHalls(groups[roots[i]])]
      BY <1>2, <2>2 DEF MakeDomains
    <3>2. roots \in Seq(Seats) /\ Len(roots) \in Nat /\ DOMAIN roots = 1 .. Len(roots)
      BY DEF GraphTypes
    <3>3. \A i \in DOMAIN roots : SeatsOfHalls(groups[roots[i]]) \in SUBSET Seats
      BY DEF SeatsOfHalls
    <3>4. domains' \in Seq(SUBSET Seats)
      BY <3>1, <3>2, <3>3
    <3>5. broken' \in BOOLEAN
      BY <1>2, <2>2 DEF MakeDomains, Breaks
    <3>6. placed = [c \in Candidates |-> 0] /\ placed' = placed
      BY <1>2 DEF MakeDomains, AllocTypes
    <3>7. Len(domains') \in Nat
      BY <3>4
    <3>8. placed' \in [Candidates -> 0 .. Len(domains')]
      BY <3>6, <3>7
    <3> QED
      BY <1>2, <2>2, <3>4, <3>5, <3>8 DEF MakeDomains, AllocTypes, Seats
  <2> QED
    BY <2>1, <2>2
<1>3. CASE Allocate
  <2>1. UNCHANGED <<pc, input, domains, broken, reason, verdict>> /\ pc = "allocate"
    BY <1>3 DEF Allocate, outVars
  <2>2. PICK c \in waiting : /\ c \in Candidates
                             /\ waiting' = waiting \ {c}
                             /\ cursor' \in Nat
                             /\ \/ \E d \in DOMAIN domains :
                                    /\ placed' = [placed EXCEPT ![c] = d]
                                    /\ failed' = failed
                                \/ failed' = TRUE /\ placed' = placed
    BY <1>3, Allocation
  <2>3. DOMAIN domains = 1 .. Len(domains) /\ Len(domains) \in Nat
    BY DEF AllocTypes
  <2>4. placed' \in [Candidates -> 0 .. Len(domains)]
    BY <2>2, <2>3 DEF AllocTypes
  <2> QED
    BY <2>1, <2>2, <2>4 DEF AllocTypes, Seats
<1>4. CASE AllocationDone
  BY <1>4 DEF AllocTypes, Seats, AllocationDone, allocVars, outVars
<1>5. CASE Guards
  <2>1. \A i : DomainReason(i) \in {"none", "capacity", "oversized"}
    BY DEF DomainReason
  <2>2. FirstReason \in {"none", "capacity", "oversized"}
    BY <2>1 DEF FirstReason
  <2> QED
    BY <1>5, <2>2 DEF AllocTypes, Seats, Guards, allocVars
<1>6. CASE Gate
  BY <1>6 DEF AllocTypes, Seats, Gate, allocVars
<1>7. CASE UNCHANGED vars
  BY <1>7 DEF AllocTypes, Seats, vars, allocVars, outVars
<1> QED
  BY <1>1, <1>2, <1>3, <1>4, <1>5, <1>6, <1>7 DEF Next

LEMMA AllocTypesInvariant == Spec => []AllocTypes
<1>1. GraphInv => GraphTypes
  BY DEF GraphInv
<1> QED
  BY <1>1, InitAllocTypes, NextKeepsAllocTypes, GraphInvariant, PTL DEF Spec

(* Every variable keeps its type. *)
THEOREM TypeCorrect == Spec => []TypeOK
<1>1. GraphInv /\ AllocTypes => TypeOK
  BY DEF GraphInv, GraphTypes, AllocTypes, TypeOK
<1> QED
  BY <1>1, GraphInvariant, AllocTypesInvariant, PTL

-----------------------------------------------------------------------------
(* Domains, allocation and guards.                                         *)

LEMMA CountsAreNatural ==
  ASSUME GraphTypes, AllocTypes
  PROVE  /\ IsFiniteSet(input.candidates) /\ input.candidates \subseteq Candidates
         /\ IsFiniteSet(Seats)
         /\ Cardinality(input.candidates) \in Nat /\ Cardinality(Seats) \in Nat
         /\ \A i : IsFiniteSet(Allocated(i)) /\ Load(i) \in Nat
         /\ \A i \in DOMAIN domains : Cardinality(domains[i]) \in Nat
<1>1. input.candidates \subseteq Candidates /\ IsFiniteSet(Candidates)
  BY InputAssumption, CandidateAssumption DEF GraphTypes
<1>2. IsFiniteSet(input.candidates)
  BY <1>1, FS_Subset
<1>3. IsFiniteSet(Seats)
  BY SeatsOfInput DEF GraphTypes
<1>4. \A i : IsFiniteSet(Allocated(i))
  BY <1>1, FS_Subset DEF Allocated
<1>5. \A i \in DOMAIN domains : domains[i] \in SUBSET Seats
  BY DEF AllocTypes
<1>6. \A i \in DOMAIN domains : IsFiniteSet(domains[i])
  BY <1>3, <1>5, FS_Subset
<1> QED
  BY <1>1, <1>2, <1>3, <1>4, <1>6, FS_CardinalityType DEF Load

(* The domains are made of components, while no session is too large. *)
DomainsMade ==
  /\ ~TooMany
  /\ domains = [i \in DOMAIN roots |-> SeatsOfHalls(groups[roots[i]])]
  /\ Seats = UNION {groups[roots[i]] : i \in DOMAIN roots}
  /\ \A i \in DOMAIN roots : Closed(groups[roots[i]], edges)
  /\ broken = Breaks(domains)

(* What the gate decides on. *)
Judged ==
  /\ reason # "none" <=> \/ TooMany
                         \/ SplitHall
                         \/ \E i \in DOMAIN domains : Load(i) > MaxDomainCandidates
  /\ reason = "none" =>
       /\ DomainsMade /\ ~broken
       /\ \A c \in input.candidates : placed[c] # 0

AllocInv ==
  /\ pc \in {"graph", "union", "group"} => domains = << >>
  /\ pc \in {"allocate", "guard"} =>
       DomainsMade /\ \A c \in input.candidates \ waiting : placed[c] # 0
  /\ pc = "guard" => waiting = {}
  /\ pc = "gate" => Judged
  /\ pc = "done" /\ verdict # "threw" => Judged
  /\ pc # "done" => verdict = "none"
  /\ Dispatched => pc = "done" /\ reason = "none"
  /\ ~failed
  /\ \A c \in Candidates : placed[c] # 0 => c \in input.candidates \ waiting
  /\ \A i \in DOMAIN domains : Load(i) <= Cardinality(domains[i])

(* The invariants of the domains break exactly when a hall falls apart. *)
LEMMA BreaksWhenSplit ==
  ASSUME GraphTypes, DomainsMade
  PROVE  Breaks(domains) <=> SplitHall
<1> DEFINE C(i) == groups[roots[i]]
<1>1. /\ DOMAIN domains = DOMAIN roots
      /\ \A i \in DOMAIN roots : domains[i] = SeatsOfHalls(C(i)) /\ C(i) \in SUBSET Seats
  <2>1. \A i \in DOMAIN roots : roots[i] \in Seats
    BY DEF GraphTypes
  <2>2. \A i \in DOMAIN roots : C(i) \in SUBSET Seats
    BY <2>1 DEF GraphTypes
  <2>3. /\ DOMAIN domains = DOMAIN roots
        /\ \A i \in DOMAIN roots : domains[i] = SeatsOfHalls(C(i))
    BY DEF DomainsMade
  <2> QED
    BY <2>2, <2>3
<1>2. \A s \in Seats : \E i \in DOMAIN roots : s \in C(i)
  BY DEF DomainsMade
<1>3. \A i \in DOMAIN roots : \A s \in Seats :
        s \in domains[i] <=> s[1] \in HallsOf(C(i))
  BY <1>1 DEF SeatsOfHalls, HallsOf
<1>4. \A i \in DOMAIN roots : C(i) \subseteq domains[i] /\ domains[i] \subseteq Seats
  BY <1>1, <1>3 DEF HallsOf, SeatsOfHalls
<1>5. (\E i, j \in DOMAIN roots : i # j /\ domains[i] \cap domains[j] # {}) <=> SplitHall
  <2>1. ASSUME NEW i \in DOMAIN roots, NEW j \in DOMAIN roots
        PROVE  domains[i] \cap domains[j] # {} <=> HallsOf(C(i)) \cap HallsOf(C(j)) # {}
    <3>1. ASSUME NEW s \in domains[i] \cap domains[j]
          PROVE  HallsOf(C(i)) \cap HallsOf(C(j)) # {}
      BY <1>3, <1>4
    <3>2. ASSUME NEW h \in HallsOf(C(i)) \cap HallsOf(C(j))
          PROVE  domains[i] \cap domains[j] # {}
      <4>1. PICK s \in C(i) : s[1] = h
        BY DEF HallsOf
      <4> QED
        BY <1>1, <1>3, <4>1
    <3> QED
      BY <3>1, <3>2
  <2> QED
    BY <2>1 DEF SplitHall
<1>6. Seats = UNION {domains[i] : i \in DOMAIN domains}
  BY <1>1, <1>2, <1>4
<1>7. ASSUME NEW e \in edges, NEW i \in DOMAIN domains, (e[1] \in domains[i]) # (e[2] \in domains[i])
      PROVE  \E j \in DOMAIN roots : i # j /\ domains[i] \cap domains[j] # {}
  <2>1. e[1] \in Seats /\ e[2] \in Seats
    BY DEF GraphTypes
  <2>2. PICK j \in DOMAIN roots : e[1] \in C(j)
    BY <1>2, <2>1
  <2>3. e[2] \in C(j)
    BY <2>2 DEF DomainsMade, Closed
  <2>4. e[1] \in domains[j] /\ e[2] \in domains[j]
    BY <1>4, <2>2, <2>3
  <2>5. e[1] \in domains[i] \/ e[2] \in domains[i]
    BY <1>7
  <2> QED
    BY <1>7, <2>4, <2>5
<1> QED
  BY <1>1, <1>5, <1>6, <1>7 DEF Breaks

(* Round robin finds every candidate a seat: were all domains full, there
   would be no candidate left. *)
LEMMA SomeDomainIsFree ==
  ASSUME GraphTypes, AllocTypes, AllocInv, DomainsMade,
         NEW c \in waiting, \A d \in DOMAIN domains : ~Free(d)
  PROVE  FALSE
<1> DEFINE T == input.candidates \ {c}
           A == [i \in DOMAIN domains |-> Allocated(i)]
<1>1. /\ IsFiniteSet(T) /\ Cardinality(T) = Cardinality(input.candidates) - 1
      /\ c \in input.candidates
  BY CountsAreNatural, FS_RemoveElement DEF AllocTypes
<1>2. domains \in [DOMAIN domains -> SUBSET Seats] /\ 0 \notin DOMAIN domains
  BY DEF AllocTypes
<1>3. A \in [DOMAIN domains -> SUBSET T]
  <2> SUFFICES ASSUME NEW i \in DOMAIN domains PROVE Allocated(i) \subseteq T
    OBVIOUS
  <2>1. \A d \in Allocated(i) : d \in Candidates /\ placed[d] # 0
    BY <1>2 DEF Allocated
  <2> QED
    BY <2>1 DEF AllocInv
<1>4. \A i, j \in DOMAIN domains : i # j => A[i] \cap A[j] = {}
  BY DEF Allocated
<1>5. \A i \in DOMAIN domains : Cardinality(domains[i]) <= Cardinality(A[i])
  <2> SUFFICES ASSUME NEW i \in DOMAIN domains PROVE Cardinality(domains[i]) <= Load(i)
    BY DEF Load
  <2> QED
    BY CountsAreNatural DEF Free
<1>6. \A s \in Seats : \E i \in DOMAIN domains : s \in domains[i]
  BY DEF DomainsMade, SeatsOfHalls
<1>7. Cardinality(Seats) <= Cardinality(T)
  <2>1. IsFiniteSet(Seats)
    BY CountsAreNatural
  <2> HIDE DEF A, T
  <2> QED
    BY <1>1, <1>2, <1>3, <1>4, <1>5, <1>6, <2>1, FullDomains
<1> QED
  BY <1>1, <1>7, CountsAreNatural DEF DomainsMade, TooMany

LEMMA FirstReasonIsFound ==
  ASSUME AllocTypes
  PROVE  FirstReason = "none" <=> \A i \in DOMAIN domains : DomainReason(i) = "none"
<1> DEFINE bad == {i \in DOMAIN domains : DomainReason(i) # "none"}
<1>1. bad \in SUBSET Nat
  BY DEF AllocTypes
<1>2. CASE bad = {}
  BY <1>2 DEF FirstReason
<1>3. CASE bad # {}
  <2>1. \E n \in bad : \A m \in bad : n <= m
    BY <1>1, <1>3, LeastNatural
  <2>2. (CHOOSE i \in bad : \A j \in bad : i <= j) \in bad
    BY <2>1
  <2> QED
    BY <1>3, <2>2 DEF FirstReason
<1> QED
  BY <1>2, <1>3

LEMMA NobodyIsPlacedAtFirst ==
  GraphTypes /\ AllocTypes /\ placed = [c \in Candidates |-> 0]
    => \A i \in DOMAIN domains : Load(i) <= Cardinality(domains[i])
<1> SUFFICES ASSUME GraphTypes, AllocTypes, placed = [c \in Candidates |-> 0],
                    NEW i \in DOMAIN domains
             PROVE  Load(i) <= Cardinality(domains[i])
  OBVIOUS
<1>1. i # 0
  BY DEF AllocTypes
<1>2. Allocated(i) = {}
  BY <1>1 DEF Allocated
<1>3. Load(i) = 0
  BY <1>2, FS_EmptySet DEF Load
<1> QED
  BY <1>3, CountsAreNatural

LEMMA InitAlloc == Init => AllocInv
  BY DEF Init, AllocInv, Dispatched

LEMMA MakeDomainsKeeps ==
  ASSUME GraphInv, GraphInv', AllocTypes, AllocTypes', AllocInv, MakeDomains
  PROVE  AllocInv'
<1>1. /\ UNCHANGED <<input, edges, roots, groups, placed, failed, verdict>>
      /\ pc = "group" /\ Seats' = Seats /\ TooMany' = TooMany
      /\ placed = [c \in Candidates |-> 0]
  BY DEF MakeDomains, graphVars, Seats, TooMany, AllocTypes
<1>2. \A i \in DOMAIN domains' : Load(i)' <= Cardinality(domains'[i])
  <2>1. (GraphTypes /\ AllocTypes /\ placed = [c \in Candidates |-> 0]
            => \A i \in DOMAIN domains : Load(i) <= Cardinality(domains[i]))'
    BY NobodyIsPlacedAtFirst, PTL
  <2>2. GraphTypes'
    BY DEF GraphInv
  <2> QED
    BY <1>1, <2>1, <2>2
<1>3. CASE TooMany
  <2>1. pc' = "gate" /\ reason' = "aggregate"
    BY <1>3 DEF MakeDomains
  <2>2. Judged'
    BY <1>1, <1>3, <2>1 DEF Judged
  <2> QED
    BY <1>1, <1>2, <2>1, <2>2 DEF AllocInv, Dispatched
<1>4. CASE ~TooMany
  <2>1. /\ pc' = "allocate" /\ waiting' = input.candidates
        /\ domains' = [i \in DOMAIN roots |-> SeatsOfHalls(groups[roots[i]])]
        /\ broken' = Breaks(domains')
    BY <1>4 DEF MakeDomains
  <2>2. GroupsAreComponents'
    BY GroupsAreRight, PTL
  <2>3. DomainsMade'
    <3>1. \A C : SeatsOfHalls(C)' = SeatsOfHalls(C)
      BY <1>1 DEF SeatsOfHalls
    <3>2. Breaks(domains)' = broken'
      BY <1>1, <2>1 DEF Breaks
    <3> QED
      BY <1>1, <1>4, <2>1, <2>2, <3>1, <3>2 DEF DomainsMade, GroupsAreComponents, IsComponent
  <2> QED
    BY <1>1, <1>2, <2>1, <2>3 DEF AllocInv, Dispatched
<1> QED
  BY <1>3, <1>4

LEMMA AllocateKeeps ==
  ASSUME GraphTypes, AllocTypes, AllocInv, Allocate
  PROVE  AllocInv'
<1>1. /\ UNCHANGED <<pc, input, edges, roots, groups, domains, broken, reason, verdict>>
      /\ pc = "allocate" /\ Seats' = Seats /\ TooMany' = TooMany
  BY DEF Allocate, graphVars, outVars, Seats, TooMany
<1>2. DomainsMade
  BY <1>1 DEF AllocInv
<1>3. PICK c \in waiting :
        /\ c \in input.candidates /\ c \in Candidates
        /\ waiting' = waiting \ {c}
        /\ \/ \E d \in DOMAIN domains : /\ Free(d)
                                       /\ placed' = [placed EXCEPT ![c] = d]
                                       /\ failed' = failed
           \/ \A d \in DOMAIN domains : ~Free(d)
  BY Allocation
<1>4. PICK d \in DOMAIN domains : /\ Free(d)
                                  /\ placed' = [placed EXCEPT ![c] = d]
                                  /\ failed' = failed
  BY <1>2, <1>3, SomeDomainIsFree
<1>5. placed[c] = 0 /\ d # 0 /\ placed \in [Candidates -> 0 .. Len(domains)]
      /\ 0 \notin DOMAIN domains
  BY <1>3 DEF AllocInv, AllocTypes
<1>6. placed'[c] = d /\ \A b \in Candidates : b # c => placed'[b] = placed[b]
  BY <1>3, <1>4, <1>5
<1>7. DomainsMade'
  <2>1. \A C : SeatsOfHalls(C)' = SeatsOfHalls(C)
    BY <1>1 DEF SeatsOfHalls
  <2>2. Breaks(domains)' = Breaks(domains)
    BY <1>1 DEF Breaks
  <2> QED
    BY <1>1, <1>2, <2>1, <2>2 DEF DomainsMade
<1>8. \A i \in DOMAIN domains : Load(i)' <= Cardinality(domains[i])
  <2> SUFFICES ASSUME NEW i \in DOMAIN domains PROVE Load(i)' <= Cardinality(domains[i])
    OBVIOUS
  <2>1. CASE i = d
    <3>1. Allocated(i)' = Allocated(i) \cup {c} /\ c \notin Allocated(i)
      BY <1>3, <1>5, <1>6, <2>1 DEF Allocated
    <3>2. Load(i)' = Load(i) + 1
      BY <3>1, CountsAreNatural, FS_AddElement DEF Load
    <3>3. Load(i) < Cardinality(domains[i])
      BY <1>4, <2>1 DEF Free
    <3> QED
      BY <3>2, <3>3, CountsAreNatural
  <2>2. CASE i # d
    <3>1. Allocated(i)' = Allocated(i)
      BY <1>3, <1>5, <1>6, <2>2 DEF Allocated
    <3> QED
      BY <3>1 DEF Load, AllocInv
  <2> QED
    BY <2>1, <2>2
<1>9. \A b \in input.candidates \ waiting' : placed'[b] # 0
  <2>1. input.candidates \subseteq Candidates
    BY CountsAreNatural
  <2> QED
    BY <1>1, <1>3, <1>5, <1>6, <2>1 DEF AllocInv
<1>10. \A b \in Candidates : placed'[b] # 0 => b \in input.candidates \ waiting'
  BY <1>3, <1>6 DEF AllocInv
<1> QED
  BY <1>1, <1>4, <1>7, <1>8, <1>9, <1>10 DEF AllocInv, Dispatched

LEMMA GuardsKeeps ==
  ASSUME GraphTypes, AllocTypes, AllocInv, Guards
  PROVE  AllocInv'
<1>1. /\ UNCHANGED <<input, edges, roots, groups, domains, broken, waiting, placed, failed, verdict>>
      /\ pc = "guard" /\ pc' = "gate" /\ Seats' = Seats /\ TooMany' = TooMany
      /\ SplitHall' = SplitHall
      /\ \A i : Load(i)' = Load(i)
  BY DEF Guards, graphVars, allocVars, Seats, TooMany, SplitHall, HallsOf, Load, Allocated
<1>2. DomainsMade /\ ~failed /\ \A c \in input.candidates : placed[c] # 0
  BY <1>1 DEF AllocInv
<1>3. DomainsMade'
  <2>1. \A C : SeatsOfHalls(C)' = SeatsOfHalls(C)
    BY <1>1 DEF SeatsOfHalls
  <2>2. Breaks(domains)' = Breaks(domains)
    BY <1>1 DEF Breaks
  <2> QED
    BY <1>1, <1>2, <2>1, <2>2 DEF DomainsMade
<1>4. broken <=> SplitHall
  BY <1>2, BreaksWhenSplit DEF DomainsMade
<1>5. \A i \in DOMAIN domains : DomainReason(i) = "none" <=> ~(Load(i) > MaxDomainCandidates)
  <2> SUFFICES ASSUME NEW i \in DOMAIN domains
               PROVE  DomainReason(i) = "none" <=> ~(Load(i) > MaxDomainCandidates)
    OBVIOUS
  <2>1. ~(Load(i) > Cardinality(domains[i]))
    BY CountsAreNatural DEF AllocInv
  <2> QED
    BY <2>1 DEF DomainReason
<1>6. FirstReason = "none" <=> ~\E i \in DOMAIN domains : Load(i) > MaxDomainCandidates
  BY <1>5, FirstReasonIsFound
<1>7. reason' = "none" <=> FirstReason = "none" /\ ~broken
  BY <1>2 DEF Guards
<1>8. Judged'
  <2>1. ~TooMany
    BY <1>2 DEF DomainsMade
  <2> QED
    BY <1>1, <1>2, <1>3, <1>4, <1>6, <1>7, <2>1 DEF Judged
<1> QED
  BY <1>1, <1>8 DEF AllocInv, Dispatched

LEMMA NextKeepsAlloc ==
  ASSUME GraphInv, GraphInv', AllocTypes, AllocTypes', AllocInv, [Next]_vars
  PROVE  AllocInv'
<1>0. GraphTypes
  BY DEF GraphInv
<1>1. CASE BuildGraph \/ Halve \/ StartUnion \/ Link \/ Grouping \/ StartFind \/ Collect
  <2>1. /\ UNCHANGED <<domains, broken, allocVars, reason, input>>
        /\ pc \in {"graph", "union", "group"}
    BY <1>0, <1>1 DEF BuildGraph, Halve, StartUnion, Link, Grouping, StartFind, Collect, outVars,
       GraphTypes
  <2>2. \/ pc' \in {"graph", "union", "group"} /\ verdict' = verdict
        \/ pc' = "done" /\ verdict' = "threw"
    BY <1>1, <2>1 DEF BuildGraph, Halve, StartUnion, Link, Grouping, StartFind, Collect, outVars
  <2>3. domains = << >> /\ DOMAIN domains' = {}
    BY <2>1 DEF AllocInv
  <2> QED
    BY <2>1, <2>2, <2>3 DEF AllocInv, Dispatched, allocVars
<1>2. CASE MakeDomains
  BY <1>2, MakeDomainsKeeps
<1>3. CASE Allocate
  BY <1>0, <1>3, AllocateKeeps
<1>4. CASE Guards
  BY <1>0, <1>4, GuardsKeeps
<1>5. CASE AllocationDone \/ Gate \/ UNCHANGED vars
  <2>1. /\ UNCHANGED <<input, edges, roots, groups, domains, broken, waiting, placed, failed, reason>>
        /\ Seats' = Seats /\ TooMany' = TooMany /\ SplitHall' = SplitHall
        /\ \A i : Load(i)' = Load(i)
    <3>1. UNCHANGED <<input, edges, roots, groups, domains, broken, waiting, placed, failed, reason>>
      BY <1>5 DEF AllocationDone, Gate, vars, graphVars, allocVars, outVars
    <3>2. SplitHall' = SplitHall
      BY <3>1 DEF SplitHall, HallsOf
    <3>3. \A i : Load(i)' = Load(i)
      BY <3>1 DEF Load, Allocated
    <3> QED
      BY <3>1, <3>2, <3>3 DEF Seats, TooMany
  <2>2. DomainsMade' <=> DomainsMade
    <3>1. \A C : SeatsOfHalls(C)' = SeatsOfHalls(C)
      BY <2>1 DEF SeatsOfHalls
    <3>2. Breaks(domains)' = Breaks(domains)
      BY <2>1 DEF Breaks
    <3> QED
      BY <2>1, <3>1, <3>2 DEF DomainsMade
  <2>3. Judged' <=> Judged
    BY <2>1, <2>2 DEF Judged
  <2>4. CASE AllocationDone
    BY <2>1, <2>2, <2>4 DEF AllocInv, AllocationDone, Dispatched, outVars
  <2>5. CASE Gate
    <3>1. pc = "gate" /\ pc' = "done" /\ (Dispatched' => reason = "none")
      BY <2>5 DEF Gate, Dispatched
    <3> QED
      BY <2>1, <2>3, <3>1 DEF AllocInv
  <2>6. CASE UNCHANGED vars
    BY <2>1, <2>2, <2>3, <2>6 DEF AllocInv, Dispatched, vars, outVars
  <2> QED
    BY <1>5, <2>4, <2>5, <2>6
<1> QED
  BY <1>1, <1>2, <1>3, <1>4, <1>5 DEF Next

LEMMA AllocInvariant == Spec => []AllocInv
  BY InitAlloc, NextKeepsAlloc, GraphInvariant, AllocTypesInvariant, PTL DEF Spec

(* Whatever the halls and the session, what is dispatched is a partition of
   both that fits. *)
THEOREM DispatchedArePartitions == Spec => []DispatchedIsPartition
<1>1. GraphInv /\ AllocTypes /\ AllocInv => DispatchedIsPartition
  <2> SUFFICES ASSUME GraphInv, AllocTypes, AllocInv, Dispatched PROVE DispatchedIsPartition!2
    BY DEF DispatchedIsPartition
  <2>1. Judged /\ reason = "none"
    BY DEF AllocInv, Dispatched
  <2>2. /\ DomainsMade /\ ~Breaks(domains)
        /\ \A c \in input.candidates : placed[c] # 0
    BY <2>1 DEF Judged, DomainsMade
  <2>3. \A i, j \in DOMAIN domains : i # j => HallsOf(domains[i]) \cap HallsOf(domains[j]) = {}
    <3> SUFFICES ASSUME NEW i \in DOMAIN domains, NEW j \in DOMAIN domains, i # j,
                        NEW s \in domains[i], NEW t \in domains[j], s[1] = t[1]
                 PROVE  FALSE
      BY DEF HallsOf
    <3>1. s \in Seats
      BY DEF AllocTypes
    <3>2. domains[j] = SeatsOfHalls(groups[roots[j]])
      BY <2>2 DEF DomainsMade
    <3>3. s \in domains[j]
      BY <3>1, <3>2 DEF SeatsOfHalls
    <3> QED
      BY <2>2, <3>3 DEF Breaks
  <2>4. \A e \in edges : \A i \in DOMAIN domains : e[1] \in domains[i] <=> e[2] \in domains[i]
    BY <2>2 DEF Breaks
  <2>5. Seats = UNION {domains[i] : i \in DOMAIN domains}
    BY <2>2 DEF Breaks
  <2> QED
    BY <2>2, <2>3, <2>4, <2>5 DEF AllocInv
<1> QED
  BY <1>1, GraphInvariant, AllocTypesInvariant, AllocInvariant, PTL

(* A session is refused only for too many candidates, a hall that falls apart
   or a domain over the ceiling; the allocation never fails. *)
THEOREM RefusedOnlyForAReason == Spec => []BlockedOnlyWhenItMust
<1>1. AllocInv => BlockedOnlyWhenItMust
  BY DEF AllocInv, Judged, BlockedOnlyWhenItMust
<1> QED
  BY <1>1, AllocInvariant, PTL

-----------------------------------------------------------------------------
(* The round robin. *)

(* Of the turns 0 .. C-1, taken by n domains in rotation, domain i has m. *)
Took(n, i, m, C) ==
  /\ C <= m * n + i - 1
  /\ m = 0 \/ (m - 1) * n + i - 1 < C

(* Multiples grow with their factor. *)
LEMMA ProductsGrow ==
  ASSUME NEW a \in Nat, NEW b \in Nat, NEW n \in Nat, a <= b
  PROVE  a * n <= b * n
<1>1. b - a \in Nat /\ (b - a) * n >= 0
  OBVIOUS
<1>2. (b - a) * n = b * n - a * n
  OBVIOUS
<1>3. a * n \in Nat /\ b * n \in Nat
  OBVIOUS
<1> QED
  BY <1>1, <1>2, <1>3

(* The turn after k domains that had no seat is one more for its domain. *)
LEMMA OneMore ==
  ASSUME NEW n \in Nat \ {0}, NEW i \in 1 .. n, NEW m \in Nat, NEW C \in Nat, NEW k \in 0 .. n - 1,
         Took(n, i, m, C), (C + k) % n = i - 1
  PROVE  Took(n, i, m + 1, C + k + 1)
<1> DEFINE Q == (C + k) \div n
           P == m * n
<1>1. Q \in Nat /\ C + k = Q * n + (i - 1)
  OBVIOUS
<1>2. P \in Nat /\ (m + 1) * n = P + n /\ (m + 1) - 1 = m /\ (m # 0 => (m - 1) * n = P - n)
  OBVIOUS
<1>3. ~(Q < m)
  <2> SUFFICES ASSUME Q < m PROVE FALSE
    OBVIOUS
  <2>1. m - 1 \in Nat /\ Q <= m - 1
    BY <1>1
  <2>2. Q \in Nat
    BY <1>1
  <2>3. Q * n <= (m - 1) * n
    <3> HIDE DEF Q
    <3> QED
      BY <2>1, <2>2, ProductsGrow
  <2> QED
    BY <1>1, <1>2, <2>3 DEF Took
<1>4. P <= Q * n
  <2>1. m <= Q /\ Q \in Nat
    BY <1>1, <1>3
  <2> HIDE DEF Q
  <2> QED
    BY <2>1, ProductsGrow
<1>5. P + i - 1 < C + k + 1
  BY <1>1, <1>4, <1>2
<1>6. C <= P + i - 1
  BY DEF Took
<1> HIDE DEF P, Q
<1> QED
  BY <1>2, <1>5, <1>6 DEF Took

(* Turns of others, the one taken included, leave a domain's count alone. *)
LEMMA NoMore ==
  ASSUME NEW n \in Nat \ {0}, NEW i \in 1 .. n, NEW m \in Nat, NEW C \in Nat, NEW k \in 0 .. n - 1,
         Took(n, i, m, C), \A j \in 0 .. k : (C + j) % n # i - 1
  PROVE  Took(n, i, m, C + k + 1)
<1> DEFINE P == m * n
<1>1. P \in Nat /\ (P + (i - 1)) % n = i - 1
  <2>1. P \in Nat
    OBVIOUS
  <2>2. (m * n + (i - 1)) % n = (i - 1)
    OBVIOUS
  <2> QED
    BY <2>1, <2>2
<1>2. C <= P + i - 1
  BY DEF Took
<1>3. ASSUME P + i - 1 <= C + k PROVE FALSE
  <2> HIDE DEF P
  <2>1. (P + i - 1) - C \in 0 .. k /\ C + ((P + i - 1) - C) = P + (i - 1)
    BY <1>1, <1>2, <1>3
  <2> QED
    BY <1>1, <2>1
<1>4. C + k + 1 <= P + i - 1
  <2> HIDE DEF P
  <2> QED
    BY <1>1, <1>3
<1>5. m = 0 \/ (m - 1) * n + i - 1 < C + k + 1
  <2>1. m # 0 => (m - 1) * n \in Nat
    OBVIOUS
  <2> QED
    BY <2>1 DEF Took
<1> QED
  BY <1>4, <1>5 DEF Took

(* Two domains have had as many turns, up to one. *)
LEMMA Alike ==
  ASSUME NEW n \in Nat \ {0}, NEW i \in 1 .. n, NEW j \in 1 .. n, NEW C \in Nat,
         NEW m \in Nat, NEW l \in Nat, Took(n, i, m, C), Took(n, j, l, C)
  PROVE  m <= l + 1
<1> SUFFICES ASSUME m >= l + 2 PROVE FALSE
  OBVIOUS
<1>1. (m - 1) * n >= l * n + n
  <2>1. m - 2 - l \in Nat /\ (m - 2 - l) * n >= 0 /\ (m - 2 - l) * n = (m - 1) * n - l * n - n
    OBVIOUS
  <2> QED
    BY <2>1
<1>2. (m - 1) * n + i - 1 < C /\ C <= l * n + j - 1
  BY DEF Took
<1> QED
  BY <1>1, <1>2
(* The candidates of department X in domain i. *)
Share(X, i) == {b \in Allocated(i) : Department[b] = X}

(* Departments are taken in their order, and of the one at hand a domain with
   a free seat has had each of its turns. *)
TurnsInv ==
  /\ dept \in Nat
  /\ \A b \in Candidates : placed[b] # 0 => Department[b] <= dept
  /\ \A c \in waiting : dept <= Department[c]
  /\ \A i \in DOMAIN domains :
       Free(i) => Took(Len(domains), i, Cardinality(Share(dept, i)), cursor)
  /\ \A i, j \in DOMAIN domains : Free(i) /\ Free(j) =>
       \A X \in Nat : Cardinality(Share(X, i)) <= Cardinality(Share(X, j)) + 1
  /\ pc \in {"graph", "union", "group"} => cursor = 0 /\ dept = 0

(* Shares can be counted. *)
LEMMA SharesAreFinite ==
  \A X, i : IsFiniteSet(Share(X, i)) /\ Cardinality(Share(X, i)) \in Nat
<1> SUFFICES ASSUME NEW X, NEW i
             PROVE  IsFiniteSet(Share(X, i)) /\ Cardinality(Share(X, i)) \in Nat
  OBVIOUS
<1>1. Share(X, i) \in SUBSET Candidates
  BY DEF Share, Allocated
<1>2. IsFiniteSet(Share(X, i))
  BY <1>1, CandidateAssumption, FS_Subset
<1> QED
  BY <1>2, FS_CardinalityType

(* Nobody has anything yet. *)
LEMMA NoTurnsAtFirst ==
  AllocTypes /\ placed = [c \in Candidates |-> 0] /\ cursor = 0 /\ dept = 0
    /\ (\A c \in waiting : c \in Candidates) => TurnsInv
<1> SUFFICES ASSUME AllocTypes, placed = [c \in Candidates |-> 0], cursor = 0, dept = 0,
                    \A c \in waiting : c \in Candidates
             PROVE  TurnsInv
  OBVIOUS
<1>1. \A i \in DOMAIN domains : \A X : Cardinality(Share(X, i)) = 0
  <2> SUFFICES ASSUME NEW i \in DOMAIN domains, NEW X PROVE Cardinality(Share(X, i)) = 0
    OBVIOUS
  <2>1. i # 0
    BY DEF AllocTypes
  <2>2. Share(X, i) = {}
    BY <2>1 DEF Share, Allocated
  <2> QED
    BY <2>2, FS_EmptySet
<1>2. \A i \in DOMAIN domains : Took(Len(domains), i, 0, 0)
  BY DEF Took, AllocTypes
<1> QED
  BY <1>1, <1>2, CandidateAssumption DEF TurnsInv

(* Nothing is waiting, nobody is placed. *)
LEMMA InitTurns == Init => TurnsInv
<1> SUFFICES ASSUME Init PROVE TurnsInv
  OBVIOUS
<1>1. AllocTypes
  BY InitAllocTypes
<1> QED
  BY <1>1, NoTurnsAtFirst DEF Init

(* A candidate is placed: every free domain has had its turns once more. *)
LEMMA AllocateTakesTurns ==
  ASSUME GraphTypes, AllocTypes, AllocInv, AllocTypes', TurnsInv, Allocate
  PROVE  TurnsInv'
<1> DEFINE n == Len(domains)
<1>1. PICK c \in waiting :
        /\ NextCandidate(c)
        /\ waiting' = waiting \ {c}
        /\ dept' = Department[c]
        /\ \/ \E k \in 0 .. n - 1 :
                /\ Free(DomainAt(CursorFor(c) + k))
                /\ \A j \in 0 .. k - 1 : ~Free(DomainAt(CursorFor(c) + j))
                /\ placed' = [placed EXCEPT ![c] = DomainAt(CursorFor(c) + k)]
                /\ cursor' = CursorFor(c) + k + 1
           \/ /\ \A j \in DOMAIN domains : ~Free(j)
              /\ placed' = placed
  BY DEF Allocate
<1>2. /\ UNCHANGED <<pc, input, domains>> /\ pc = "allocate"
      /\ n \in Nat /\ DOMAIN domains = 1 .. n
  BY DEF Allocate, AllocTypes
<1>3. /\ c \in Candidates /\ waiting \subseteq Candidates /\ Department \in [Candidates -> Nat]
      /\ placed[c] = 0 /\ placed \in [Candidates -> 0 .. n]
  BY InputAssumption, CandidateAssumption DEF AllocTypes, GraphTypes, AllocInv
<1>4. dept <= Department[c] /\ dept \in Nat /\ Department[c] \in Nat
  BY <1>3 DEF TurnsInv
<1>5. \A b \in waiting' : dept' <= Department[b]
  BY <1>1, <1>3, CandidateAssumption DEF NextCandidate, CandidateBefore
<1>6. \A b \in Candidates : b # c => placed'[b] = placed[b]
  BY <1>1, <1>3
<1>7. \A b \in Candidates : placed'[b] # 0 => Department[b] <= dept'
  <2> SUFFICES ASSUME NEW b \in Candidates, placed'[b] # 0 PROVE Department[b] <= dept'
    OBVIOUS
  <2>1. b # c => Department[b] <= dept
    BY <1>6 DEF TurnsInv
  <2> QED
    BY <2>1, <1>1, <1>3, <1>4
<1>8. dept' \in Nat
  BY <1>1, <1>4
<1> DEFINE C == CursorFor(c)
(* Of the department at hand, as its turns were before this step. *)
<1>9. ASSUME NEW i \in DOMAIN domains, Free(i)
      PROVE  Took(n, i, Cardinality(Share(Department[c], i)), C)
  <2>1. CASE Department[c] = dept
    BY <1>9, <2>1 DEF TurnsInv, CursorFor
  <2>2. CASE Department[c] # dept
    <3>1. Share(Department[c], i) = {}
      BY <1>2, <1>3, <1>4, <2>2 DEF TurnsInv, Share, Allocated
    <3>2. Cardinality(Share(Department[c], i)) = 0 /\ C = 0
      BY <2>2, <3>1, FS_EmptySet DEF CursorFor
    <3>3. Took(n, i, 0, 0)
      BY <1>2, <1>9 DEF Took
    <3> QED
      BY <3>2, <3>3
  <2> QED
    BY <2>1, <2>2
<1>10. CASE \A j \in DOMAIN domains : ~Free(j) /\ placed' = placed
  <2>1. \A j \in DOMAIN domains : ~Free(j)'
    BY <1>2, <1>10 DEF Free, Load, Allocated
  <2> QED
    BY <1>2, <1>5, <1>7, <1>8, <2>1 DEF TurnsInv
<1>11. ASSUME NEW k \in 0 .. n - 1,
              Free(DomainAt(C + k)),
              \A j \in 0 .. k - 1 : ~Free(DomainAt(C + j)),
              placed' = [placed EXCEPT ![c] = DomainAt(C + k)],
              cursor' = C + k + 1
       PROVE  TurnsInv'
  <2> DEFINE d == DomainAt(C + k)
  <2>1. C \in Nat /\ n \in Nat \ {0} /\ d \in 1 .. n
    <3>1. C \in Nat
      BY CursorForType DEF AllocTypes
    <3>2. n \in Nat \ {0} /\ C + k \in Nat
      BY <1>2, <3>1
    <3> QED
      BY <3>1, <3>2, DomainAtIsDomain
  <2> HIDE DEF C
  <2>2. placed'[c] = d
    BY <1>3, <1>11
  <2>3. ASSUME NEW X, NEW i \in DOMAIN domains
        PROVE  Share(X, i)' = IF i = d /\ X = Department[c] THEN Share(X, i) \cup {c} ELSE Share(X, i)
    BY <1>2, <1>3, <1>6, <2>2 DEF Share, Allocated
  <2>4. ASSUME NEW X, NEW i \in DOMAIN domains
        PROVE  Cardinality(Share(X, i)') = IF i = d /\ X = Department[c]
                                           THEN Cardinality(Share(X, i)) + 1
                                           ELSE Cardinality(Share(X, i))
    <3>1. c \notin Share(X, i)
      BY <1>2, <1>3 DEF Share, Allocated
    <3> QED
      BY <2>3, <3>1, SharesAreFinite, FS_AddElement
  <2>5. ASSUME NEW i \in DOMAIN domains, Free(i)' PROVE Free(i)
    <3>1. Allocated(i) \subseteq Allocated(i)'
      BY <1>2, <1>3, <1>6 DEF Allocated
    <3>2. Allocated(i)' \subseteq Candidates /\ IsFiniteSet(Candidates)
      BY CandidateAssumption DEF Allocated
    <3>3. IsFiniteSet(Allocated(i)')
      BY <3>2, FS_Subset
    <3>4. Load(i) <= Load(i)' /\ Load(i) \in Nat /\ Load(i)' \in Nat
      BY <3>1, <3>3, FS_Subset, FS_CardinalityType DEF Load
    <3>5. Cardinality(domains[i]) \in Nat /\ Load(i)' < Cardinality(domains[i])
      BY <1>2, <2>5, CountsAreNatural DEF Free
    <3> QED
      BY <3>4, <3>5 DEF Free
  <2>6. ASSUME NEW i \in DOMAIN domains, Free(i)'
        PROVE  Took(n, i, Cardinality(Share(Department[c], i)'), C + k + 1)
    <3> DEFINE m == Cardinality(Share(Department[c], i))
    <3>1. Took(n, i, m, C) /\ m \in Nat /\ i \in 1 .. n
      BY <1>2, <1>9, <2>5, <2>6, SharesAreFinite
    <3>2. CASE i = d
      <4>1. (C + k) % n = i - 1
        BY <2>1, <3>2 DEF DomainAt
      <4>2. Took(n, i, m + 1, C + k + 1)
        <5> HIDE DEF m, n, d
        <5> QED
          BY <2>1, <3>1, <4>1, OneMore
      <4> QED
        BY <2>4, <3>2, <4>2
    <3>3. CASE i # d
      <4>1. \A j \in 0 .. k : (C + j) % n # i - 1
        <5> SUFFICES ASSUME NEW j \in 0 .. k, (C + j) % n = i - 1 PROVE FALSE
          OBVIOUS
        <5>1. DomainAt(C + j) = i
          BY <2>1, <3>1 DEF DomainAt
        <5>2. j # k /\ j \in 0 .. k - 1
          BY <3>3, <5>1
        <5> QED
          BY <1>11, <2>5, <2>6, <5>1, <5>2
      <4>2. Took(n, i, m, C + k + 1)
        <5> HIDE DEF m, n, d
        <5> QED
          BY <2>1, <3>1, <4>1, NoMore
      <4> QED
        BY <2>4, <3>3, <4>2
    <3> QED
      BY <3>2, <3>3
  <2>7. ASSUME NEW i \in DOMAIN domains, NEW j \in DOMAIN domains, Free(i)', Free(j)', NEW X \in Nat
        PROVE  Cardinality(Share(X, i)') <= Cardinality(Share(X, j)') + 1
    <3>1. CASE X = Department[c]
      <4> DEFINE m == Cardinality(Share(X, i)')
                 l == Cardinality(Share(X, j)')
      <4>1. m \in Nat /\ l \in Nat
        BY <2>4, SharesAreFinite
      <4>2. Took(n, i, m, C + k + 1) /\ Took(n, j, l, C + k + 1)
        BY <2>6, <2>7, <3>1
      <4>3. C + k + 1 \in Nat /\ i \in 1 .. n /\ j \in 1 .. n
        BY <1>2, <2>1
      <4> HIDE DEF m, l, n
      <4>4. m <= l + 1
        BY <2>1, <4>1, <4>2, <4>3, Alike
      <4> QED
        BY <4>4 DEF m, l
    <3>2. CASE X # Department[c]
      <4>1. Cardinality(Share(X, i)) <= Cardinality(Share(X, j)) + 1
        BY <2>5, <2>7 DEF TurnsInv
      <4> QED
        BY <2>4, <3>2, <4>1
    <3> QED
      BY <3>1, <3>2
  <2>8. \A i \in DOMAIN domains' :
          Free(i)' => Took(Len(domains'), i, Cardinality(Share(dept, i)'), cursor')
    BY <1>1, <1>2, <1>11, <2>6
  <2> QED
    BY <1>2, <1>5, <1>7, <1>8, <2>7, <2>8 DEF TurnsInv
<1> QED
  BY <1>1, <1>10, <1>11

(* The step before the allocation, and those that leave it alone. *)
LEMMA NextKeepsTurns ==
  ASSUME GraphInv, AllocTypes, AllocTypes', AllocInv, TurnsInv, [Next]_vars
  PROVE  TurnsInv'
<1>0. GraphTypes
  BY DEF GraphInv
<1>1. CASE UNCHANGED <<domains, allocVars>>
           /\ (pc' \in {"graph", "union", "group"} => pc \in {"graph", "union", "group"})
  <2>1. \A X, i : Share(X, i)' = Share(X, i) /\ Free(i)' = Free(i)
    BY <1>1 DEF allocVars, Share, Free, Load, Allocated
  <2> QED
    BY <1>1, <2>1 DEF allocVars, TurnsInv
<1>2. CASE MakeDomains
  <2>1. /\ pc = "group" /\ pc' \in {"gate", "allocate"} /\ UNCHANGED <<placed, cursor, dept>>
        /\ waiting' = waiting \/ waiting' = input.candidates
    BY <1>2 DEF MakeDomains
  <2>2. \A c \in waiting' : c \in Candidates
    BY <1>0, <2>1, InputAssumption DEF AllocTypes, GraphTypes
  <2>3. placed' = [c \in Candidates |-> 0] /\ cursor' = 0 /\ dept' = 0
    BY <2>1 DEF AllocTypes, TurnsInv
  <2>4. (AllocTypes /\ placed = [c \in Candidates |-> 0] /\ cursor = 0 /\ dept = 0
           /\ (\A c \in waiting : c \in Candidates) => TurnsInv)'
    BY NoTurnsAtFirst, PTL
  <2> QED
    BY <2>2, <2>3, <2>4
<1>3. CASE Allocate
  BY <1>0, <1>3, AllocateTakesTurns
<1>4. CASE BuildGraph \/ Halve \/ StartUnion \/ Link \/ Grouping \/ StartFind \/ Collect
  BY <1>0, <1>1, <1>4 DEF BuildGraph, Halve, StartUnion, Link, Grouping, StartFind, Collect,
     GraphTypes
<1>5. CASE AllocationDone \/ Guards \/ Gate
  BY <1>1, <1>5 DEF AllocationDone, Guards, Gate
<1>6. CASE UNCHANGED vars
  BY <1>1, <1>6 DEF vars
<1> QED
  BY <1>2, <1>3, <1>4, <1>5, <1>6 DEF Next

(* In every behaviour. *)
LEMMA TurnsInvariant == Spec => []TurnsInv
  BY InitTurns, NextKeepsTurns, GraphInvariant, AllocTypesInvariant, AllocInvariant, PTL DEF Spec

(* For any number of domains, departments and candidates, of two domains with
   a free seat neither got two more candidates of a department than the other
   (the round robin of partitionCandidates). *)
THEOREM RoundRobinIsBalanced == Spec => []AllocationIsBalanced
<1>1. GraphInv /\ TurnsInv => AllocationIsBalanced
  <2> SUFFICES ASSUME GraphInv, TurnsInv, NEW i \in DOMAIN domains, NEW j \in DOMAIN domains,
                      NEW c \in input.candidates, Free(i), Free(j)
               PROVE  Cardinality({b \in Allocated(i) : Department[b] = Department[c]})
                        <= Cardinality({b \in Allocated(j) : Department[b] = Department[c]}) + 1
    BY DEF AllocationIsBalanced
  <2>1. Department[c] \in Nat
    BY InputAssumption, CandidateAssumption DEF GraphInv, GraphTypes
  <2>2. Cardinality(Share(Department[c], i)) <= Cardinality(Share(Department[c], j)) + 1
    BY <2>1 DEF TurnsInv
  <2> QED
    BY <2>2 DEF Share
<1> QED
  BY <1>1, GraphInvariant, TurnsInvariant, PTL

-----------------------------------------------------------------------------
(* What is dispatched. *)

(* The domains have been made. *)
Made ==
  \/ pc \in {"allocate", "guard"}
  \/ pc \in {"gate", "done"} /\ verdict # "threw" /\ reason = "none"

GroupsHangTogether ==
  /\ Seats = UNION {groups[roots[i]] : i \in DOMAIN roots}
  /\ \A i, j \in DOMAIN roots : i # j => groups[roots[i]] \cap groups[roots[j]] = {}
  /\ \A i \in DOMAIN roots : IsComponent(groups[roots[i]], edges)

GuardsOf ==
  [i \in DOMAIN domains |-> Guard(Allocated(i), Cardinality(domains[i]))]

DispatchInv ==
  /\ pc # "graph" /\ verdict # "threw" =>
       edges = HallEdges(Seats, input.adjacency) \cup input.cross
  /\ Made => GroupsHangTogether
  /\ pc \in {"gate", "done"} /\ verdict # "threw" /\ reason = "none" => guards = GuardsOf
  /\ Dispatched =>
       ~(input.action = "reject" /\ \E i \in DOMAIN guards : guards[i] = "IMBALANCE_RISK")

LEMMA InitDispatch == Init => DispatchInv
  BY DEF Init, DispatchInv, Made, Dispatched

LEMMA NextKeepsDispatch ==
  ASSUME GraphInv, GraphInv', AllocInv, DispatchInv, [Next]_vars
  PROVE  DispatchInv'
<1>0. /\ GraphTypes
      /\ pc # "done" => verdict = "none"
  BY DEF GraphInv, AllocInv
<1>1. CASE BuildGraph
  <2>1. /\ input' = input /\ Seats' = Seats /\ pc = "graph"
        /\ \/ pc' = "union" /\ verdict' = verdict
              /\ edges' = HallEdges(Seats, input.adjacency) \cup input.cross
           \/ pc' = "done" /\ verdict' = "threw"
    BY <1>1 DEF BuildGraph, Seats
  <2> QED
    BY <1>0, <2>1 DEF DispatchInv, Made, Dispatched
<1>2. CASE Halve \/ StartUnion \/ Link \/ Grouping \/ StartFind \/ Collect
  <2>1. /\ UNCHANGED <<input, edges, verdict>> /\ Seats' = Seats
        /\ pc \in {"union", "group"} /\ pc' \in {"union", "group"}
    BY <1>0, <1>2 DEF Halve, StartUnion, Link, Grouping, StartFind, Collect, outVars, Seats, GraphTypes
  <2> QED
    BY <1>0, <2>1 DEF DispatchInv, Made, Dispatched
<1>3. CASE MakeDomains
  <2>1. /\ UNCHANGED <<input, edges, roots, groups, verdict>> /\ Seats' = Seats /\ pc = "group"
        /\ \/ pc' = "allocate"
           \/ pc' = "gate" /\ reason' = "aggregate"
    BY <1>3 DEF MakeDomains, graphVars, Seats
  <2>2. GroupsAreComponents'
    BY GroupsAreRight, PTL
  <2>3. Made' => GroupsHangTogether'
    BY <2>1, <2>2 DEF Made, GroupsHangTogether, GroupsAreComponents
  <2> QED
    BY <1>0, <2>1, <2>3 DEF DispatchInv, Dispatched
<1>4. CASE Allocate \/ AllocationDone \/ Guards \/ Gate \/ UNCHANGED vars
  <2>1. /\ UNCHANGED <<input, edges, roots, groups, domains>> /\ Seats' = Seats
        /\ pc' = pc \/ (pc # "graph" /\ pc' # "graph")
        /\ GroupsHangTogether' = GroupsHangTogether
    <3>1. UNCHANGED <<input, edges, roots, groups, domains>>
      BY <1>4 DEF Allocate, AllocationDone, Guards, Gate, vars, graphVars
    <3>2. pc' = pc \/ (pc # "graph" /\ pc' # "graph")
      BY <1>4 DEF Allocate, AllocationDone, Guards, Gate, vars
    <3> QED
      BY <3>1, <3>2 DEF Seats, GroupsHangTogether
  <2>2. CASE Allocate \/ AllocationDone
    <3>1. /\ pc = "allocate" /\ pc' \in {"allocate", "guard"} /\ verdict' = verdict
      BY <2>2 DEF Allocate, AllocationDone, outVars
    <3> QED
      BY <1>0, <2>1, <3>1 DEF DispatchInv, Made, Dispatched
  <2>3. CASE Guards
    <3>1. /\ pc = "guard" /\ pc' = "gate" /\ verdict' = verdict /\ placed' = placed
          /\ guards' = GuardsOf
      BY <2>3 DEF Guards, GuardsOf, allocVars
    <3>2. GuardsOf' = GuardsOf
      BY <2>1, <3>1 DEF GuardsOf, Allocated
    <3> QED
      BY <1>0, <2>1, <3>1, <3>2 DEF DispatchInv, Made, Dispatched
  <2>4. CASE Gate
    <3>1. /\ pc = "gate" /\ pc' = "done" /\ placed' = placed
          /\ UNCHANGED <<reason, guards>> /\ verdict' # "threw"
          /\ verdict' = "DISPATCHING" =>
               ~(input.action = "reject" /\ \E i \in DOMAIN guards : guards[i] = "IMBALANCE_RISK")
      BY <2>4 DEF Gate, allocVars
    <3>2. GuardsOf' = GuardsOf
      BY <2>1, <3>1 DEF GuardsOf, Allocated
    <3> QED
      BY <1>0, <2>1, <3>1, <3>2 DEF DispatchInv, Made, Dispatched
  <2>5. CASE UNCHANGED vars
    <3>1. UNCHANGED <<pc, verdict, reason, guards, placed>>
      BY <2>5 DEF vars, allocVars, outVars
    <3>2. GuardsOf' = GuardsOf
      BY <2>1, <3>1 DEF GuardsOf, Allocated
    <3> QED
      BY <2>1, <3>1, <3>2 DEF DispatchInv, Made, Dispatched
  <2> QED
    BY <1>4, <2>2, <2>3, <2>4, <2>5
<1> QED
  BY <1>1, <1>2, <1>3, <1>4 DEF Next

LEMMA DispatchInvariant == Spec => []DispatchInv
  BY InitDispatch, NextKeepsDispatch, GraphInvariant, AllocInvariant, PTL DEF Spec

(* Where no hall falls apart a domain is a component of the seat graph, and
   without cross edges one of the graph that its own seats make. *)
LEMMA DomainsHangTogether ==
  ASSUME GraphTypes, DomainsMade, GroupsHangTogether, ~SplitHall,
         edges = HallEdges(Seats, input.adjacency), NEW i \in DOMAIN domains
  PROVE  /\ i \in DOMAIN roots /\ domains[i] = groups[roots[i]]
         /\ domains[i] \subseteq Seats
         /\ IsComponent(domains[i], HallEdges(domains[i], input.adjacency))
<1> DEFINE D == groups[roots[i]]
           mode == input.adjacency
<1>1. /\ i \in DOMAIN roots /\ domains[i] = SeatsOfHalls(D)
      /\ \A j \in DOMAIN roots : groups[roots[j]] \subseteq Seats
  <2>1. i \in DOMAIN roots /\ domains[i] = SeatsOfHalls(D)
    BY DEF DomainsMade
  <2>2. \A j \in DOMAIN roots : roots[j] \in Seats
    BY DEF GraphTypes
  <2>3. \A j \in DOMAIN roots : groups[roots[j]] \subseteq Seats
    BY <2>2 DEF GraphTypes
  <2> QED
    BY <2>1, <2>3
<1>2. SeatsOfHalls(D) = D
  <2>1. ASSUME NEW s \in Seats, NEW t \in D, t[1] = s[1] PROVE s \in D
    <3>1. PICK j \in DOMAIN roots : s \in groups[roots[j]]
      BY DEF GroupsHangTogether
    <3>2. s[1] \in HallsOf(groups[roots[j]]) /\ s[1] \in HallsOf(D)
      BY <2>1, <3>1 DEF HallsOf
    <3>3. i = j
      BY <1>1, <3>2 DEF SplitHall
    <3> QED
      BY <3>1, <3>3
  <2> QED
    BY <1>1, <2>1 DEF SeatsOfHalls
<1>3. IsComponent(D, edges)
  BY <1>1 DEF GroupsHangTogether
<1>4. HallEdges(D, mode) \subseteq edges
  BY <1>1 DEF HallEdges
<1>5. \A e \in edges : e[1] \in D \/ e[2] \in D => e \in HallEdges(D, mode)
  <2> SUFFICES ASSUME NEW e \in edges, e[1] \in D \/ e[2] \in D PROVE e \in HallEdges(D, mode)
    OBVIOUS
  <2>1. e[1] \in D /\ e[2] \in D /\ e \in Seats \X Seats
    BY <1>3 DEF IsComponent, Closed, GraphTypes
  <2> QED
    BY <2>1 DEF HallEdges
<1>6. \A B \in SUBSET D : Closed(B, HallEdges(D, mode)) => Closed(B, edges)
  BY <1>5 DEF Closed
<1>7. Closed(D, HallEdges(D, mode))
  BY <1>3, <1>4 DEF IsComponent, Closed
<1>8. IsComponent(D, HallEdges(D, mode))
  BY <1>3, <1>6, <1>7 DEF IsComponent
<1> QED
  BY <1>1, <1>2, <1>8

(* The solver is told the adjacency of the partition, and has its ceiling. *)
SameTerms == Ceiling = MaxDomainCandidates /\ \A q \in Inputs : q.solver = q.adjacency

(* Where both sides have the same terms, the solver service solves every
   domain that runGeneration dispatches. *)
THEOREM DispatchedAreSolvable == ASSUME SameTerms PROVE Spec => []DispatchedIsSolvable
<1>1. GraphInv /\ AllocTypes /\ AllocInv /\ DispatchInv => DispatchedIsSolvable
  <2> SUFFICES ASSUME GraphInv, AllocTypes, AllocInv, DispatchInv,
                      Dispatched, input.cross = {}, NEW i \in DOMAIN domains
               PROVE  Preflight(domains[i], input.solver, input.action, Allocated(i)) = "solve"
    BY DEF DispatchedIsSolvable, Payload
  <2>1. pc = "done" /\ verdict = "DISPATCHING" /\ reason = "none" /\ GraphTypes
    BY DEF AllocInv, Dispatched, GraphInv
  <2>2. DomainsMade /\ ~SplitHall /\ ~(Load(i) > MaxDomainCandidates)
    BY <2>1 DEF AllocInv, Judged
  <2>3. /\ GroupsHangTogether /\ edges = HallEdges(Seats, input.adjacency)
        /\ guards = GuardsOf
        /\ ~(input.action = "reject" /\ \E j \in DOMAIN guards : guards[j] = "IMBALANCE_RISK")
    BY <2>1 DEF DispatchInv, Made
  <2>4. /\ domains[i] \subseteq Seats
        /\ IsComponent(domains[i], HallEdges(domains[i], input.adjacency))
    BY <2>1, <2>2, <2>3, DomainsHangTogether
  <2>5. /\ IsFiniteSet(domains[i]) /\ Cardinality(domains[i]) \in Nat
        /\ Load(i) \in Nat /\ Load(i) <= Cardinality(domains[i])
    BY <2>1, <2>4, CountsAreNatural, FS_Subset DEF AllocInv
  <2>6. Ceiling \in Nat /\ Load(i) <= Ceiling /\ input.solver = input.adjacency
    BY <2>1, <2>2, <2>5, InputAssumption DEF SameTerms, GraphTypes
  <2>7. guards[i] = Guard(Allocated(i), Cardinality(domains[i])) /\ i \in DOMAIN guards
    BY <2>3 DEF GuardsOf
  <2>8. Allocated(i) \in SUBSET Candidates
    BY DEF Allocated
  <2> QED
    BY <2>3, <2>4, <2>5, <2>6, <2>7, <2>8, SolvesOneComponent DEF Load
<1> QED
  BY <1>1, GraphInvariant, AllocTypesInvariant, AllocInvariant, DispatchInvariant, PTL

-----------------------------------------------------------------------------
(* The order of the groups. *)

(* Seats are collected in their order, so a group that was opened earlier has
   a seat before all those of a later one. *)
OrderInv ==
  /\ pc = "group" => \A s \in Seats \ rest : \A t \in rest : Before(s, t)
  /\ \A r \in Seats : groups[r] \cap rest = {}
  /\ \A i, j \in DOMAIN roots :
       i < j => \E s \in groups[roots[i]] : \A t \in groups[roots[j]] : Before(s, t)

LEMMA CollectKeepsOrder ==
  ASSUME GraphInv, GraphInv', OrderInv, Collect
  PROVE  OrderInv'
<1> DEFINE r == at[1]
<1>1. PICK s \in rest : /\ NextSeat(s)
                        /\ rest' = rest \ {s}
                        /\ groups' = [groups EXCEPT ![r] = groups[r] \cup {s}]
  BY DEF Collect
<1>2. /\ pc = "group" /\ at # << >> /\ Seats' = Seats
      /\ roots' = IF groups[r] = {} THEN Append(roots, r) ELSE roots
  BY DEF Collect, Seats
<1>3. /\ r \in Seats /\ s \in Seats /\ rest \subseteq Seats
      /\ groups \in [Seats -> SUBSET Seats] /\ roots \in Seq(Seats)
      /\ \A i \in DOMAIN roots : roots[i] \in Seats
      /\ Seats \subseteq AllSeats
  BY <1>1, <1>2, SeatsOfInput DEF GraphInv, GraphTypes
<1>4. /\ groups'[r] = groups[r] \cup {s}
      /\ \A t \in Seats : t # r => groups'[t] = groups[t]
  BY <1>1, <1>3
<1>5. \A u \in Seats \ rest' : \A t \in rest' : Before(u, t)
  <2> SUFFICES ASSUME NEW u \in Seats \ rest', NEW t \in rest' PROVE Before(u, t)
    OBVIOUS
  <2>1. CASE u = s
    BY <1>1, <2>1 DEF NextSeat
  <2>2. CASE u # s
    BY <1>1, <1>2, <2>2 DEF OrderInv
  <2> QED
    BY <2>1, <2>2
<1>6. \A t \in Seats : groups'[t] \cap rest' = {}
  <2> SUFFICES ASSUME NEW t \in Seats PROVE groups'[t] \cap rest' = {}
    OBVIOUS
  <2>1. groups[t] \cap rest = {}
    BY DEF OrderInv
  <2> QED
    BY <1>1, <1>4, <2>1
<1>7. \A t \in Seats : \A u \in groups[t] : Before(u, s)
  <2> SUFFICES ASSUME NEW t \in Seats, NEW u \in groups[t] PROVE Before(u, s)
    OBVIOUS
  <2>1. u \in Seats \ rest
    BY <1>3 DEF OrderInv
  <2> QED
    BY <1>1, <1>2, <2>1 DEF OrderInv
<1>8. \A i \in DOMAIN roots : groups[roots[i]] # {}
  BY DEF GraphInv, GroupsInv
<1>9. \A i, j \in DOMAIN roots : i # j => roots[i] # roots[j]
  BY DEF GraphInv, GroupsInv
<1>10. ASSUME NEW i \in DOMAIN roots, NEW j \in DOMAIN roots, i < j
       PROVE  \E u \in groups'[roots[i]] : \A t \in groups'[roots[j]] : Before(u, t)
  <2>0. roots[i] \in Seats /\ roots[j] \in Seats
    BY <1>3
  <2>1. PICK u \in groups[roots[i]] : \A t \in groups[roots[j]] : Before(u, t)
    BY <1>10 DEF OrderInv
  <2>2. u \in groups'[roots[i]] /\ Before(u, s)
    BY <1>4, <1>7, <2>0
  <2>3. \A t \in groups'[roots[j]] : t = s \/ t \in groups[roots[j]]
    BY <1>4, <2>0
  <2> QED
    BY <2>1, <2>2, <2>3
<1>11. \A i, j \in DOMAIN roots' :
         i < j => \E u \in groups'[roots'[i]] : \A t \in groups'[roots'[j]] : Before(u, t)
  <2>1. CASE groups[r] # {}
    BY <1>2, <1>10, <2>1
  <2>2. CASE groups[r] = {}
    <3>1. /\ DOMAIN roots = 1 .. Len(roots) /\ Len(roots) \in Nat
          /\ DOMAIN roots' = 1 .. Len(roots) + 1
          /\ roots'[Len(roots) + 1] = r
          /\ \A i \in DOMAIN roots : roots'[i] = roots[i]
      BY <1>2, <1>3, <2>2
    <3>2. groups'[r] = {s}
      BY <1>4, <2>2
    <3> SUFFICES ASSUME NEW i \in DOMAIN roots', NEW j \in DOMAIN roots', i < j
                 PROVE  \E u \in groups'[roots'[i]] : \A t \in groups'[roots'[j]] : Before(u, t)
      OBVIOUS
    <3>3. i \in DOMAIN roots /\ roots'[i] = roots[i] /\ roots[i] \in Seats
      BY <1>3, <3>1
    <3>4. CASE j \in DOMAIN roots
      BY <1>10, <3>1, <3>3, <3>4
    <3>5. CASE j \notin DOMAIN roots
      <4>1. roots'[j] = r
        BY <3>1, <3>5
      <4>2. roots[i] # r
        BY <1>8, <2>2, <3>3
      <4>3. PICK u \in groups[roots[i]] : TRUE
        BY <1>8, <3>3
      <4>4. u \in groups'[roots'[i]] /\ Before(u, s)
        BY <1>4, <1>7, <3>3, <4>2, <4>3
      <4> QED
        BY <3>2, <4>1, <4>4
    <3> QED
      BY <3>4, <3>5
  <2> QED
    BY <2>1, <2>2
<1> QED
  BY <1>2, <1>5, <1>6, <1>11 DEF OrderInv

LEMMA NextKeepsOrder ==
  ASSUME GraphInv, GraphInv', OrderInv, [Next]_vars
  PROVE  OrderInv'
<1>1. CASE Collect
  BY <1>1, CollectKeepsOrder
<1>2. CASE Grouping
  <2>1. /\ rest' = Seats /\ Seats' = Seats /\ UNCHANGED <<groups, roots>> /\ pc = "union"
    BY <1>2 DEF Grouping, Seats
  <2>2. \A r \in Seats : groups[r] = {}
    BY <2>1 DEF GraphInv, GroupsInv
  <2> QED
    BY <2>1, <2>2 DEF OrderInv
<1>3. CASE ~Collect /\ ~Grouping
  <2>1. /\ UNCHANGED <<groups, roots, rest>> /\ Seats' = Seats
        /\ pc' = "group" => pc = "group"
    BY <1>3 DEF Next, vars, BuildGraph, Halve, StartUnion, Link, StartFind, MakeDomains, Allocate,
       AllocationDone, Guards, Gate, graphVars, Seats
  <2> QED
    BY <2>1 DEF OrderInv
<1> QED
  BY <1>1, <1>2, <1>3

LEMMA OrderInvariant == Spec => []OrderInv
<1>1. Init => OrderInv
  BY DEF Init, OrderInv
<1> QED
  BY <1>1, NextKeepsOrder, GraphInvariant, PTL DEF Spec

-----------------------------------------------------------------------------
(* The solver service's components are the domains, in the same order. *)

LEMMA ComponentsAreDomains ==
  ASSUME GraphInv, AllocTypes, DomainsMade, GroupsHangTogether, OrderInv, ~SplitHall,
         SortAlike, edges = HallEdges(Seats, input.adjacency)
  PROVE  SolverComponents(Seats, input.adjacency) = domains
<1> DEFINE n == Len(domains)
           comps == {ComponentOf(s, Seats, edges) : s \in Seats}
           earlier == [C \in comps |-> {B \in comps : SolverBefore(FirstSeat(B), FirstSeat(C))}]
<1>0. /\ GraphTypes /\ n \in Nat /\ DOMAIN domains = 1 .. n /\ domains = [i \in 1 .. n |-> domains[i]]
      /\ Seats \subseteq AllSeats /\ IsFiniteSet(Seats)
  BY SeatsOfInput DEF GraphInv, GraphTypes, AllocTypes
<1>1. \A i \in 1 .. n : /\ i \in DOMAIN roots /\ domains[i] = groups[roots[i]]
                        /\ domains[i] \subseteq Seats /\ domains[i] # {}
                        /\ IsComponent(domains[i], edges)
  <2> SUFFICES ASSUME NEW i \in 1 .. n
               PROVE  /\ i \in DOMAIN roots /\ domains[i] = groups[roots[i]]
                      /\ domains[i] \subseteq Seats /\ domains[i] # {}
                      /\ IsComponent(domains[i], edges)
    OBVIOUS
  <2>1. i \in DOMAIN roots /\ domains[i] = groups[roots[i]] /\ domains[i] \subseteq Seats
    BY <1>0, DomainsHangTogether
  <2>2. IsComponent(domains[i], edges)
    BY <2>1 DEF GroupsHangTogether
  <2> QED
    BY <2>1, <2>2 DEF IsComponent
<1>2. \A s \in Seats : \E i \in 1 .. n : s \in domains[i]
  <2>1. DOMAIN domains = DOMAIN roots /\ Seats = UNION {groups[roots[i]] : i \in DOMAIN roots}
    BY DEF DomainsMade
  <2>2. DOMAIN domains = 1 .. n
    BY <1>0
  <2> HIDE DEF n
  <2> SUFFICES ASSUME NEW s \in Seats PROVE \E i \in 1 .. n : s \in domains[i]
    OBVIOUS
  <2>3. PICK i \in DOMAIN roots : s \in groups[roots[i]]
    BY <2>1
  <2>4. i \in 1 .. n
    BY <2>1, <2>2
  <2> QED
    BY <1>1, <2>3, <2>4
<1>3. ASSUME NEW i \in 1 .. n, NEW s \in domains[i]
      PROVE  ComponentOf(s, Seats, edges) = domains[i]
  <2>1. s \in Seats /\ domains[i] \in SUBSET Seats /\ Closed(domains[i], edges)
    BY <1>1 DEF IsComponent
  <2>2. ASSUME NEW C \in SUBSET Seats, Closed(C, edges), s \in C
        PROVE  domains[i] \subseteq C
    <3>1. Closed(C \cap domains[i], edges)
      BY <2>1, <2>2 DEF Closed
    <3>2. C \cap domains[i] \in SUBSET domains[i] /\ C \cap domains[i] # {}
      BY <2>2
    <3>3. C \cap domains[i] = domains[i]
      BY <1>1, <3>1, <3>2 DEF IsComponent
    <3> QED
      BY <3>3
  <2> QED
    BY <2>1, <2>2 DEF ComponentOf
<1>4. comps = {domains[i] : i \in 1 .. n}
  <2>1. \A i \in 1 .. n : \E s \in Seats : s \in domains[i]
    BY <1>1
  <2> QED
    BY <1>2, <1>3, <2>1
<1>5. \A i \in 1 .. n : /\ FirstSeat(domains[i]) \in domains[i] /\ FirstSeat(domains[i]) \in AllSeats
                        /\ \A t \in domains[i] : t = FirstSeat(domains[i])
                                                   \/ Before(FirstSeat(domains[i]), t)
  <2> SUFFICES ASSUME NEW i \in 1 .. n
               PROVE  /\ FirstSeat(domains[i]) \in domains[i] /\ FirstSeat(domains[i]) \in AllSeats
                      /\ \A t \in domains[i] : t = FirstSeat(domains[i])
                                                 \/ Before(FirstSeat(domains[i]), t)
    OBVIOUS
  <2>1. domains[i] \in SUBSET AllSeats /\ IsFiniteSet(domains[i]) /\ domains[i] # {}
    BY <1>0, <1>1, FS_Subset
  <2>2. /\ FirstSeat(domains[i]) \in domains[i]
        /\ \A t \in domains[i] : t = FirstSeat(domains[i])
                                   \/ SolverBefore(FirstSeat(domains[i]), t)
    BY <2>1, FirstSeatIsFirst
  <2> QED
    BY <1>1, <2>1, <2>2 DEF SortAlike
<1>6. ASSUME NEW i \in 1 .. n, NEW j \in 1 .. n, i < j
      PROVE  Before(FirstSeat(domains[i]), FirstSeat(domains[j]))
  <2>1. PICK s \in domains[i] : \A t \in domains[j] : Before(s, t)
    BY <1>1, <1>6 DEF OrderInv
  <2>2. Before(s, FirstSeat(domains[j])) /\ s \in AllSeats
    BY <1>0, <1>1, <1>5, <2>1
  <2> QED
    BY <1>5, <2>2, SeatsInOrder
<1>7. \A i, j \in 1 .. n : SolverBefore(FirstSeat(domains[i]), FirstSeat(domains[j])) <=> i < j
  <2>0. \A i, j \in 1 .. n : SolverBefore(FirstSeat(domains[i]), FirstSeat(domains[j]))
                                <=> Before(FirstSeat(domains[i]), FirstSeat(domains[j]))
    BY <1>1, <1>5 DEF SortAlike
  <2> SUFFICES ASSUME NEW i \in 1 .. n, NEW j \in 1 .. n,
                      Before(FirstSeat(domains[i]), FirstSeat(domains[j])), ~(i < j)
               PROVE  FALSE
    BY <1>6, <2>0
  <2>1. CASE i = j
    BY <1>5, <2>1, SeatsInOrder
  <2>2. CASE i # j
    <3>1. j < i
      BY <2>2
    <3> QED
      BY <1>5, <1>6, <3>1, BeforeIsStrict
  <2> QED
    BY <2>1, <2>2
<1>8. \A i, j \in 1 .. n : domains[i] = domains[j] => i = j
  <2> SUFFICES ASSUME NEW i \in 1 .. n, NEW j \in 1 .. n, domains[i] = domains[j], i < j
               PROVE  FALSE
    OBVIOUS
  <2> QED
    BY <1>5, <1>6, SeatsInOrder
<1> HIDE DEF comps, n
<1>9. ASSUME NEW j \in 1 .. n PROVE Cardinality(earlier[domains[j]]) = j - 1
  <2> DEFINE before == {domains[i] : i \in 1 .. j - 1}
  <2>1. domains[j] \in comps
    BY <1>4
  <2>2. earlier[domains[j]] = before
    BY <1>0, <1>4, <1>7, <2>1
  <2>3. j - 1 \in Nat /\ \A a, b \in 1 .. j - 1 : domains[a] = domains[b] => a = b
    BY <1>0, <1>8
  <2>4. Cardinality(before) = j - 1
    <3> HIDE DEF earlier
    <3> QED
      BY <2>3, ListCounts
  <2> QED
    BY <2>2, <2>4
<1>10. Cardinality(comps) = n
  BY <1>0, <1>4, <1>8, ListCounts
<1>11. InOrder(comps, earlier) = domains
  <2>1. ASSUME NEW j \in 1 .. n
        PROVE  (CHOOSE x \in comps : Cardinality(earlier[x]) = j - 1) = domains[j]
    <3> DEFINE x == CHOOSE x \in comps : Cardinality(earlier[x]) = j - 1
    <3> HIDE DEF earlier
    <3>1. domains[j] \in comps /\ Cardinality(earlier[domains[j]]) = j - 1
      BY <1>4, <1>9
    <3>2. x \in comps /\ Cardinality(earlier[x]) = j - 1
      BY <3>1
    <3>3. PICK i \in 1 .. n : x = domains[i]
      BY <1>4, <3>2
    <3>4. i - 1 = j - 1
      BY <1>9, <3>2, <3>3
    <3>5. i = j
      BY <1>0, <3>4
    <3> QED
      BY <3>3, <3>5
  <2>2. InOrder(comps, earlier) =
          [j \in 1 .. n |-> CHOOSE x \in comps : Cardinality(earlier[x]) = j - 1]
    BY <1>10 DEF InOrder
  <2> HIDE DEF earlier
  <2> QED
    BY <1>0, <2>1, <2>2
<1>12. SolverComponents(Seats, input.adjacency) = InOrder(comps, earlier)
  BY DEF SolverComponents, SolverEdges, comps
<1> QED
  BY <1>11, <1>12

-----------------------------------------------------------------------------
(* Both allocate alike. *)

Sizes == [i \in DOMAIN domains |-> Cardinality(domains[i])]
Given == [i \in DOMAIN domains |-> Allocated(i)]
Seated == input.candidates \ waiting

(* The candidates taken so far are the first ones, and the allocation is where
   the fold of the solver service is after as many. *)
AlikeInv ==
  pc \in {"allocate", "guard"} /\ SortAlike =>
    /\ \A a \in Seated : \A w \in waiting : CandidateBefore(a, w)
    /\ Run(Sizes, CandidatesInOrder(input.candidates), Cardinality(input.candidates),
           Cardinality(Seated))
         = [given |-> Given, dept |-> dept, cursor |-> cursor, raised |-> FALSE]

(* The place of the candidate that is next. *)
LEMMA NextIsListed ==
  ASSUME GraphTypes, AllocTypes, SortAlike, NEW c \in waiting, NextCandidate(c),
         \A a \in Seated : \A w \in waiting : CandidateBefore(a, w)
  PROVE  /\ Cardinality(Seated) \in 0 .. Cardinality(input.candidates) - 1
         /\ CandidatesInOrder(input.candidates)[Cardinality(Seated) + 1] = c
         /\ Cardinality(Seated \cup {c}) = Cardinality(Seated) + 1
<1> DEFINE C == input.candidates
           q == CandidatesInOrder(C)
           n == Cardinality(C)
<1>1. C \in SUBSET Candidates /\ c \in C /\ waiting \subseteq C
  BY InputAssumption DEF GraphTypes, AllocTypes
<1>2. \A a \in C : a \in Nat /\ Department[a] \in Nat
  BY <1>1, CandidateAssumption
<1>3. EarlierIn(C)[c] = Seated
  <2>1. \A d \in C : CandidateBefore(d, c) => d \notin waiting
    BY <1>1, <1>2 DEF NextCandidate, CandidateBefore
  <2>2. \A d \in C : SolverCandidateBefore(d, c) <=> CandidateBefore(d, c)
    BY <1>1 DEF SortAlike
  <2> QED
    BY <1>1, <2>1, <2>2 DEF EarlierIn, Seated
<1>4. IsFiniteSet(Seated) /\ c \notin Seated
  BY <1>1, CandidateAssumption, FS_Subset DEF Seated
<1>5. Cardinality(Seated) \in Nat /\ Cardinality(Seated \cup {c}) = Cardinality(Seated) + 1
  BY <1>4, FS_AddElement, FS_CardinalityType
<1> HIDE DEF C, q, n
<1>6. q = CandidatesInOrder(C) /\ n = Cardinality(C)
  BY DEF q, n
<1>7. /\ n \in Nat
      /\ \A d \in C : /\ Cardinality(EarlierIn(C)[d]) + 1 \in 1 .. n
                      /\ q[Cardinality(EarlierIn(C)[d]) + 1] = d
  BY <1>1, <1>6, CandidatesAreListed
<1>8. Cardinality(Seated) + 1 \in 1 .. n /\ q[Cardinality(Seated) + 1] = c
  BY <1>1, <1>3, <1>7
<1>9. Cardinality(Seated) \in 0 .. n - 1
  BY <1>5, <1>7, <1>8
<1> QED
  BY <1>5, <1>8, <1>9 DEF C, q, n

LEMMA AllocateKeepsAlike ==
  ASSUME GraphTypes, AllocTypes, AllocInv, AlikeInv, Allocate
  PROVE  AlikeInv'
<1> DEFINE C == input.candidates
           q == CandidatesInOrder(C)
           n == Cardinality(C)
           m == Cardinality(Seated)
           b == [given |-> Given, dept |-> dept, cursor |-> cursor, raised |-> FALSE]
<1> SUFFICES ASSUME SortAlike' PROVE AlikeInv'
  BY DEF AlikeInv
<1>0. SortAlike
  BY DEF Allocate, SortAlike, Seats
<1>1. /\ UNCHANGED <<pc, input, domains>> /\ pc = "allocate" /\ DomainsMade
  BY DEF Allocate, AllocInv
<1>2. /\ \A a \in Seated : \A w \in waiting : CandidateBefore(a, w)
      /\ Run(Sizes, q, n, m) = b
  BY <1>0, <1>1 DEF AlikeInv
<1>3. PICK c \in waiting :
        /\ NextCandidate(c)
        /\ waiting' = waiting \ {c}
        /\ dept' = Department[c]
        /\ \/ \E k \in 0 .. Len(domains) - 1 :
                /\ Free(DomainAt(CursorFor(c) + k))
                /\ \A j \in 0 .. k - 1 : ~Free(DomainAt(CursorFor(c) + j))
                /\ placed' = [placed EXCEPT ![c] = DomainAt(CursorFor(c) + k)]
                /\ cursor' = CursorFor(c) + k + 1
           \/ \A j \in DOMAIN domains : ~Free(j)
  BY DEF Allocate
<1>4. PICK k \in 0 .. Len(domains) - 1 :
        /\ Free(DomainAt(CursorFor(c) + k))
        /\ \A j \in 0 .. k - 1 : ~Free(DomainAt(CursorFor(c) + j))
        /\ placed' = [placed EXCEPT ![c] = DomainAt(CursorFor(c) + k)]
        /\ cursor' = CursorFor(c) + k + 1
  BY <1>1, <1>3, SomeDomainIsFree
<1> DEFINE start == CursorFor(c)
           d == DomainAt(start + k)
<1>5. /\ Len(domains) \in Nat \ {0} /\ DOMAIN domains = 1 .. Len(domains)
      /\ start \in Nat /\ \A j \in Nat : start + j \in Nat
      /\ \A j \in Nat : DomainAt(start + j) \in DOMAIN domains
      /\ k \in Nat
  <2>1. Len(domains) \in Nat \ {0} /\ DOMAIN domains = 1 .. Len(domains) /\ k \in Nat
    BY <1>4 DEF AllocTypes
  <2>2. start \in Nat
    BY CursorForType DEF AllocTypes
  <2>3. \A j \in Nat : start + j \in Nat
    <3> HIDE DEF start
    <3> QED
      BY <2>2
  <2> QED
    BY <2>1, <2>2, <2>3, DomainAtIsDomain
<1>6. /\ m \in 0 .. n - 1 /\ q[m + 1] = c /\ Cardinality(Seated \cup {c}) = m + 1
  BY <1>0, <1>2, <1>3, NextIsListed
<1>7. /\ c \in C /\ c \in Candidates /\ placed[c] = 0 /\ C \in SUBSET Candidates
      /\ n \in Nat
  BY <1>3, CountsAreNatural DEF AllocInv, AllocTypes
<1>8. Seated' = Seated \cup {c}
  BY <1>1, <1>3, <1>7 DEF Seated
<1>9. Run(Sizes, q, n, m + 1) = Give(Sizes, b, c)
  <2> HIDE DEF q, n, m, b
  <2>1. \A l \in 0 .. n - 1 : Run(Sizes, q, n, l + 1) = Give(Sizes, Run(Sizes, q, n, l), q[l + 1])
    <3>1. n \in Nat
      BY <1>7
    <3> QED
      BY <3>1, RunSteps, Zenon
  <2> QED
    BY <1>2, <1>6, <2>1
<1>10. Give(Sizes, b, c) =
         [given |-> [Given EXCEPT ![d] = @ \cup {c}],
          dept |-> Department[c], cursor |-> start + k + 1, raised |-> FALSE]
  <2> DEFINE from == IF b.dept = Department[c] THEN b.cursor ELSE 0
             tried(l) == ((from + l) % Len(Sizes)) + 1
             free == {l \in 0 .. Len(Sizes) - 1 : Cardinality(b.given[tried(l)]) < Sizes[tried(l)]}
             first == CHOOSE l \in free : \A x \in free : l <= x
  <2>1. from = start
    BY DEF CursorFor
  <2>2. Len(Sizes) = Len(domains) /\ \A i \in DOMAIN domains : Sizes[i] = Cardinality(domains[i])
    <3>1. Sizes = [i \in 1 .. Len(domains) |-> Cardinality(domains[i])]
      BY <1>5 DEF Sizes
    <3>2. \A i \in 1 .. Len(domains) : Cardinality(domains[i]) \in Nat
      BY <1>5, CountsAreNatural
    <3>3. Len(domains) \in Nat
      BY <1>5
    <3>4. Sizes \in Seq(Nat) /\ Len(Sizes) = Len(domains)
      BY <3>1, <3>2, <3>3
    <3> QED
      BY <1>5, <3>1, <3>4
  <2>3. \A l : tried(l) = DomainAt(start + l)
    BY <2>1, <2>2 DEF DomainAt
  <2>4. \A i \in DOMAIN domains : b.given[i] = Allocated(i)
    BY DEF Given
  <2> HIDE DEF from, tried, b, start
  <2>5. \A l \in 0 .. Len(domains) - 1 : l \in free <=> Free(DomainAt(start + l))
    BY <1>5, <2>2, <2>3, <2>4 DEF Free, Load
  <2>6. \A l \in free : l \in 0 .. Len(domains) - 1
    BY <2>2
  <2> HIDE DEF free
  <2>7. k \in free /\ \A x \in free : k <= x
    <3>1. k \in free
      BY <1>4, <2>5 DEF start
    <3>2. ASSUME NEW x \in free PROVE k <= x
      <4>1. x \in 0 .. Len(domains) - 1 /\ Free(DomainAt(start + x))
        BY <2>5, <2>6
      <4>2. x \notin 0 .. k - 1
        BY <1>4, <4>1 DEF start
      <4> QED
        BY <1>5, <4>1, <4>2
    <3> QED
      BY <3>1, <3>2
  <2>8. first = k
    <3> HIDE DEF first
    <3>1. first \in free /\ \A x \in free : first <= x
      BY <2>7 DEF first
    <3>2. first \in Nat /\ k \in Nat /\ first <= k /\ k <= first
      BY <1>5, <2>6, <2>7, <3>1
    <3> QED
      BY <3>2
  <2>9. Give(Sizes, b, c) =
          IF b.raised \/ free = {} THEN [b EXCEPT !.raised = TRUE]
          ELSE [given |-> [b.given EXCEPT ![tried(first)] = @ \cup {c}],
                dept |-> Department[c], cursor |-> from + first + 1, raised |-> FALSE]
    BY DEF Give, free, tried, from
  <2>10. b.raised = FALSE /\ b.given = Given
    BY DEF b
  <2>11. tried(k) = d
    BY <2>3 DEF start
  <2> HIDE DEF first, d
  <2>12. from + first + 1 = start + k + 1
    BY <2>1, <2>8
  <2>13. tried(first) = d
    BY <2>8, <2>11
  <2> QED
    BY <2>7, <2>9, <2>10, <2>12, <2>13 DEF start
<1>11. Given' = [Given EXCEPT ![d] = @ \cup {c}]
  <2>1. d \in DOMAIN domains
    BY <1>5
  <2> HIDE DEF d
  <2>2. placed' = [placed EXCEPT ![c] = d]
    BY <1>4 DEF d
  <2>3. \A i \in DOMAIN domains :
          Allocated(i)' = IF i = d THEN Allocated(i) \cup {c} ELSE Allocated(i)
    <3> SUFFICES ASSUME NEW i \in DOMAIN domains
                 PROVE  Allocated(i)' = IF i = d THEN Allocated(i) \cup {c} ELSE Allocated(i)
      OBVIOUS
    <3>1. i # 0
      BY <1>5
    <3> QED
      BY <1>7, <2>2, <3>1 DEF Allocated, AllocTypes
  <2>4. Given' = [i \in DOMAIN domains |-> Allocated(i)']
    BY <1>1 DEF Given
  <2> QED
    BY <2>1, <2>3, <2>4 DEF Given
<1>12. \A a \in Seated' : \A w \in waiting' : CandidateBefore(a, w)
  BY <1>2, <1>3, <1>8 DEF NextCandidate
<1>13. Sizes' = Sizes /\ input' = input
  BY <1>1 DEF Sizes
<1>14. cursor' = start + k + 1 /\ dept' = Department[c] /\ Cardinality(Seated') = m + 1
  BY <1>3, <1>4, <1>6, <1>8
<1> HIDE DEF d, start, m, b
<1>15. Run(Sizes, q, n, Cardinality(Seated'))
         = [given |-> Given', dept |-> dept', cursor |-> cursor', raised |-> FALSE]
  BY <1>9, <1>10, <1>11, <1>14
<1> QED
  BY <1>12, <1>13, <1>15 DEF AlikeInv

LEMMA MakeDomainsAlike ==
  ASSUME GraphTypes', AllocTypes', AllocInv', TurnsInv, MakeDomains
  PROVE  AlikeInv'
<1> SUFFICES ASSUME pc' = "allocate" PROVE AlikeInv'
  BY DEF MakeDomains, AlikeInv
<1>1. /\ waiting' = input'.candidates /\ dept' = 0 /\ cursor' = 0 /\ Seated' = {}
  BY DEF MakeDomains, TurnsInv, Seated
<1>2. Given' = [i \in DOMAIN domains' |-> {}]
  <2>1. \A i \in DOMAIN domains' : i # 0
    BY DEF AllocTypes
  <2>2. \A a \in Candidates : placed'[a] = 0
    BY <1>1 DEF AllocInv, AllocTypes
  <2> QED
    BY <2>1, <2>2 DEF Given, Allocated
<1>3. Cardinality(input'.candidates) \in Nat
  BY CandidateAssumption, InputAssumption, FS_Subset, FS_CardinalityType DEF GraphTypes
<1>4. Run(Sizes', CandidatesInOrder(input'.candidates), Cardinality(input'.candidates), 0)
        = Blank(Sizes')
  BY <1>3, RunSteps
<1>5. DOMAIN Sizes' = DOMAIN domains'
  BY DEF Sizes
<1> QED
  BY <1>1, <1>2, <1>4, <1>5, FS_EmptySet DEF AlikeInv, Blank

LEMMA NextKeepsAlike ==
  ASSUME GraphInv, GraphInv', AllocTypes, AllocTypes', AllocInv, AllocInv', TurnsInv, AlikeInv,
         [Next]_vars
  PROVE  AlikeInv'
<1>1. CASE Allocate
  BY <1>1, AllocateKeepsAlike DEF GraphInv
<1>2. CASE MakeDomains
  BY <1>2, MakeDomainsAlike DEF GraphInv
<1>3. CASE ~Allocate /\ ~MakeDomains
  <2>1. CASE pc' \in {"allocate", "guard"}
    <3>1. /\ UNCHANGED <<input, domains, waiting, placed, dept, cursor>>
          /\ pc \in {"allocate", "guard"}
      BY <1>3, <2>1 DEF Next, vars, BuildGraph, Halve, StartUnion, Link, Grouping, StartFind, Collect,
         AllocationDone, Guards, Gate, allocVars, graphVars, GraphInv, GraphTypes
    <3>2. Given' = Given /\ Sizes' = Sizes /\ Seated' = Seated /\ (SortAlike' => SortAlike)
      BY <3>1 DEF Given, Allocated, Sizes, Seated, SortAlike, Seats
    <3> QED
      BY <3>1, <3>2 DEF AlikeInv
  <2>2. CASE pc' \notin {"allocate", "guard"}
    BY <2>2 DEF AlikeInv
  <2> QED
    BY <2>1, <2>2
<1> QED
  BY <1>1, <1>2, <1>3

LEMMA AlikeInvariant == Spec => []AlikeInv
<1>1. Init => AlikeInv
  BY DEF Init, AlikeInv
<1> QED
  BY <1>1, NextKeepsAlike, GraphInvariant, AllocTypesInvariant, AllocInvariant, TurnsInvariant, PTL
  DEF Spec

(* partitionCandidates is the mirror it is meant to be: given the session, the
   solver service makes the same domains in the same order and puts the same
   candidates into each, where localeCompare and the code points sort its halls
   and its register numbers alike and no hall falls apart. *)
THEOREM AllocationsAreMirrored == Spec => []AllocationsMirror
<1>1. GraphInv /\ AllocTypes /\ AllocInv /\ DispatchInv /\ OrderInv /\ AlikeInv => AllocationsMirror
  <2> SUFFICES ASSUME GraphInv, AllocTypes, AllocInv, DispatchInv, OrderInv, AlikeInv,
                      pc = "guard", input.cross = {}, ~SplitHall, SortAlike
               PROVE  LET ds == SolverDomains(Seats, input.adjacency, input.candidates) IN
                      /\ Len(ds) = Len(domains)
                      /\ \A i \in DOMAIN ds :
                           ds[i].seats = domains[i] /\ ds[i].candidates = Allocated(i)
    BY DEF AllocationsMirror
  <2>1. /\ DomainsMade /\ GroupsHangTogether /\ waiting = {} /\ GraphTypes
        /\ edges = HallEdges(Seats, input.adjacency)
    BY DEF AllocInv, DispatchInv, Made, GraphInv
  <2>2. SolverComponents(Seats, input.adjacency) = domains
    BY <2>1, ComponentsAreDomains
  <2> DEFINE C == input.candidates
             end == Run(Sizes, CandidatesInOrder(C), Cardinality(C), Cardinality(C))
  <2>3. end = [given |-> Given, dept |-> dept, cursor |-> cursor, raised |-> FALSE]
    <3>1. Seated = C
      BY <2>1 DEF Seated
    <3> QED
      BY <3>1 DEF AlikeInv
  <2>4. Cardinality(C) \in Nat
    BY <2>1, CountsAreNatural
  <2> HIDE DEF C
  <2>5. SolverAllocation(Sizes, C) = Given
    <3>1. end.raised = FALSE /\ end.given = Given
      BY <2>3
    <3> HIDE DEF end
    <3>2. SolverAllocation(Sizes, C) = IF end.raised THEN [i \in DOMAIN Sizes |-> {}] ELSE end.given
      BY <2>4, AllocationRuns DEF end
    <3> QED
      BY <3>1, <3>2
  <2> DEFINE ds == SolverDomains(Seats, input.adjacency, C)
  <2>6. ds = [i \in DOMAIN domains |-> [seats |-> domains[i], candidates |-> Given[i]]]
    BY <2>2, <2>5 DEF SolverDomains, Sizes
  <2>7. DOMAIN domains = 1 .. Len(domains) /\ Len(domains) \in Nat
    BY DEF AllocTypes
  <2> HIDE DEF ds
  <2>8. Len(ds) = Len(domains)
    <3>1. ds \in Seq({[seats |-> domains[i], candidates |-> Given[i]] : i \in 1 .. Len(domains)})
      BY <2>6, <2>7
    <3> QED
      BY <2>6, <2>7, <3>1
  <2>9. \A i \in DOMAIN ds : ds[i].seats = domains[i] /\ ds[i].candidates = Allocated(i)
    BY <2>6 DEF Given
  <2> QED
    BY <2>8, <2>9 DEF ds, C
<1> QED
  BY <1>1, GraphInvariant, AllocTypesInvariant, AllocInvariant, DispatchInvariant, OrderInvariant,
     AlikeInvariant, PTL
=============================================================================
