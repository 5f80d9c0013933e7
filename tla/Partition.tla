------------------------------ MODULE Partition ------------------------------
(***************************************************************************)
(* partitionCandidates (src/src/phase4/partition.ts) and the two gates of  *)
(* runGeneration before dispatch, one step per turn of a loop: union-find  *)
(* with path halving over the seat graph, one domain per component,        *)
(* round-robin allocation per department, guards.                          *)
(*                                                                         *)
(* A call is synchronous, so nothing interleaves with it: what varies is   *)
(* its input.  Candidates are numbered in the order of their register      *)
(* numbers, departments in alphabetical order.                             *)
(***************************************************************************)
EXTENDS Topology, Composition, Sequences

CONSTANTS
  MaxDomainCandidates,
  Inputs   \* calls: seats, adjacency, cross, candidates, and, of the
           \* generation's solverConfig, action and solver (its adjacency)

(* The seats and candidates of a call exist. *)
ASSUME InputAssumption ==
  /\ MaxDomainCandidates \in Nat
  /\ \A q \in Inputs :
       /\ q.seats \subseteq AllSeats /\ IsFiniteSet(q.seats)
       /\ q.cross \subseteq AllSeats \X AllSeats
       /\ q.candidates \subseteq Candidates

VARIABLES
  pc,
  input,
  edges,      \* graph.edges
  parent,     \* UnionFind.parent, seat -> seat
  todo,       \* edges still to be united
  rest,       \* seats still to be grouped
  at,         \* where the finds under way stand
  roots,      \* the keys of groups, in insertion order
  groups,     \* root -> its seats
  domains,    \* the seats of each domain
  broken,     \* invariantErrors.length > 0
  waiting,    \* candidates still to be allocated
  placed,     \* candidate -> its domain, 0 for none
  dept, cursor,
  failed,     \* allocationFailed
  guards,     \* domain -> classification
  reason,     \* blockedReason
  verdict     \* what runGeneration makes of it

graphVars == <<edges, parent, todo, rest, at, roots, groups>>
allocVars == <<waiting, placed, dept, cursor, failed>>
outVars == <<guards, reason, verdict>>
vars == <<pc, input, graphVars, domains, broken, allocVars, outVars>>

Seats == input.seats

TypeOK ==
  /\ pc \in {"graph", "union", "group", "allocate", "guard", "gate", "done"}
  /\ input \in Inputs
  /\ edges \subseteq Seats \X Seats /\ todo \subseteq edges
  /\ parent \in [Seats -> Seats]
  /\ rest \subseteq Seats
  /\ at \in Seq(Seats)
  /\ roots \in Seq(Seats)
  /\ groups \in [Seats -> SUBSET Seats]
  /\ domains \in Seq(SUBSET Seats)
  /\ broken \in BOOLEAN /\ failed \in BOOLEAN
  /\ waiting \subseteq input.candidates
  /\ placed \in [Candidates -> 0 .. Len(domains)]
  /\ cursor \in Nat
  /\ reason \in {"none", "aggregate", "capacity", "oversized", "allocation", "invariant"}
  /\ verdict \in {"none", "threw", "FAILED_PARTITION", "FAILED_GUARD", "DISPATCHING"}

Init ==
  /\ pc = "graph"
  /\ input \in Inputs
  /\ edges = {} /\ todo = {} /\ rest = {}
  /\ parent = [s \in Seats |-> s]
  /\ at = << >> /\ roots = << >>
  /\ groups = [s \in Seats |-> {}]
  /\ domains = << >> /\ broken = FALSE
  /\ waiting = {} /\ placed = [c \in Candidates |-> 0]
  /\ dept = 0 /\ cursor = 0 /\ failed = FALSE
  /\ guards = << >> /\ reason = "none" /\ verdict = "none"

-----------------------------------------------------------------------------
(* The graph and its components.                                           *)

BuildGraph ==
  /\ pc = "graph"
  /\ IF \A e \in input.cross : LegalCrossEdge(Seats, e)
     THEN /\ edges' = HallEdges(Seats, input.adjacency) \cup input.cross
          /\ todo' = edges'
          /\ pc' = "union"
          /\ UNCHANGED verdict
     ELSE /\ verdict' = "threw"
          /\ pc' = "done"
          /\ UNCHANGED <<edges, todo>>
  /\ UNCHANGED <<input, parent, rest, at, roots, groups, domains, broken,
                 allocVars, guards, reason>>

NextEdge(e) == e \in todo /\ \A f \in todo : f = e \/ EdgeBefore(e, f)
NextSeat(s) == s \in rest /\ \A t \in rest : t = s \/ Before(s, t)

IsRoot(s) == parent[s] = s

(* One turn of find's loop, the first of the two finds of a union first. *)
Halve ==
  /\ \E k \in DOMAIN at :
       LET grandparent == parent[parent[at[k]]] IN
       /\ ~IsRoot(at[k])
       /\ \A j \in 1 .. k - 1 : IsRoot(at[j])
       /\ parent' = [parent EXCEPT ![at[k]] = grandparent]
       /\ at' = [at EXCEPT ![k] = grandparent]
  /\ UNCHANGED <<pc, input, edges, todo, rest, roots, groups, domains, broken,
                 allocVars, outVars>>

StartUnion ==
  /\ pc = "union" /\ at = << >>
  /\ \E e \in todo : NextEdge(e) /\ at' = e
  /\ UNCHANGED <<pc, input, edges, parent, todo, rest, roots, groups, domains,
                 broken, allocVars, outVars>>

(* Mutant: union links the edge's end, not its root. *)
LinkEnds ==
  /\ pc = "union" /\ at # << >> /\ IsRoot(at[1]) /\ IsRoot(at[2])
  /\ \E e \in todo :
       /\ NextEdge(e)
       /\ todo' = todo \ {e}
       /\ parent' = IF at[1] = at[2] THEN parent
                    ELSE [parent EXCEPT ![e[2]] = at[1]]
  /\ at' = << >>
  /\ UNCHANGED <<pc, input, edges, rest, roots, groups, domains, broken,
                 allocVars, outVars>>

(* Both roots are known: union links the second below the first. *)
Link ==
  /\ pc = "union" /\ at # << >> /\ IsRoot(at[1]) /\ IsRoot(at[2])
  /\ \E e \in todo : NextEdge(e) /\ todo' = todo \ {e}
  /\ parent' = [parent EXCEPT ![at[2]] = at[1]]
  /\ at' = << >>
  /\ UNCHANGED <<pc, input, edges, rest, roots, groups, domains, broken,
                 allocVars, outVars>>

Grouping ==
  /\ pc = "union" /\ at = << >> /\ todo = {}
  /\ pc' = "group"
  /\ rest' = Seats
  /\ UNCHANGED <<input, edges, parent, todo, at, roots, groups, domains,
                 broken, allocVars, outVars>>

StartFind ==
  /\ pc = "group" /\ at = << >>
  /\ \E s \in rest : NextSeat(s) /\ at' = <<s>>
  /\ UNCHANGED <<pc, input, edges, parent, todo, rest, roots, groups, domains,
                 broken, allocVars, outVars>>

Collect ==
  /\ pc = "group" /\ at # << >> /\ IsRoot(at[1])
  /\ \E s \in rest :
       /\ NextSeat(s)
       /\ rest' = rest \ {s}
       /\ groups' = [groups EXCEPT ![at[1]] = @ \cup {s}]
  /\ roots' = IF groups[at[1]] = {} THEN Append(roots, at[1]) ELSE roots
  /\ at' = << >>
  /\ UNCHANGED <<pc, input, edges, parent, todo, domains, broken, allocVars,
                 outVars>>

-----------------------------------------------------------------------------
(* Domains and their invariants.                                           *)

(* A domain has all the seats of the halls its component touches. *)
SeatsOfHalls(C) == {s \in Seats : \E t \in C : t[1] = s[1]}

HallsOf(D) == {s[1] : s \in D}

(* Mutant: the check of verifyPartitionInvariants for a seat in two domains
   is lost. *)
BreaksWithoutOverlap(ds) ==
  \/ Seats # UNION {ds[i] : i \in DOMAIN ds}
  \/ \E e \in edges : \E i \in DOMAIN ds : (e[1] \in ds[i]) # (e[2] \in ds[i])

(* verifyPartitionInvariants: a seat in two domains, a seat in none, or an
   edge between two. *)
Breaks(ds) ==
  \/ \E i, j \in DOMAIN ds : i # j /\ ds[i] \cap ds[j] # {}
  \/ Seats # UNION {ds[i] : i \in DOMAIN ds}
  \/ \E e \in edges : \E i \in DOMAIN ds : (e[1] \in ds[i]) # (e[2] \in ds[i])

(* Mutant: the aggregate check is off by one. *)
TooManyByOne == Cardinality(input.candidates) > Cardinality(Seats) + 1

(* A hall's capacity is the number of its active seats. *)
TooMany == Cardinality(input.candidates) > Cardinality(Seats)

MakeDomains ==
  /\ pc = "group" /\ at = << >> /\ rest = {}
  /\ IF TooMany
     THEN /\ reason' = "aggregate"
          /\ pc' = "gate"
          /\ UNCHANGED <<domains, broken, waiting>>
     ELSE /\ domains' = [i \in DOMAIN roots |-> SeatsOfHalls(groups[roots[i]])]
          /\ broken' = Breaks(domains')
          /\ waiting' = input.candidates
          /\ pc' = "allocate"
          /\ UNCHANGED reason
  /\ UNCHANGED <<input, graphVars, placed, dept, cursor, failed, guards, verdict>>

-----------------------------------------------------------------------------
(* Allocation.                                                             *)

NextCandidate(c) ==
  c \in waiting /\ \A d \in waiting : d = c \/ CandidateBefore(c, d)

Allocated(i) == {c \in Candidates : placed[c] = i}
Load(i) == Cardinality(Allocated(i))
Free(i) == Load(i) < Cardinality(domains[i])

(* The domain that is tried when the cursor has the value k. *)
DomainAt(k) == (k % Len(domains)) + 1

(* Mutant: a department goes on where the one before it ended. *)
CursorCarriedOn(c) == cursor

(* Mutant: every candidate starts again at the first domain. *)
CursorRestarting(c) == 0

(* Each department starts again at the first domain. *)
CursorFor(c) == IF Department[c] = dept THEN cursor ELSE 0

(* A candidate goes to the first domain with a free seat, from the cursor on;
   after as many attempts as there are domains the allocation has failed. *)
Allocate ==
  /\ pc = "allocate"
  /\ \E c \in waiting :
       /\ NextCandidate(c)
       /\ waiting' = waiting \ {c}
       /\ dept' = Department[c]
       /\ \/ \E k \in 0 .. Len(domains) - 1 :
               /\ Free(DomainAt(CursorFor(c) + k))
               /\ \A j \in 0 .. k - 1 : ~Free(DomainAt(CursorFor(c) + j))
               /\ placed' = [placed EXCEPT ![c] = DomainAt(CursorFor(c) + k)]
               /\ cursor' = CursorFor(c) + k + 1
               /\ UNCHANGED failed
          \/ /\ \A j \in DOMAIN domains : ~Free(j)
             /\ cursor' = CursorFor(c) + Len(domains)
             /\ failed' = TRUE
             /\ UNCHANGED placed
  /\ UNCHANGED <<pc, input, graphVars, domains, broken, outVars>>

AllocationDone ==
  /\ pc = "allocate" /\ waiting = {}
  /\ pc' = "guard"
  /\ UNCHANGED <<input, graphVars, domains, broken, allocVars, outVars>>

-----------------------------------------------------------------------------
(* Guards and gates.                                                       *)

(* Mutant: the ceiling is not checked. *)
CapacityReason(i) == IF Load(i) > Cardinality(domains[i]) THEN "capacity" ELSE "none"

(* The reason a domain is blocked for. *)
DomainReason(i) ==
  IF Load(i) > Cardinality(domains[i]) THEN "capacity"
  ELSE IF Load(i) > MaxDomainCandidates THEN "oversized"
  ELSE "none"

FirstReason ==
  LET bad == {i \in DOMAIN domains : DomainReason(i) # "none"} IN
  IF bad = {} THEN "none"
  ELSE DomainReason(CHOOSE i \in bad : \A j \in bad : i <= j)

(* A failed allocation replaces the reason, broken invariants give one when
   there is none. *)
Guards ==
  /\ pc = "guard"
  /\ guards' = [i \in DOMAIN domains |-> Guard(Allocated(i), Cardinality(domains[i]))]
  /\ reason' = IF failed THEN "allocation"
               ELSE IF FirstReason = "none" /\ broken THEN "invariant"
               ELSE FirstReason
  /\ pc' = "gate"
  /\ UNCHANGED <<input, graphVars, domains, broken, allocVars, verdict>>

(* runGeneration: a blocked partition ends it, and so does a risk when the
   composition's action is "reject"; otherwise the domains are dispatched. *)
Gate ==
  /\ pc = "gate"
  /\ verdict' =
       IF reason # "none" THEN "FAILED_PARTITION"
       ELSE IF input.action = "reject"
                 /\ \E i \in DOMAIN guards : guards[i] = "IMBALANCE_RISK" THEN "FAILED_GUARD"
       ELSE "DISPATCHING"
  /\ pc' = "done"
  /\ UNCHANGED <<input, graphVars, domains, broken, allocVars, guards, reason>>

Next ==
  \/ BuildGraph
  \/ Halve \/ StartUnion \/ Link \/ Grouping \/ StartFind \/ Collect
  \/ MakeDomains
  \/ Allocate \/ AllocationDone
  \/ Guards \/ Gate

Spec == Init /\ [][Next]_vars

-----------------------------------------------------------------------------
Dispatched == verdict = "DISPATCHING"

(* buildDomainPayload: what the solver service gets of a domain. *)
Payload(i) ==
  [seats |-> domains[i], candidates |-> Allocated(i),
   adjacency |-> input.solver, action |-> input.action]

(* Union-find is right: whatever seats are inactive, however the edges are
   taken and the paths halved, a group is a connected component of the seat
   graph. *)
GroupsAreComponents ==
  pc = "allocate" =>
    /\ Seats = UNION {groups[roots[i]] : i \in DOMAIN roots}
    /\ \A i, j \in DOMAIN roots :
         i # j => groups[roots[i]] \cap groups[roots[j]] = {}
    /\ \A i \in DOMAIN roots : IsComponent(groups[roots[i]], edges)

(* What is dispatched is a partition: every seat is in one domain, no two
   domains share a hall, no edge joins two, every candidate is in one domain,
   and a domain has a seat for each of its candidates. *)
DispatchedIsPartition ==
  Dispatched =>
    /\ Seats = UNION {domains[i] : i \in DOMAIN domains}
    /\ \A i, j \in DOMAIN domains :
         i # j => HallsOf(domains[i]) \cap HallsOf(domains[j]) = {}
    /\ \A e \in edges : \A i \in DOMAIN domains :
         e[1] \in domains[i] <=> e[2] \in domains[i]
    /\ \A c \in input.candidates : placed[c] # 0
    /\ \A i \in DOMAIN domains : Load(i) <= Cardinality(domains[i])

SplitHall ==
  \E i, j \in DOMAIN roots :
    i # j /\ HallsOf(groups[roots[i]]) \cap HallsOf(groups[roots[j]]) # {}

(* The only true capacity error is more candidates than seats: a call is
   blocked for that, for a domain over the ceiling, or for a hall whose
   active seats fall apart, and for nothing else.  In particular the round
   robin finds every candidate a seat whenever the seats suffice. *)
BlockedOnlyWhenItMust ==
  pc = "done" /\ verdict # "threw" =>
    (reason # "none" <=>
       \/ TooMany
       \/ SplitHall
       \/ \E i \in DOMAIN domains : Load(i) > MaxDomainCandidates)

(* Round robin is fair: of two domains with a free seat left, neither got
   two more candidates of a department than the other. *)
AllocationIsBalanced ==
  pc \in {"allocate", "guard", "gate", "done"} =>
    \A i, j \in DOMAIN domains : \A c \in input.candidates :
      LET share(d) == {b \in Allocated(d) : Department[b] = Department[c]} IN
      Free(i) /\ Free(j) => Cardinality(share(i)) <= Cardinality(share(j)) + 1
=============================================================
