--------------------------- MODULE SolverPartition ---------------------------
(***************************************************************************)
(* What the solver service makes of the halls and candidates of a request  *)
(* before it builds a model: the graph (src/solver-service/app/graph.py),  *)
(* its components, the allocation of the candidates                        *)
(* (src/solver-service/app/partition.py), and the checks of solve_domain   *)
(* (src/solver-service/app/seatlabel.py).                                  *)
(***************************************************************************)
EXTENDS Topology, Composition, Sequences, SequencesExt

CONSTANTS
  Ceiling,        \* MAX_DOMAIN_CANDIDATES of seatlabel.py
  HallCode,       \* hall -> its place by code points
  RegisterCode    \* candidate -> its register number's place by code points

(* The service sorts strings by code point.  The numbers of the halls and of
   the candidates are their places in the order of localeCompare, which the
   orchestrator sorts by and which need not be the same: "B1" is before "a2"
   for the one and after it for the other. *)
ASSUME CodeAssumption ==
  /\ HallCode \in [Hall -> Nat] /\ IsInjective(HallCode)
  /\ RegisterCode \in [Candidates -> Nat] /\ IsInjective(RegisterCode)

SolverBefore(s, t) ==
  \/ HallCode[s[1]] < HallCode[t[1]]
  \/ s[1] = t[1] /\ Before(s, t)

SolverCandidateBefore(c, d) ==
  \/ Department[c] < Department[d]
  \/ Department[c] = Department[d] /\ RegisterCode[c] < RegisterCode[d]

(* PhysicalSeatGraph.build: this graph has no cross-hall edges. *)
SolverEdges(seats, mode) == HallEdges(seats, mode)

ComponentOf(s, seats, es) ==
  {t \in seats : \A C \in SUBSET seats : Closed(C, es) /\ s \in C => t \in C}

(* The elements of S, each after as many as there are in earlier[x], those
   of S that come before it. *)
InOrder(S, earlier) ==
  [n \in 1 .. Cardinality(S) |-> CHOOSE x \in S : Cardinality(earlier[x]) = n - 1]

FirstSeat(C) == CHOOSE s \in C : \A t \in C : t = s \/ SolverBefore(s, t)

(* The components in the order of their first seats. *)
SolverComponents(seats, mode) ==
  LET es == SolverEdges(seats, mode)
      parts == {ComponentOf(s, seats, es) : s \in seats}
  IN InOrder(parts, [C \in parts |->
                       {B \in parts : SolverBefore(FirstSeat(B), FirstSeat(C))}])

(* The candidates in the order of the allocation. *)
CandidatesInOrder(C) ==
  InOrder(C, [c \in C |-> {d \in C : SolverCandidateBefore(d, c)}])

(* One candidate: the first component with a free seat from the cursor on,
   which each department starts anew. *)
Give(sizes, before, c) ==
  LET start == IF before.dept = Department[c] THEN before.cursor ELSE 0
      d(k) == ((start + k) % Len(sizes)) + 1
      free == {k \in 0 .. Len(sizes) - 1 :
                 Cardinality(before.given[d(k)]) < sizes[d(k)]}
      k == CHOOSE n \in free : \A m \in free : n <= m
  IN IF before.raised \/ free = {}
     THEN [before EXCEPT !.raised = TRUE]
     ELSE [given |-> [before.given EXCEPT ![d(k)] = @ \cup {c}],
           dept |-> Department[c], cursor |-> start + k + 1, raised |-> FALSE]

(* Mutant: the domains are filled one candidate at a time, and stay filled when
   the allocation raises. *)
AllocationInPlace(sizes, C) ==
  LET none == [i \in DOMAIN sizes |-> {}]
      blank == [given |-> none, dept |-> 0, cursor |-> 0, raised |-> FALSE]
  IN FoldLeft(LAMBDA run, c : Give(sizes, run, c), blank, CandidatesInOrder(C)).given

(* allocate_candidates_to_domains.  When it raises, no domain has got any
   candidate. *)
SolverAllocation(sizes, C) ==
  LET none == [i \in DOMAIN sizes |-> {}]
      end == FoldLeft(LAMBDA before, c : Give(sizes, before, c),
                      [given |-> none, dept |-> 0, cursor |-> 0, raised |-> FALSE],
                      CandidatesInOrder(C))
  IN IF end.raised THEN none ELSE end.given

(* partition_request *)
SolverDomains(seats, mode, C) ==
  LET parts == SolverComponents(seats, mode)
      given == SolverAllocation([i \in DOMAIN parts |-> Cardinality(parts[i])], C)
  IN [i \in DOMAIN parts |-> [seats |-> parts[i], candidates |-> given[i]]]

(* compute_composition_report *)
CompositionReport(C, seatCount) == Guard(C, seatCount)

(* solve_domain until the model is built: "solve", or the error. *)
Preflight(seats, mode, action, C) ==
  LET ds == SolverDomains(seats, mode, C)
      class == CompositionReport(ds[1].candidates, Cardinality(ds[1].seats))
  IN IF Len(ds) # 1 THEN "ERR_INVALID_DOMAIN_ASSIGNMENT"
     ELSE IF Cardinality(ds[1].candidates) > Ceiling
     THEN "ERR_GRAPH_TOPOLOGY_OVERSIZED_COMPONENT"
     ELSE IF class = "INSUFFICIENT_CAPACITY" THEN "ERR_INSUFFICIENT_DOMAIN_CAPACITY"
     ELSE IF class = "IMBALANCE_RISK" /\ action = "reject"
     THEN "ERR_DOMAIN_COMPOSITION_IMBALANCE"
     ELSE "solve"
=============================================================================
