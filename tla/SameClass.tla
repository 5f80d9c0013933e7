------------------------------ MODULE SameClass ------------------------------
(***************************************************************************)
(* Approach C behind /solve (src/solver-service/app/solver.py, assign.py,  *)
(* constraints.py): CP-SAT chooses a pattern, which class sits on which    *)
(* seat; a bijection then seats the candidates of each class.  The oracle  *)
(* of the tests (oracle.py) places the candidates themselves.              *)
(***************************************************************************)
EXTENDS SeatLabel

CONSTANT Class   \* candidate -> class

(* 0 stands for an empty seat. *)
ASSUME ClassAssumption == Class \in [Candidates -> Nat \ {0}]

Key(scope, c) == IF scope = "class" THEN Class[c] ELSE Department[c]
Keys(scope, C) == {Key(scope, c) : c \in C}
Group(scope, C, k) == {c \in C : Key(scope, c) = k}

(* build_edges: eight neighbours, whatever the request's adjacency. *)
ClassEdges(seats) == HallEdges(seats, "eight")

Neighbours(seats, s) ==
  {t \in seats : <<s, t>> \in ClassEdges(seats) \/ <<t, s>> \in ClassEdges(seats)}

SeatsOfKey(pattern, k) == {s \in DOMAIN pattern : pattern[s] = k}

(* Mutant: the weight of the seat is one short. *)
EncodingTooWeak(pattern, K) ==
  \A s \in DOMAIN pattern, k \in K :
    LET near == Neighbours(DOMAIN pattern, s) IN
    pattern[s] = k /\ near # {} => Cardinality(near \cap SeatsOfKey(pattern, k)) <= 1

(* C3 in Encoding D: of a seat's deg neighbours none has its class. *)
EncodingD(pattern, K) ==
  \A s \in DOMAIN pattern, k \in K :
    LET near == Neighbours(DOMAIN pattern, s)
        deg == Cardinality(near)
        z == IF pattern[s] = k THEN 1 ELSE 0
    IN Cardinality(near \cap SeatsOfKey(pattern, k)) + deg * z <= deg

(* C2: as many seats as candidates, for each class. *)
QuotasMet(scope, C, pattern) ==
  \A k \in Keys(scope, C) :
    Cardinality(SeatsOfKey(pattern, k)) = Cardinality(Group(scope, C, k))

(* The solutions of stage 1; C1 is the pattern's being a function. *)
Patterns(scope, C, seats) ==
  {p \in [seats -> Keys(scope, C) \cup {0}] :
     QuotasMet(scope, C, p) /\ EncodingD(p, Keys(scope, C))}

(* key_department: the last candidate of the class decides. *)
KeyDepartment(scope, C, k) ==
  Department[CHOOSE c \in Group(scope, C, k) :
               \A d \in Group(scope, C, k) : RegisterCode[d] <= RegisterCode[c]]

(* The objective of stage 1. *)
PatternCost(scope, C, pattern) ==
  LET dept(s) == KeyDepartment(scope, C, pattern[s]) IN
  Cardinality({e \in ClassEdges(DOMAIN pattern) :
                 /\ pattern[e[1]] # 0 /\ pattern[e[2]] # 0
                 /\ dept(e[1]) = dept(e[2])})

PatternAnswers(scope, C, seats) ==
  LET sols == Patterns(scope, C, seats)
      best == {p \in sols : \A q \in sols :
                 PatternCost(scope, C, p) <= PatternCost(scope, C, q)}
      answer(status, p) == [status |-> status, pattern |-> p]
  IN {answer("OPTIMAL", p) : p \in best}
       \cup {answer("FEASIBLE", p) : p \in sols}
       \cup {answer("UNKNOWN", NoPlace)}
       \cup IF sols = {} THEN {answer("INFEASIBLE", NoPlace)} ELSE {}

(* assign_candidates: the candidates of a class, in register order, on its
   seats, in their order, as far as both reach. *)
AssignCandidates(scope, C, pattern) ==
  LET seatsOf(c) == SeatsOfKey(pattern, Key(scope, c))
      rank(c) == Cardinality({d \in Group(scope, C, Key(scope, c)) :
                                RegisterCode[d] < RegisterCode[c]})
      seated == {c \in C : rank(c) < Cardinality(seatsOf(c))}
  IN [c \in seated |->
        CHOOSE s \in seatsOf(c) :
          Cardinality({t \in seatsOf(c) : SolverBefore(t, s)}) = rank(c)]

(* compute_validation_report: pairs of neighbours of one class. *)
SameClassPairs(place, seats) ==
  {e \in ClassEdges(seats) :
     \E c \in Inhabitant(place, e[1]), d \in Inhabitant(place, e[2]) :
       Class[c] = Class[d]}

(* required_zeros *)
RequiredZeros(place, C, seats) ==
  /\ SameClassPairs(place, seats) = {}
  /\ DOMAIN place = C
  /\ IsInjective(place)

(* solve_dense: the candidates themselves placed, classes apart. *)
OraclePlacements(C, seats) ==
  {place \in [C -> seats] : IsInjective(place) /\ SameClassPairs(place, seats) = {}}

(* What solve_request makes of CP-SAT's answer. *)
PatternResult(scope, C, seats, a) ==
  LET place == AssignCandidates(scope, C, a.pattern) IN
  CASE Classified(a.status) = "INFEASIBLE" ->
         Result("INFEASIBLE", NoPlace, 0, "NO_FEASIBLE_ASSIGNMENT")
    [] Classified(a.status) = "ERROR" ->
         Result("ERROR", NoPlace, 0, "SOLVER_TIMEOUT_NO_SOLUTION")
    [] a.status = "OPTIMAL" ->
         Result("OPTIMAL", place, PatternCost(scope, C, a.pattern), "none")
    [] OTHER ->
         Result("FEASIBLE", place, Cost(place, ClassEdges(seats)), "none")
=============================================================================
