------------------------------ MODULE SeatLabel ------------------------------
(***************************************************************************)
(* The seat-label model of one domain                                      *)
(* (src/solver-service/app/seatlabel.py).  CP-SAT is external: it answers  *)
(* truthfully, with any solution of the constraints it was given.          *)
(*                                                                         *)
(* A solution is a placement, candidate -> seat: the variables X, with one *)
(* seat per candidate and at most one candidate per seat.                  *)
(***************************************************************************)
EXTENDS SolverPartition

Inhabitant(place, s) == {c \in DOMAIN place : place[c] = s}

(* sorted({c.year for c in candidates if c.year is not None}) *)
YearsOf(C) == {Year[c] : c \in C} \ {"<none>"}

(* The policies that compare years need one; and once there is one, the
   channeling looks the year of every candidate up. *)
BuildFailure(policy, C) ==
  CASE policy # "DEPARTMENT_ONLY" /\ YearsOf(C) = {} -> "ValueError"
    [] YearsOf(C) # {} /\ \E c \in C : Year[c] = "<none>" -> "KeyError"
    [] OTHER -> "none"

(* Mutant: both labels must clash where one suffices. *)
ForbiddenOnlyTogether(policy, c, d) ==
  CASE policy = "DEPARTMENT_ONLY" -> Department[c] = Department[d]
    [] OTHER                      -> CohortOf(c) = CohortOf(d)

(* The labels of neighbours that the reified constraints keep apart. *)
Forbidden(policy, c, d) ==
  CASE policy = "DEPARTMENT_ONLY"     -> Department[c] = Department[d]
    [] policy = "STRICT_DEPT_OR_YEAR" -> Department[c] = Department[d] \/ Year[c] = Year[d]
    [] OTHER                          -> CohortOf(c) = CohortOf(d)

(* The edges of the graph within the domain. *)
DomainEdges(seats, es) == {e \in es : e[1] \in seats /\ e[2] \in seats}

(* The solutions of the constraints. *)
Placements(policy, C, seats, es) ==
  {place \in [C -> seats] :
     /\ IsInjective(place)
     /\ \A e \in DomainEdges(seats, es) :
          \A c \in Inhabitant(place, e[1]), d \in Inhabitant(place, e[2]) :
            ~Forbidden(policy, c, d)}

(* The neighbours of one department in a placement: what CP-SAT minimises,
   and what the validator counts. *)
SameDepartment(place, es) ==
  {e \in es : \E c \in Inhabitant(place, e[1]), d \in Inhabitant(place, e[2]) :
     Department[c] = Department[d]}

Cost(place, es) == Cardinality(SameDepartment(place, es))

(* Mutant: the objective is left out of the model. *)
AnyIsOptimal(sols, es) == sols

Cheapest(sols, es) ==
  {p \in sols : \A q \in sols : Cost(p, es) <= Cost(q, es)}

NoPlace == << >>

(* What solver.Solve may return: a status that is true of the model, and a
   solution when there is one to report. *)
CpSat(policy, C, seats, es) ==
  LET sols == Placements(policy, C, seats, es)
      best == Cheapest(sols, DomainEdges(seats, es))
      answer(status, p) == [status |-> status, place |-> p]
  IN {answer("OPTIMAL", p) : p \in best}
       \cup {answer("FEASIBLE", p) : p \in sols}
       \cup {answer("UNKNOWN", NoPlace)}
       \cup IF sols = {} THEN {answer("INFEASIBLE", NoPlace)} ELSE {}

(* Mutant: every status without a solution reads as infeasible. *)
ClassifiedByOutcome(status) ==
  IF status \in {"OPTIMAL", "FEASIBLE"} THEN status ELSE "INFEASIBLE"

(* classify_status *)
Classified(status) ==
  IF status \in {"OPTIMAL", "FEASIBLE", "INFEASIBLE"} THEN status ELSE "ERROR"

(* The pairs the validator counts against the policy: a missing year equals
   no year. *)
Violations(policy, place, es) ==
  LET sameYear(c, d) == Year[c] # "<none>" /\ Year[c] = Year[d]
      sameDept(c, d) == Department[c] = Department[d]
  IN {e \in es :
        \E c \in Inhabitant(place, e[1]), d \in Inhabitant(place, e[2]) :
          CASE policy = "DEPARTMENT_ONLY"     -> sameDept(c, d)
            [] policy = "STRICT_DEPT_OR_YEAR" -> sameDept(c, d) \/ sameYear(c, d)
            [] OTHER                          -> sameDept(c, d) /\ sameYear(c, d)}

Result(status, place, objective, code) ==
  [status |-> status, place |-> place, objective |-> objective, code |-> code]

(* What _solve_domain makes of CP-SAT's answer.  CP-SAT's own objective is
   the cost within the domain; the report counts over the whole graph. *)
Checked(policy, seats, es, a) ==
  CASE Classified(a.status) = "INFEASIBLE" -> Result("INFEASIBLE", NoPlace, 0, "none")
    [] Classified(a.status) = "ERROR" ->
         Result("ERROR", NoPlace, 0, "SOLVER_TIMEOUT_NO_SOLUTION")
    [] OTHER ->
         IF Violations(policy, a.place, es) # {}
         THEN Result("ERROR", NoPlace, 0, "ERR_INVALID_ASSIGNMENT")
         ELSE IF a.status = "OPTIMAL" /\ Cost(a.place, DomainEdges(seats, es)) # Cost(a.place, es)
         THEN Result("ERROR", NoPlace, 0, "ERR_VALIDATOR_MISMATCH")
         ELSE Result(a.status, a.place, Cost(a.place, es), "none")

(* The results _solve_domain may return for a domain; none when it raises. *)
DomainResults(policy, C, seats, es) ==
  CASE C = {} -> {Result("OPTIMAL", NoPlace, 0, "none")}
    [] C # {} /\ BuildFailure(policy, C) = "ValueError" ->
         {Result("ERROR", NoPlace, 0, "ERR_INVALID_POLICY_CONFIGURATION")}
    [] C # {} /\ BuildFailure(policy, C) = "KeyError" -> {}
    [] OTHER -> {Checked(policy, seats, es, a) : a \in CpSat(policy, C, seats, es)}
=============================================================================
