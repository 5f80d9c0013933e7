---------------------------- MODULE SolverService ----------------------------
(***************************************************************************)
(* The solver service: POST /solve and POST /solve-domain                  *)
(* (src/solver-service/app/main.py), and the pipeline over several domains *)
(* that the benchmarks call (solve_partitioned in seatlabel.py).           *)
(*                                                                         *)
(* The service is stateless, so one request is the whole system; what      *)
(* varies is the request and what CP-SAT makes of it.                      *)
(***************************************************************************)
EXTENDS SameClass

CONSTANT Requests

ASSUME RequestsAssumption ==
  /\ Requests \subseteq
       [route : {"solve", "solve-domain", "partitioned"}, token : BOOLEAN, inTime : BOOLEAN,
        candidates : SUBSET Candidates, seats : SUBSET AllSeats,
        scope : {"class", "department"}, adjacency : {"eight", "cardinal"},
        policy : {"DEPARTMENT_ONLY", "STRICT_DEPT_OR_YEAR", "COHORT"},
        action : {"warn", "reject"}]
  /\ \A q \in Requests : IsFiniteSet(q.seats)

VARIABLES
  request,
  stage,
  parts,      \* the domains of the request: seats and candidates
  results,    \* what _solve_domain returned, domain by domain
  response

serviceVars == <<request, stage, parts, results, response>>

NoResponse == Result("none", NoPlace, 0, "none")

InitService ==
  /\ request \in Requests
  /\ stage = "received"
  /\ parts = << >> /\ results = << >>
  /\ response = NoResponse

Graph == SolverEdges(request.seats, request.adjacency)

Answer(r) == response' = r /\ stage' = "answered"
Fail(code) == Answer(Result("ERROR", NoPlace, 0, code))
Infeasible(code) == Answer(Result("INFEASIBLE", NoPlace, 0, code))
Http(status) == Answer(Result(status, NoPlace, 0, "none"))

TooManyCandidates == Cardinality(request.candidates) > Cardinality(request.seats)

(* require_internal_token, then the two checks of each handler. *)
Accepted ==
  \/ request.route = "partitioned"
  \/ request.token /\ ~TooManyCandidates /\ request.inTime

Refuse ==
  /\ stage = "received" /\ ~Accepted
  /\ IF request.token THEN Http("HTTP_422") ELSE Http("HTTP_401")
  /\ UNCHANGED <<request, parts, results>>

-----------------------------------------------------------------------------
(* /solve                                                                  *)

(* CP-SAT's answer, or whatever the solver raises. *)
SolveRequest ==
  /\ stage = "received" /\ Accepted /\ request.route = "solve"
  /\ IF TooManyCandidates
     THEN Infeasible("INSUFFICIENT_SEATS")
     ELSE \/ \E a \in PatternAnswers(request.scope, request.candidates, request.seats) :
               Answer(PatternResult(request.scope, request.candidates, request.seats, a))
          \/ Fail("INTERNAL_ERROR")
  /\ UNCHANGED <<request, parts, results>>

-----------------------------------------------------------------------------
(* /solve-domain and solve_partitioned                                     *)

GraphAndPartition ==
  /\ stage = "received" /\ Accepted /\ request.route # "solve"
  /\ parts' = SolverDomains(request.seats, request.adjacency, request.candidates)
  /\ stage' = "parts"
  /\ UNCHANGED <<request, results, response>>

Oversized == \E i \in DOMAIN parts : Cardinality(parts[i].candidates) > Ceiling

Composition(i) ==
  CompositionReport(parts[i].candidates, Cardinality(parts[i].seats))

Overfull(i) == Composition(i) = "INSUFFICIENT_CAPACITY"
Rejected(i) == Composition(i) = "IMBALANCE_RISK" /\ request.action = "reject"

CheckDomain ==
  /\ stage = "parts" /\ request.route = "solve-domain"
  /\ CASE Len(parts) # 1 -> Fail("ERR_INVALID_DOMAIN_ASSIGNMENT")
       [] Len(parts) = 1 /\ Oversized -> Fail("ERR_GRAPH_TOPOLOGY_OVERSIZED_COMPONENT")
       [] Len(parts) = 1 /\ ~Oversized /\ Overfull(1) ->
            Infeasible("ERR_INSUFFICIENT_DOMAIN_CAPACITY")
       [] Len(parts) = 1 /\ ~Oversized /\ Rejected(1) ->
            Fail("ERR_DOMAIN_COMPOSITION_IMBALANCE")
       [] OTHER -> stage' = "solving" /\ UNCHANGED response
  /\ UNCHANGED <<request, parts, results>>

CheckPartitioned ==
  /\ stage = "parts" /\ request.route = "partitioned"
  /\ IF Oversized
     THEN Fail("ERR_GRAPH_TOPOLOGY_OVERSIZED_COMPONENT")
     ELSE stage' = "solving" /\ UNCHANGED response
  /\ UNCHANGED <<request, parts, results>>

(* _solve_domain for the next domain.  A candidate without a year among
   others with one raises a KeyError that nobody catches. *)
SolveDomain ==
  /\ stage = "solving" /\ Len(results) < Len(parts)
  /\ LET i == Len(results) + 1
         outcomes == DomainResults(request.policy, parts[i].candidates, parts[i].seats, Graph)
         checks == request.route = "partitioned"
     IN CASE checks /\ Overfull(i) ->
               Infeasible("ERR_INSUFFICIENT_DOMAIN_CAPACITY") /\ UNCHANGED results
          [] checks /\ Rejected(i) ->
               Fail("ERR_DOMAIN_COMPOSITION_IMBALANCE") /\ UNCHANGED results
          [] ~(checks /\ (Overfull(i) \/ Rejected(i))) /\ outcomes = {} ->
               Http("HTTP_500") /\ UNCHANGED results
          [] OTHER ->
               /\ \E r \in outcomes : results' = Append(results, r)
               /\ UNCHANGED <<stage, response>>
  /\ UNCHANGED <<request, parts>>

FirstFailure ==
  CHOOSE i \in DOMAIN results :
    /\ results[i].status \in {"INFEASIBLE", "ERROR"}
    /\ \A j \in 1 .. i - 1 : results[j].status \notin {"INFEASIBLE", "ERROR"}

(* The assignments of all domains; no two seat the same candidate. *)
AllPlaces ==
  [c \in UNION {DOMAIN results[i].place : i \in DOMAIN results} |->
     LET i == CHOOSE j \in DOMAIN results : c \in DOMAIN results[j].place
     IN results[i].place[c]]

(* The one domain's result, or the first failure, or all domains together. *)
Respond ==
  /\ stage = "solving" /\ Len(results) = Len(parts)
  /\ CASE \E i \in DOMAIN results : results[i].status \in {"INFEASIBLE", "ERROR"} ->
            Answer(results[FirstFailure])
       [] OTHER ->
            IF Violations(request.policy, AllPlaces, Graph) # {}
            THEN Fail("ERR_INVALID_ASSIGNMENT")
            ELSE Answer(Result(IF \A i \in DOMAIN results : results[i].status = "OPTIMAL"
                               THEN "OPTIMAL" ELSE "FEASIBLE",
                               AllPlaces, Cost(AllPlaces, Graph), "none"))
  /\ UNCHANGED <<request, parts, results>>

NextService ==
  \/ Refuse \/ SolveRequest
  \/ GraphAndPartition \/ CheckDomain \/ CheckPartitioned
  \/ SolveDomain \/ Respond

SpecService == InitService /\ [][NextService]_serviceVars

-----------------------------------------------------------------------------
Solved == response.status \in {"OPTIMAL", "FEASIBLE"}

(* A class of one department, as the objective of stage 1 takes it. *)
ClassesHaveOneDepartment ==
  \A c, d \in request.candidates : Class[c] = Class[d] => Department[c] = Department[d]

(* A solution the service hands out is never a part of a seating: every
   candidate of the request has a seat of the request to itself.  The two
   handlers refuse a request with more candidates than seats; in
   solve_partitioned the allocation raises, nobody reads the error, and what
   is answered is a solution of nobody: the domains that were filled before
   it raised must not be solved. *)
SolvedIsComplete ==
  Solved =>
    /\ DOMAIN response.place =
         IF request.route = "partitioned" /\ TooManyCandidates THEN {} ELSE request.candidates
    /\ IsInjective(response.place)
    /\ \A c \in DOMAIN response.place : response.place[c] \in request.seats

(* A solution obeys the rule it was asked for: the policy between
   neighbours, or the four zeros of /solve. *)
SolvedObeysRule ==
  Solved =>
    /\ request.route # "solve" => Violations(request.policy, response.place, Graph) = {}
    /\ request.route = "solve" /\ request.scope = "class" =>
         RequiredZeros(response.place, request.candidates, request.seats)
    /\ request.route = "solve" /\ request.scope = "department" =>
         SameDepartment(response.place, ClassEdges(request.seats)) = {}

(* The validator never contradicts the model: constraints on labels and
   counting of pairs are the same rule. *)
ValidatorAgrees ==
  response.code \notin {"ERR_INVALID_ASSIGNMENT", "ERR_VALIDATOR_MISMATCH"}

(* "Infeasible" is a proof: no placement of the domain's candidates obeys
   the rule, not merely none was found. *)
InfeasibleIsProven ==
  response.status = "INFEASIBLE" =>
    CASE request.route = "solve" /\ request.scope = "class" ->
           OraclePlacements(request.candidates, request.seats) = {}
      [] request.route # "solve" ->
           \E i \in DOMAIN parts :
             Placements(request.policy, parts[i].candidates, parts[i].seats, Graph) = {}
      [] OTHER -> TRUE

(* An optimal objective is the number of neighbours of one department in the
   answer (on /solve, if no class spans departments), and no placement of the
   candidates themselves does better: the pattern model loses nothing against
   the oracle. *)
OptimalIsBest ==
  response.status = "OPTIMAL" /\ request.candidates # {} =>
    /\ request.route = "solve" /\ request.scope = "class" /\ ClassesHaveOneDepartment =>
         /\ response.objective = Cost(response.place, ClassEdges(request.seats))
         /\ \A q \in OraclePlacements(request.candidates, request.seats) :
              response.objective <= Cost(q, ClassEdges(request.seats))
    /\ request.route = "solve-domain" =>
         /\ response.objective = Cost(response.place, Graph)
         /\ \A q \in Placements(request.policy, request.candidates, request.seats, Graph) :
              response.objective <= Cost(q, Graph)
=============================================================================
