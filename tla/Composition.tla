----------------------------- MODULE Composition -----------------------------
(***************************************************************************)
(* Who sits an exam, and the composition guard on the candidates of one    *)
(* domain.  The orchestrator (computeCompositionGuard in                   *)
(* src/src/phase4/partition.ts) and the solver service                     *)
(* (compute_composition_report in src/solver-service/app/guards.py) have   *)
(* the same rules.                                                         *)
(***************************************************************************)
EXTENDS Naturals, FiniteSets

CONSTANTS
  Candidates,           \* register numbers, in the order of localeCompare
  Department, Year,     \* candidate -> department, year ("<none>" for null)
  Limits                \* CompositionLimits, in tenths

(* Register numbers and departments are ordered. *)
ASSUME CandidateAssumption ==
  /\ Candidates \subseteq Nat /\ IsFiniteSet(Candidates)
  /\ Department \in [Candidates -> Nat]

(* The orchestrator's allocation takes the candidates by department, then
   register number. *)
CandidateBefore(c, d) ==
  \/ Department[c] < Department[d]
  \/ Department[c] = Department[d] /\ c < d

CohortOf(c) == <<Department[c], Year[c]>>
Cohort == [c \in Candidates |-> CohortOf(c)]

(* The size of the largest group of C on which f agrees. *)
Largest(f, C) ==
  LET counts == {Cardinality({d \in C : f[d] = f[c]}) : c \in C} \cup {0}
  IN CHOOSE n \in counts : \A m \in counts : m <= n

SeveralBuckets(f, C) == Cardinality({f[c] : c \in C}) >= 2

(* n / total > limit; the ratio of nothing is 0. *)
Over(n, total, limit) == 10 * n > limit * total

Guard(C, seatCount) ==
  LET size == Cardinality(C) IN
  IF size > seatCount THEN "INSUFFICIENT_CAPACITY"
  ELSE IF \/ Over(Largest(Department, C), size, Limits.department)
          \/ SeveralBuckets(Year, C) /\ Over(Largest(Year, C), size, Limits.year)
          \/ SeveralBuckets(Cohort, C) /\ Over(Largest(Cohort, C), size, Limits.cohort)
          \/ Over(seatCount - size, seatCount, Limits.empty)
       THEN "IMBALANCE_RISK"
       ELSE "BALANCED"
=============================================================================
