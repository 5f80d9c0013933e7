------------------------------ MODULE RosterReads ------------------------------
(***************************************************************************)
(* What a generation reads of the roster, and when: runSeatingGeneration   *)
(* (src/src/phase4/integration.ts) reconciles the candidates in one call   *)
(* (reconcile.ts), reads the solver's input in another (solverInput.       *)
(* service.ts), and commits a plan for what it read much later, while the  *)
(* administrators of Roster and the uploads go on.                         *)
(*                                                                         *)
(* Generations of one exam run one at a time (Generation, SingleFlight),   *)
(* so there is one generation here, which runs again and again.            *)
(***************************************************************************)
EXTENDS Roster

VARIABLES
  stage,     \* the generation's next call; "none": no job is active
  input,     \* candidates of the solver's input
  seated     \* candidates of the newest plan

generation == <<stage, input, seated>>
readsVars == <<vars, generation>>

TypeOKReads ==
  /\ TypeOK
  /\ stage \in {"none", "reconcile", "build", "solve", "persist"}
  /\ input \subseteq Student
  /\ seated \subseteq Student

InitReads ==
  /\ Init
  /\ stage = "none"
  /\ input = {}
  /\ seated = {}

(* The job gets its verdict, or another generation may begin. *)
End ==
  /\ stage' = "none"
  /\ input' = {}

(* requestSolve's insert and startSolve; nobody asks for the exam's status. *)
Request ==
  /\ stage = "none"
  /\ stage' = "reconcile"
  /\ UNCHANGED <<vars, input, seated>>

(* reconcileExamForGeneration(...).ok, as far as the candidates' statuses
   go.  Register numbers are unique in an exam. *)
Reconciled == OnRoster \subseteq Validated

(* The generation stops if a candidate is not VALIDATED, or differs from the
   student master. *)
Reconcile ==
  /\ stage = "reconcile"
  /\ \/ /\ Reconciled
        /\ stage' = "build"
        /\ UNCHANGED input
     \/ End
  /\ UNCHANGED <<vars, seated>>

(* Mutant: the solver's input is not filtered. *)
ReadEverybody == OnRoster

(* buildSolverInput: findMany of the VALIDATED candidates. *)
SolverCandidates == Validated

BuildSolverInput ==
  /\ stage = "build"
  /\ stage' = "solve"
  /\ input' = SolverCandidates
  /\ UNCHANGED <<vars, seated>>

(* runGeneration: a seating of the whole input (DomainPool), or nothing. *)
Solve ==
  /\ stage = "solve"
  /\ \/ stage' = "persist" /\ UNCHANGED input
     \/ End
  /\ UNCHANGED <<vars, seated>>

(* The transaction commits the plan, or fails. *)
Persist ==
  /\ stage = "persist"
  /\ seated' \in {input, seated}
  /\ End
  /\ UNCHANGED vars

GenerationStep == Request \/ Reconcile \/ BuildSolverInput \/ Solve \/ Persist

NextReads ==
  \/ GenerationStep
  \/ \E e \in Editor : EditorStep(e, stage # "none") /\ UNCHANGED generation
  \/ \E s \in Student, d \in Document : Upsert(s, d) /\ UNCHANGED generation

SpecReads == InitReads /\ [][NextReads]_readsVars

-----------------------------------------------------------------------------
(* Whoever is neither in the newest plan nor in the input of the generation
   under way, and is excluded or not on the roster, when an exam that is
   cancelled has settled, is given a seat by no generation that starts, reads
   or commits later, unless a document names the student: uploads do not look
   at the exam and may bring such a student back. *)
OutsidersStayUnseated ==
  \A s \in Student :
    LET out == s \notin input \cup seated /\ candidate[s] \in {"ABSENT", "REJECTED"} IN
    [](Settled /\ out => [](s \in seated => source[s] # NoDocument))
=============================================================================
