# AR-SEAT in TLA+

AR-SEAT seats the candidates of an examination. A coordinator registers an exam and its
candidates (by upload of documents or by hand), describes halls, benches and seats, and asks
for a *seating generation*: the candidates are partitioned over groups of halls ("domains"),
each domain is solved by a Python service, the answers are checked again, merged, and written
as a new version of the exam's *seating plan*, which is then approved and published.

These modules model the part of the server (`src/src`) in which requests, database calls and
solver calls interleave, the algorithms that divide a session and check its seating, the solver
service (`solver-service/app`) and one page of the console. Paths below are relative to `src/`.

Contents: [1 Inventory](#1-inventory) · [2 Modelling conventions](#2-modelling-conventions) ·
[3 Modules](#3-modules-and-the-code) · [4 Runs](#4-runs) · [5 Bounds](#5-bounds) ·
[6 Fairness](#6-fairness) · [7 Proofs](#7-proofs) · [8 Disagreements](#8-disagreements-with-the-code) ·
[9 Not modelled](#9-what-is-not-modelled) · [10 Plan](#10-plan)

## 1 Inventory

### Components, their state and their operations

| Component | State | Operations | Correct when |
|---|---|---|---|
| **Seating plans** `src/services/seatingPlan.service.ts` | `seating_plans`: status, version, supersedesPlanId, approvedAt | createPlan, approvePlan, publishPlan, supersedePlan | one PUBLISHED plan; versions are one gapless chain; only approved plans are published; only the newest version is alive; statuses follow PLAN_TRANSITIONS |
| **Solve jobs** `src/services/solveJob.service.ts` | `solve_jobs`: status, startedAt, heartbeatAt | requestSolve, startSolve, completeSolve, markInfeasible, failSolve, cancelSolve, heartbeat, reapStaleJobs | one active job per exam; verdicts only of started jobs; terminal statuses final; every job ends |
| **Generation orchestration** `src/phase4/integration.ts`, `persist.ts` | the runner's place in runSeatingGeneration, the job it created | POST generations → requestSolve, startSolve, runGeneration, persistValidatedGeneration, a verdict | the job tells the truth about the plans; a generation is committed at most once; generations of one exam do not overlap |
| **Domain pool, validation, merge** `src/phase4/generation.service.ts`, `workerPool.ts`, `validateMerge.ts`, `solverClient.ts` | the pool's cursor, one record per domain, the generation's state and error | claim, dispatch, answer, transport failure, collect, merge, persist | a complete seating without duplicates is persisted, or nothing; each domain is solved once; the verdict is deterministic |
| **Partition, topology, guard** `src/phase4/partition.ts`, `topology.ts` | of one call: the union-find forest, the domains, the allocation cursor | buildPhysicalGraph, union, find, partitionCandidates, verifyPartitionInvariants, computeCompositionGuard, the gates of runGeneration | a group is a connected component; domains are disjoint, cover the roster and fit their halls; a call is blocked only when it must be; what is dispatched can be solved |
| **Exams, roster, reconciliation** `src/services/exam.service.ts`, `candidate.service.ts`, `conflict.service.ts`, `solverInput.service.ts`, `src/phase4/reconcile.ts` | `exams.status`, `exam_candidates`: validation status and snapshot | cancelExam, add/validate/exclude/reinstate candidate, update snapshot, reconcile, build solver input | through the HTTP API only a candidate of a document is validated; a cancelled exam's roster is locked to administrators; nobody who was out when it was closed is seated |
| **Exam document ingest** `src/services/exam-document/` | `uploaded_exam_documents.parseStatus`, candidates it upserts | upload, extract, validate, upsert, commit the parse status | PARSED means complete; a candidate's source is a processed document that names it |
| **Halls, seats, benches** `src/services/hall.service.ts`, `bench.service.ts` | active flags, seat→bench | create, update, setBenchActive, assign, remove; buildSolverInput's reads | a seat and its bench are in one hall; a decommissioned seat stays out of every generation |
| **Students, classes, departments** | master records | create, update, list | (one database call each) |
| **Sessions, users, guards** `src/phase4/auth/` | `auth_sessions` | log in, resolve, log out, clean up | an expired session is refused |
| **HTTP API** `src/phase4/api.ts` | a registry of generation results in memory | the handlers | calls the services in the order of their contracts |
| **Solver service: graph, partition, guards** `solver-service/app/graph.py`, `partition.py`, `guards.py` | none | build, partition_request, allocate_candidates_to_domains, compute_composition_report | agrees with the server's own partition |
| **Solver service: models, validation, endpoints** `solver-service/app/main.py`, `seatlabel.py`, `solver.py`, `assign.py`, `validation.py` | of one request | POST /solve, POST /solve-domain, solve_partitioned | a solution is complete and obeys the rule asked for; "infeasible" and "optimal" are proofs; the validator and the model mean the same rule |
| **Frontend** `frontend/src` | of a page: what it shows, its error, loads and changes under way | load, reload, create, toggle, assign, remove | a page at rest shows what it was told is done |
| **Proforma**, **storage**, **audit**, **scripts** | – | – | no decision of the server depends on them |

### How they interact

The HTTP handlers run concurrently in one node process (several processes may share the
database; nothing in the code forbids it). They share no memory that decides anything: all
coordination goes through PostgreSQL, by single statements, by a few interactive transactions,
and by three unique indexes: `(exam_id, version)`, one PUBLISHED plan per exam, and one
QUEUED/RUNNING job per exam. A generation owns a job from `requestSolve` to its verdict; in
between it reads the roster and the halls, sends the domains to the solver over HTTP through a
bounded pool, and commits a plan in one transaction. Approval and publication run beside it, and
so do uploads, which upsert candidates, and the administrators who edit the roster and the halls.

Inside a generation, `partitionCandidates` runs synchronously on what was read: halls become a seat
graph, its connected components become domains of whole halls, candidates are dealt to them in
turn. The solver service rebuilds graph and domain from the payload it is sent, refuses one that is
not a single component, builds a CP-SAT model, and checks CP-SAT's answer once more.

### What is hard

* **Check, then write by id.** Every service reads a row, asserts a transition, and updates
  `where: { id }` in a later call. Whatever happened in between is overwritten.
* **Multi-call operations.** `publishPlan` is four calls outside a transaction;
  `persistValidatedGeneration` is a transaction followed by a call that may fail.
* **Interleaved generations.** Only the active-job index keeps two generations of one exam apart.
* **Answers in any order, or wrong.** The pool collects what arrives; the solver is not trusted.
* **Crashes.** A job whose runner died stays RUNNING; `reapStaleJobs` has no caller.
* **Two reads of one roster.** A generation reconciles the roster in one call and reads the
  solver's candidates in another; an upload decides its document's final status long before it
  writes it.
* **Two implementations of one algorithm.** Graph, components, allocation and composition guard
  exist in TypeScript and in Python, and a domain the one dispatches is refused by the other
  wherever they differ. They even sort by different orders (`localeCompare`, code points). Validator
  and model are two statements of one rule as well.
* **Pages and late answers.** A page may have several changes and several loads under way, answered
  in any order.
* **Lost answers.** A call can take effect and still be seen to fail (the audit row written
  after it is refused, or the connection drops).

`PROJECT.json` lists each hazard at its line with the properties that cover it.

## 2 Modelling conventions

* **A step is one awaited call.** A prisma call outside a transaction is one atomic step; a
  `$transaction` is a read step and a commit step, its own writes becoming visible together.
  Reads inside a transaction can be out of date at the commit (READ COMMITTED, no locks taken).
  In `DomainPool` a step is what a node callback does between two awaits.
* **Synchronous code.** `Partition` and `SolverService` have nothing beside them; there a step is
  one turn of a loop, or one phase of a handler, so that the intermediate states of union-find and
  allocation are states of the model, and the input is chosen in `Init`. An external solver's
  answer is any answer that is true of the constraints it was given, or none.
* **A rejected check is no step.** An operation whose first read fails its assertion has written
  nothing, so it stutters. Where the caller reacts to the exception (`Generation`), the
  rejection is a step of the caller.
* **One exam.** (`Halls` is about the halls of all exams.) No query of the plans, jobs, candidates
  or documents crosses exams (the conflict report, which only reads, does), and the indexes are per
  exam.
* **A table is a set of columns**, functions from row ids; a row that does not exist yet has
  the status `"ABSENT"`. Ids are drawn from a finite set; when they run out, creation stops.
* **Left out everywhere**: audit rows (no decision reads them; that they are a separate call is
  in the models as `AnswerLost`), timestamps beyond "set" and "within maxAgeMs", result columns,
  the wording of errors, logging.
* **Faults.** `Abandon`, `AbandonUpload` and `CallFails` end an operation between two of its calls,
  `Crash` ends a runner anywhere, `AnswerLost` commits a call that its caller sees fail.
* Operators commented as *Mutant* are plausible bugs (a missing index, a dropped check). They are
  not used by any specification; substituting one must break the property that names the hazard,
  which is how we know that the property can fail.

## 3 Modules and the code

| Module | Models | Correspondence |
|---|---|---|
| `SeatingPlans` | `seatingPlan.service.ts`, the indexes on `seating_plans` | `status`, `version`, `supersedes`, `approved` are columns. Each request has `pc` (its next call), `target` (`id`, or the latest plan it read) and `demoted` (the other plan it decided to supersede). `approvePlan` = `ApproveRead`, `ApproveWrite`; `publishPlan` = `PublishRead`, `PublishFindOther`, `PublishDemote`, `PublishWrite`/`PublishRejected` (P2002); `supersedePlan` = `SupersedeRead`, `SupersedeWrite`; `createPlan` and the transaction of `persistValidatedGeneration` = `CreateRead`, `CreateCommit`/`CreateRolledBack` |
| `PlanLifecycle` | the abstract plan list | `plans[n]` is the status of version n; only the last can be alive |
| `SolveJobs` | `solveJob.service.ts`, the active-job index | `job`, `started`, `beating` (heartbeatAt recent enough) are columns; each caller has `call` (the write it makes next) and `subject`; `stale` is what the reaper's `findMany` returned. `requestSolve` = `RequestReturnsActive` / `RequestFindsNone`, `RequestInsert`/`RequestRejected`; the transitions = `Read`, `Write`/`WriteRejected` |
| `Generation` | `runSeatingGeneration`, `persistValidatedGeneration`, and who runs beside them | composes the two modules above by INSTANCE: a runner is a request of `SeatingPlans` and a caller of `SolveJobs`; `stage` is its place in runSeatingGeneration, `mine` its job; `madeBy` is history. `runGeneration` up to persistence is the outcome `Generate` picks |
| `DomainPool` | `runGeneration` from dispatch to the persist callback, `mapWithConcurrency`, `validateDomainResult`, `validateMerge`, `solveDomain`'s outcomes | `cursor` and `hand` are the pool, `state` and `answer` the DomainRunRecords (an answer of status ERROR brings its own `code`), `phase`/`error` the result, `seating` what the persist callback is given |
| `SessionSeating` | what a generation promises | all or nothing, one place each, and a verdict in the end |
| `Roster` | `candidate.service.ts`, `exam.service.ts`, `handleResolveCandidate`, the unique indexes on `exam_candidates` | `exam`, `candidate` (validationStatus) and `source` (sourceDocumentId) are columns; each administrator has `step` (its next call) and `subject`. Every edit is a read, a look at the exam and a write by id: `excludeCandidate` = `ExcludeBegin`, `ExcludeCheck`, `ExcludeWrite`; `reinstateCandidate`, `addCandidateFromMaster`, resolve and `cancelExam` likewise. `Upsert` is the one thing an upload does to the roster. An administrator in `ByService` calls transitionValidationStatus without the handler's look at the source |
| `Ingest` | `ingestExamDocument`, `document.service.ts`, the index on file hashes | extends `Roster`; `parse` is the documents' parseStatus; each upload has `at` (its next call), `file`, `todo` (students still to upsert) and `verdict` (the final status it computed before its upserts) |
| `RosterReads` | what `runSeatingGeneration` reads of the roster: `reconcileExamForGeneration`, `buildSolverInput`, and the commit | extends `Roster`; `stage` is the generation's next call, `input` the solver's candidates, `seated` those of the newest plan |
| `Topology` | `topology.ts`, the graph | a seat is `<<hall, row, column>>`; `HallEdges`, `LegalCrossEdge`, and the orders in which nodes and edges are taken (`Before`, `EdgeBefore`; halls by `localeCompare`, whose order their numbers are); `IsComponent` is the reference definition |
| `Composition` | `computeCompositionGuard`, `compute_composition_report` | `Guard`, with the limits in tenths and register numbers and departments as numbers |
| `Partition` | `partitionCandidates`, `UnionFind`, `verifyPartitionInvariants`, the gates of `runGeneration` | `parent` is the forest, `at` where the finds under way stand: `Halve` is a turn of find's loop, `Link` the end of a union, `Collect` a turn of the grouping, `Allocate` one candidate; `Guards` and `Gate` are the phases after the loops. The inputs are records chosen in `Init` |
| `SolverPartition` | `graph.py`, `partition.py`, `guards.py`, the first half of `solve_domain` | operators: `HallCode` and `RegisterCode` are the places of halls and register numbers in the order of code points, by which the service sorts (`SolverBefore`, `SolverCandidateBefore`); `SolverDomains` is `partition_request`, `Preflight` what `solve_domain` checks before it builds a model |
| `SeatLabel` | `seatlabel.py` (`_solve_domain`), `validation.py` | `Placements` are the solutions of the constraints, `CpSat` what the external solver may answer, `Violations` the validator's count, `DomainResults` what is made of it |
| `SameClass` | `solver.py`, `constraints.py`, `assign.py`, `oracle.py` | `Patterns` are the solutions of C1–C3 in Encoding D, `AssignCandidates` the bijection, `OraclePlacements` the reference model |
| `SolverService` | `main.py`, `solve_domain`, `solve_partitioned` | one request from `Accepted`/`Refuse` to `Respond`; `results` grows by one domain per `SolveDomain` |
| `Halls` | `hall.service.ts`, `bench.service.ts`, `buildSolverInput`'s reads | `hall`, `bench`, `member` (bench_id) and `isActive` are columns; each request has `step` (its next call) and `op`; `retired` is history. A bench may be created inactive. `assignSeatToBench` = `Begin`, `LookUp`, `LookUpSeat`, `Write`, `Acknowledge`; `Fail` ends a request anywhere, its write made or not |
| `HallConsole` | `HallsPage.tsx`, `lib/api.ts` | extends `Halls`: a request is made by a page; `pending` is a reload key whose effect has yet to run, `load` and `late` its loads, `shown` and `error` what it shows. `Click`, `Succeeded`, `Refused` are the page's side of a change |
| `PartitionMirror` | `partition.ts` beside `partition.py` | composes `Partition` with `SolverPartition` and states what the one promises the other |
| `SerialPlans` | `SeatingPlans` and the refinement mapping to `PlanLifecycle` | the version list is read off the columns |
| `MCSeatingPlans`, `MCGeneration`, `MCDomainPool`, `MCIngest`, `MCPartition`, `MCSolverService`, `MCHallConsole` | TLC instances: symmetry, the solver's answers, the files' rows, grids and requests | |
| `SeatingPlans_proofs`, `SolveJobs_proofs`, `Generation_proofs`, `DomainPool_proofs`, `Roster_proofs` (also of `RosterReads` and `Ingest`), `HallConsole_proofs`, `SolverService_proofs`, `Partition_proofs` (extends it) | theorems and proofs | section 7 |

Notes on single decisions:

* `supersedePlan`, `createPlan`, `cancelSolve`, `heartbeat` and `reapStaleJobs` are called by
  tests only; the product calls the rest. The service modules model all of them, since they are
  the services' contract. `generation_wired` keeps `cancelSolve`, `heartbeat` and `reapStaleJobs`
  out (its `Operator` is empty and `Reaping` is FALSE); it leaves `supersedePlan` to the admin,
  which only adds behaviours.
* `createPlan` and `persistValidatedGeneration` contain the same transaction; the seat
  assignments of the latter are inserted in it and are visible if and only if the plan is.
* `Generation` has the exception paths the code has: the persist callback is called under a
  `try` (a failure leads to `failSolve`), everything else lets the exception escape and leaves
  the job as it is; an invalid merge is reported and leaves the job RUNNING.
* `DomainPool` does not model the numbers a solver reports about itself (counts, objective) one
  by one: `consistent` says whether they satisfy `validateDomainResult`. Its checks that no two
  domains share a hall, and that every id is in one domain, hold of a partition by
  `PartitionAssumption` and are left out of `MergeValid`; that dispatched domains are such a
  partition is the theorem `DispatchedArePartitions`.

* `Roster` identifies a student with its register number: both are unique among an exam's
  candidates, and the two differ only if the student master is edited after the candidate was
  made, which is not modelled. prisma's `upsert` on a unique key is one atomic step.
* `transitionValidationStatus` asks neither for a source nor for the exam; the check of the source is
  `handleResolveCandidate`'s. `tests/phase19-candidate-management.test.ts:108-126` calls the service
  itself and validates a candidate that was added by hand, and `ByService` are the administrators who
  do that. `roster_overlap` has one of each kind; `uploads_overlap` is about the HTTP API alone.
* The halls and the candidates of `Topology` and `Composition` are numbered in the order of
  `localeCompare`. What order the code points give the same strings is data (`HallCode`,
  `RegisterCode`), of which `CodeAssumption` says only that it is a linear order.
* Of the exam's statuses the product sets only DRAFT and CANCELLED (`transitionExamStatus` is
  called by tests only), so the other statuses of `Locked` and `MayCancel` never occur.
* `ReadExisting` computes the final status before the upserts, the code after them. The counts are
  the same: `matched` is the number of upserts that returned, and an upsert that fails ends the
  upload. A file's text is a constant: the students its rows match (`Rows`), whether it has other
  rows (`Blocked`), and whether the extraction warns (`Warned`).
* `RosterReads` has one generation that runs again and again, since `SingleFlight` keeps the
  generations of an exam apart, and free upserts in place of `Ingest`'s, which are a subset of them
  (`UploadsAreRoster` in `Roster_proofs`).
* In `HallConsole` what a page shows is `"new"` or `"old"`: read after every change acknowledged to
  the page, or not. An acknowledgement ages everything that is shown or on its way (`Aged`).
* The product sends cross-hall edges to neither side and always partitions with eight neighbours;
  `partition` also takes the calls with cardinal adjacency or a cross edge that the tests make.

## 4 Runs

| Run | Instance | Checks | Shows |
|---|---|---|---|
| `plans_races` | 3 requests, 3 plans | `TypeOK`, `OnePublished`, `VersionChain`, `ApprovalGatesPublication` | in every interleaving of the multi-call operations, with requests dying between calls, the indexes and the order of calls keep one publication, one chain of versions and the approval gate |
| `plans_serial` | 1 request at a time, 4 plans | `OnlyNewestAlive`, `LegalTransitions`, `ImplementsLifecycle` | without overlap the operations implement `PlanLifecycle`; in particular `publishPlan` never finds another PUBLISHED plan to demote, and an abandoned operation leaves no half-done change |
| `generation_wired` | 3 runners, 1 admin, faults | `SingleFlight`, `VersionsNeverCollide`, `JobsFollowTable` | as the product is wired, the active-job index alone serialises generations, so the version index never rejects one |
| `generation_races` | 2 runners, an operator, the reaper, faults | `VerdictMatchesPlans`, `OneVersionPerJob`, `OneActiveJob`, `VerdictsWereStarted` | with cancellation and reaping, terminal jobs can come back to life, but what SUCCEEDED and INFEASIBLE say of the plans stays true |
| `generation_ends` | 2 runners, an operator, the reaper, no faults, no invalid merge, `FairSpec` | `JobsEnd` | every active job reaches a terminal status |
| `generation_merge_stuck` | 2 runners, invalid merges, `FairSpec` | `JobsEnd` (violated) | the finding of section 8 |
| `domain_pool` | 3 domains, 2 calls at a time, 14 answers | `PoolBookkeeping`, `VerdictCoversAllDomains`, `InfeasibleIsTheFirstFailure`, `SeatsAllOrNothing`, `ComesToAVerdict` | whatever the solver answers, in whatever order and with whatever error code, exactly the complete and duplicate-free seatings are handed on, and every generation comes to a verdict |
| `uploads_overlap` | 2 uploads, 2 files, 2 students, 1 administrator | `TypeOKUploads`, `ParsedIsComplete`, `SourcesWereProcessed`, `ValidatedCameFromDocument` | whatever overlaps, a PARSED document is complete, and a candidate's source is a processed document that names it |
| `roster_overlap` | 2 administrators (one calls the service directly), 2 students, 1 document, a generation | `OutsidersStayUnseated`, `CancelledRosterSettles` | once an exam is cancelled and the edits in flight are done, nobody is added by hand, excluded or reinstated, and nobody who was out is seated unless a document names the student |
| `partition` | halls of 2×3 and 1×2 seats, any of them inactive; 0 to 6 candidates of 2 departments | `GroupsAreComponents`, `DispatchedIsPartition`, `BlockedOnlyWhenItMust`, `AllocationIsBalanced`, `DispatchedIsSolvable`, `AllocationsMirror` | union-find finds the components whatever the order; what is dispatched is a partition that the solver service accepts; a session is refused only for too many candidates, a domain over the ceiling or a hall that falls apart; both programs divide a session alike where they sort it alike |
| `solver_service` | the same halls, 5 candidates, 3 classes, every policy, adjacency, route and scope | `SolvedIsComplete`, `SolvedObeysRule`, `ValidatorAgrees`, `InfeasibleIsProven`, `OptimalIsBest` | both models mean what their validators count; a solution is whole, or empty where the pipeline is given more candidates than seats; "infeasible" and "optimal" are right against a reference that places the candidates themselves |
| `hall_console` | 2 halls, 2 seats, 2 benches, a page with 2 changes under way | `SeatStaysInHall`, `DecommissionedStaysOut`, `ShowsOwnChanges` | overlapping administrators neither pair a seat with a bench of another hall nor bring a decommissioned seat back; a page at rest is up to date |

Deadlock is not checked: requests end, generations run once each, calls return, and row ids run
out, so the models stop where the system would merely be idle.

## 5 Bounds

* **Plans**: three overlapping requests are enough for a read, a conflicting commit and a third
  party's write between the two; three plans give a version that is neither the first nor the
  newest. `plans_serial` takes four, so that a successor's successor exists with a spare.
* **Generations**: three runners in `generation_wired` (one that owns a job, one that collides
  with it, one that comes after). With an operator and a reaper two runners suffice for a stale
  write to meet a foreign job; each needs a job and a plan of its own, hence two of each. The
  proofs of section 7 need none of these bounds.
* **Domains**: three with two workers is the least in which a worker takes a second domain while
  the other is still waiting, and in which one domain is neither first nor last. The answers
  include one good answer per domain, one for each way an answer can be wrong, and an ERROR whose code
  says infeasible; a domain of two
  candidates for duplicates, one with a free seat, and a candidate of no domain.
* **Uploads**: two uploads may carry the same file or two files that share a student, one of which
  has a row that matches nobody. One administrator suffices to change a row between two calls of an
  upload; the theorems hold for any number.
* **Roster**: two administrators give a check that is out of date when its write arrives; two
  students give a generation somebody to seat and somebody to leave out. One of the two administrators
  may validate past the handler.
* **Partition**: a 2×3 hall has components that touch only by a diagonal, seats of every number of
  neighbours up to five, and falls apart when its middle column is inactive; the second hall gives
  several domains and a place for cross edges. Six candidates against eight seats with a ceiling of
  four reach every gate from both sides. All 256 sets of active seats are taken. The two
  programs sort two of the six candidates differently, and some sessions hold both of these and
  some do not: both sides of `SortAlike` occur.
* **Solver service**: placements are enumerated, so at most four candidates on six seats. The class
  that spans two departments, the candidate without a year and the hall that falls apart are each
  the smallest of their kind. Halls and candidates are sorted differently by `localeCompare` and by code
  points. 726 requests. The theorems hold for any halls, candidates and requests.
* **Halls and console**: two changes under way give every stale check; one page, since pages share
  nothing but the tables; a bench to move to and a bench to decommission. The theorems hold for any
  number of each.
* Symmetry is used for ids and interchangeable requests only, and not with liveness.

## 6 Fairness

* `Generation!FairSpec`: weak fairness on each runner's next step. Node's event loop resumes a
  request whose awaited call has been answered, and calls are answered; nothing is assumed of
  admins, operators, the reaper or of time passing. Faults are off in those runs, since a crashed
  server owes nobody progress.
* `DomainPool!Fairness`: weak fairness on each worker's claim, on the reply to each open call and
  on the three sequential phases. `solveDomain` aborts a call after the time limit and a buffer,
  so each call ends. The abort timer is cleared once the headers have arrived; that the body ends
  too rests on node's own fetch timeout, which the repository does not configure (listed as a
  hazard).

* `Partition`, `SolverService`, `Halls` and `HallConsole` state safety only and no fairness: their
  loops are bounded, and a page at rest is a state, not a promise to come to rest.

## 7 Proofs

TLAPS checks the following for all values of the constants, from the named assumptions of the
modules (`NoPlanAssumption`, `IdsAssumption`, `OutcomesAssumption`, `FlagsAssumption`,
`ActorsAssumption`, `NullsAssumption`, `FilesAssumption`, `HallsAssumption`, `PageAssumption`,
`ByServiceAssumption`, `GridAssumption`, `CodeAssumption`, `CandidateAssumption`, `ClassAssumption`,
`RequestsAssumption`, `InputAssumption`, `PartitionAssumption`, `AnswersAssumption`): "null" is no
id, a runner is neither an admin nor an operator, the two flags are Booleans, a file's rows match
students, a seat and a bench have a hall, a request has a page, the seats and candidates of a call
or a request exist, are finitely many and ordered by numbers, in two ways, a candidate has a class,
the domains share no hall and no candidate (which `DispatchedArePartitions` proves of the partition
that makes them), and the assignments of an answer are an array.

Three groups of theorems have a hypothesis in their statement. `Wired` (nobody cancels, beats or
reaps) is the product as it is: `cancelSolve`, `heartbeat` and `reapStaleJobs` have callers in the
tests only. With them `SingleFlight`, `VersionsNeverCollide` and `JobsFollowTable` are false: TLC
violates each on the instance of `generation_races`. `Serial` (one request at a time) is what
`PlanLifecycle` is about. Overlapping requests do not implement it: on the instance of `plans_races`
TLC violates `OnlyNewestAlive`, by the `approvePlan` of section 8. What survives their overlap is
stated without the hypothesis. `SameTerms`, of `DispatchedAreSolvable` alone, says that the solver
has the partition's adjacency and its ceiling. The ceilings are 1000 in both codes; the adjacency is
the partition's only where the configuration has the default, eight neighbours (section 8).

| Module | Theorem | Statement |
|---|---|---|
| `SeatingPlans_proofs` | `TypeCorrect`, `AtMostOnePublished`, `VersionsFormAChain`, `PublicationWasApproved` | `Spec => []TypeOK`, `[]OnePublished`, `[]VersionChain`, `[]ApprovalGatesPublication` |
| `SeatingPlans_proofs` | `NewestAloneIsAlive`, `TransitionsAreLegal`, `SerialPlansImplementLifecycle` | under `Serial`: `[]OnlyNewestAlive`, `LegalTransitions`, `ImplementsLifecycle` |
| `SolveJobs_proofs` | `AtMostOneActive`, `VerdictsNeedAStart` | `Spec => []OneActiveJob`, `[]VerdictsWereStarted` |
| `Generation_proofs` | `TypeCorrect`, `VersionsFormAChain`, `AtMostOneActive`, `VerdictsNeedAStart` | the same of `Generation!Spec` |
| `Generation_proofs` | `GenerationsImplementPlans`, `GenerationsImplementJobs` | `Spec => Plans!Spec`, `Spec => Jobs!Spec` |
| `Generation_proofs` | `OneVersionEach`, `VerdictsMatchPlans` | `Spec => []OneVersionPerJob`, `[]VerdictMatchesPlans` |
| `Generation_proofs` | `OneFlight`, `NoVersionCollides`, `JobsFollowTheirTable` | under `Wired`: `[]SingleFlight`, `[]VersionsNeverCollide`, `JobsFollowTable` |
| `DomainPool_proofs` | `NoDomainIsLost`, `VerdictsAreAboutAll`, `InfeasibleOnlyForTheFirst` | `Spec => []PoolBookkeeping`, `[]VerdictCoversAllDomains`, `[]InfeasibleIsTheFirstFailure` |
| `DomainPool_proofs` | `SeatedInFullOrNotAtAll` | `Spec => SeatsAllOrNothing`, the safety part of `SessionSeating` |
| `Roster_proofs` | `Invariance`, `ValidatedOnlyFromDocuments`, `CancellationSettlesTheRoster` | `Spec => []IInv`, `[]ValidatedCameFromDocument`, `CancelledRosterSettles` |
| `Roster_proofs` | `NobodyOutIsSeated`, `SettledBesideGenerations` | `SpecReads => OutsidersStayUnseated`, `CancelledRosterSettles` |
| `Roster_proofs` | `UploadsTypeCorrect`, `ParsedDocumentsAreComplete`, `SourcesAreProcessed`, `ValidatedOnlyFromUploads`, `SettledBesideUploads` | `SpecUploads => []TypeOKUploads`, `[]ParsedIsComplete`, `[]SourcesWereProcessed`, `[]ValidatedCameFromDocument`, `CancelledRosterSettles` |
| `HallConsole_proofs` | `SeatsStayInTheirHalls`, `DecommissionedSeatsStayOut`, `PagesShowTheirChanges` | `Spec => []SeatStaysInHall`, `[]DecommissionedStaysOut`, `[]ShowsOwnChanges` |
| `Partition_proofs` | `TypeCorrect`, `GroupsFoundAreComponents`, `DispatchedArePartitions`, `RefusedOnlyForAReason`, `RoundRobinIsBalanced` | `Spec => []TypeOK`, `[]GroupsAreComponents`, `[]DispatchedIsPartition`, `[]BlockedOnlyWhenItMust`, `[]AllocationIsBalanced` |
| `Partition_proofs` | `AllocationsAreMirrored` | `Spec => []AllocationsMirror` |
| `Partition_proofs` | `DispatchedAreSolvable` | under `SameTerms`: `Spec => []DispatchedIsSolvable` |
| `SolverService_proofs` | `ServiceInvariance`, `SolutionsAreComplete`, `SolutionsObeyTheRule`, `ValidatorsAgree` | `SpecService => []ServiceInv`, `[]SolvedIsComplete`, `[]SolvedObeysRule`, `[]ValidatorAgrees` |
| `SolverService_proofs` | `InfeasibleIsTrue`, `OptimalIsTrue` | `SpecService => []InfeasibleIsProven`, `[]OptimalIsBest` |
| `SolverService_proofs` | `PatternsMatchPlacements`, `ModelAndValidatorAgree` | of the operators: `Patterns` against `OraclePlacements`, `Placements` against `Violations` |

*Seating plans.* None of the invariants is inductive alone, since what a request writes depends
on what it read earlier. `RequestsKnow` says what survives of a read while other requests run: a
target that is to be approved or published exists (rows are never deleted); a request about to
publish has a target that was approved, because `approvedAt` is never cleared although the status
may have changed; a creation's latest plan exists. `OnePublished` then follows from the index in
`PublishWrite`, and `VersionChain` from the version index in `CreateCommit`: the new version is
one more than that of an existing plan and unused.

For a request at a time, `SerialInv` adds that versions are the numbers from 1 on and that what the
request has read still stands (`ReadStands`); so `publishPlan` never gets as far as a demotion. Every
step then writes one status by a transition of the table (`LegalUpdate`) or adds the next version
(`SerialStep`), which are the steps of `PlanLifecycle` on the plans in version order.

*Solve jobs.* The inductive invariant adds `CallersKnow`: a caller about to write a verdict has
seen its job RUNNING, hence started, and `startedAt` is never cleared; a stale job of the reaper
exists. `OneActiveJob` rests on the index for inserts and for updates to RUNNING; every other
update leaves the active set or shrinks it.

*Generations.* The proof does not repeat those arguments. `StepOfPlans` and `StepOfJobs` show
that every step of `Generation` is a step or a stutter of `SeatingPlans` and of `SolveJobs`, so
every behaviour satisfies both specifications and inherits their theorems through the instances.
For that, `RunnersKnow` (a runner that drives a job has one) is enough.

What relates jobs to plans needs more. `OwnInv` says that a job belongs to the runner that inserted
it: nobody else writes a verdict to it, the write a runner is about to make is the one of its stage,
and its stage tells how many versions its job has made. Cancelling and reaping write other people's
jobs but never a verdict, so `OneVersionPerJob` and `VerdictMatchesPlans` survive them. `FlightInv`,
which needs `Wired`, says where a runner's job stands at each stage (`Flies`): it is active while the
runner works, so by the active-job index no second runner is past `start`, and the latest plan that
it has read is still the latest when it commits (`ReadsStand`).

*Domain pool.* `PoolInv` adds to the three invariants what each phase has established
(`PhasesKnow`): when the workers are done every domain is settled and nobody holds one; from merging
on every domain has a valid answer. That the merged assignments are a seating is a counting argument:
as many entries as candidates, every candidate among them, so each occurs once
(`MergedIsSeating`). What `FlattenSeq` lists is proved from its recursive definition, whose existence
is `FlattenExists`, by the one induction these provers do: the least counterexample of a set of
numbers that is written down (`SetInduction`).

*Roster.* `EditorsKnow`: a request of the API that has checked its candidate's source can rely on
there being one, because uploads replace sources and nothing removes them (`SourceStays`). `Closed` is
the invariant after a cancellation: no edit is past its look at the exam, no later one gets past it, and
whoever is about to be validated is on the roster and not rejected, so that nobody comes back that way
(`ClosedForGood`).

*Uploads.* `UploadsKnow` says why a verdict is still right when it is written: the rows of the file
are on the roster with a source, or still in `todo`; rows are never deleted (`RowsStay`), sources
never forgotten. `UploadStepOfRoster` shows that every step is one of `Roster` or leaves it alone, so
the roster's invariant and `CancelledRosterSettles` are inherited and not proved again. `OwnStep` is
the frame for one upload's step.

*Reads.* `GroupsComeFromValidated`: whoever enters the input or the plan was VALIDATED when read, or in
the input before. While the roster is `Closed` a student without a source who is out stays out
(`ClosedForGood`), hence is not VALIDATED and enters neither; a source, once there, stays.

*Halls.* A request writes by id after checks on earlier reads. `RequestsKnow` says which of those
checks cannot go out of date: rows are never deleted and neither a seat nor a bench changes halls,
so a seat that was found to be in the bench's hall still is. `SeatsOfHalls` adds that a seat in a
bench, or decommissioned, was made with its hall before, so that creating a hall, the one operation
that activates seats, never activates such a seat.

*Console.* `PagesCatchUp` covers the page that is not at rest: a page that does not show what is new
has a reload coming, shows an error, or waits for the answer to the toggle that cleared the error;
and a load that has gone old is about to be cancelled.

*Partition.* Union-find is usually argued about by following paths to the root, an induction
these provers cannot do. Here two seats are in one tree when no set that the parents lead neither
into nor out of separates them (`Joined`), and paths end because every nonempty set that the
parents do not lead out of has a root (`Grounded`). Halving a path keeps both and every tree
(`HalvingKeepsForest`); linking a root below another keeps both and joins the two trees and
nothing else (`LinkingKeepsForest`). `TreesInv` then says that trees never reach past what the
edges connect and that the edges taken so far lie within trees, and `GroupsInv` that a group is
what was collected of one tree: when no seat and no edge is left, groups are components. For the
allocation, `SomeDomainIsFree` is the counting argument: were every domain full, the candidates
placed so far would be as many as the seats, so none would be waiting (`FullDomains`, by
injections and no sums). `BreaksWhenSplit` shows that the invariants the code verifies break
exactly when the active seats of a hall fall apart into two components.

The round robin is `TurnsInv`: within a department the cursor counts turns, and a domain with a free
seat has had every one of its turns (`Took`), since it was never passed over; two such domains differ
by one turn at most. Passing over full domains moves the cursor without a seat being given, which
`OneMore` and `NoMore` account for.

*Partition and solver service.* One side is a sequence of steps, the other a computation that the
service does at once; each kind of step is matched with a part of it. `DispatchInv` carries what the
gates have established to the end: groups hang together by the edges of the adjacency, and guards are
those of the allocation. A domain is whole halls, so without a cross edge and a split hall it is one
component of its own edges (`DomainsHangTogether`), which is what the service's `Preflight` asks.
For the mirror, whose premise `SortAlike` is that the two programs' orders agree on the call, the
groups must also come in the service's order: `OrderInv` says that a group
opened earlier has a seat before all those of a later one, because seats are collected in their
order. `Listing` shows that a linear order is listed by counting predecessors; so the nth candidate
allocated is the nth of the service's list (`NextIsListed`). The service's allocation is a fold, which
`AllocationRuns` takes apart into `Run`, its state after n candidates (again by the least
counterexample); `AlikeInv` says that the orchestrator's domains, cursor and department are that
state after as many candidates, and that it has not raised.

*Solver service.* Assumed of CP-SAT is that its answer is true of the model it was given (`CpSat`,
`PatternAnswers`); that the model says what was asked for is what the theorems are about. The
invariant `ServiceInv` says what each stage of a request has established (`StagesKnow`): the parts are
`SolverDomains` of the request, and every result so far is one its domain may have.

For `/solve-domain` and the pipeline the argument is local first: the constraints on labels and the
validator's count are one rule on every placement (`PlacementsObey`; `ModelAndValidatorAgree` has
the other direction), so every result is `Sound`. Then the domains are put together
(`PlacesTogether`). They divide the seats, and no edge leaves one (`ComponentsDivide`); the fold of
the allocation, unrolled as for the mirror, puts each candidate into one domain, or none into any,
and that only if there are too few seats, by the counting argument of the partition
(`AllocationShares`). So the places of all domains are an injection whose violations would each lie
in one domain, where there are none.

For `/solve` stage 1 chooses a pattern of classes and not a placement, and two things make that
lossless. A pattern has as many seats as candidates for each class, so ranks match them one to one,
and what `assign_candidates` returns realises the pattern (`AssignmentRealises`, by `Ranked`: in a
finite linear order an element is known by its number of predecessors); and the classes of any
placement are a pattern that it realises (`PatternIsRealised`, `PatternSolves`). Encoding D, one
inequality per seat and class over a count of neighbours, says exactly that no two neighbours share
a class (`EncodingKeepsApart`). So there is a pattern if and only if there is a placement, and where
no class spans departments they cost the same (`CostsAgree`): "infeasible" and "optimal" carry over
from the patterns to the oracle (`PatternsMatchPlacements`). No enumeration, sum or induction over
the data is needed.

*Model-checked only*: `JobsEnd` and `ComesToAVerdict`, which are liveness and beyond this prover. Every
other property of the passing runs is a theorem.

## 8 Disagreements with the code

**Invalid merge leaves a RUNNING job** (`generation_merge_stuck`). `generation.service.ts:287-290`
returns FAILED_MERGE without an error, and `integration.ts:204-211` moves the job only if there
is one. The job stays RUNNING and every later request for the exam is answered
ERR_JOB_ALREADY_ACTIVE. `domain_pool` bounds the case: after `validateDomainResult` accepts
every domain only answers with surplus candidates, or with a seat under the wrong hall, still
fail the merge.

Three more disagreements between what the code says of itself and what it does. No run is kept for
them, but TLC finds each on the instance named.

**A candidate is dropped without a word** (instance of `roster_overlap`). `reconcile.ts:5-7` says
"The pipeline must NEVER silently drop a candidate". The reconciliation (`integration.ts:105`) and
the solver's input (line 176, which reads the VALIDATED candidates only) are two reads; who is
added, excluded or taken over by an upload in between is left out, and the generation goes on.

**The mirror sorts differently** (instance of `partition`). `partition.ts:73-75` says that its
allocation mirrors `allocate_candidates_to_domains`. One sorts register numbers by `localeCompare`
(`partition.ts:154-157`), the other by code points (`partition.py:150`), and halls likewise
(`topology.ts:57`, `graph.py:74`). Register numbers of mixed case, or with an underscore, are dealt
to different domains. `AllocationsMirror` is what holds where the orders agree.

**An overfull request is answered OPTIMAL** (instance of `solver_service`). `partition.py:4-7` says
that the partitioner enforces "every candidate -> exactly one domain". In `solve_partitioned` an
allocation that raises is noted in `partition.errors`, which nobody reads: with more candidates than
seats the answer is OPTIMAL and empty, and INSUFFICIENT_CAPACITY is out of reach. `SolvedIsComplete`
bounds the damage: empty, and never a part of a seating. (The endpoints check the numbers first;
only the benchmarks call the function directly.)

Seen while modelling, without a run.

Plans, generations and the roster:

* `approvePlan` reads and checks at `src/services/seatingPlan.service.ts:70-74` and updates by id at
  line 75. A generation that commits in between supersedes the plan, and the update makes it APPROVED
  again: a transition PLAN_TRANSITIONS does not have, and two plans alive at once. (`OnePublished`,
  `VersionChain` and the approval gate survive it, as `plans_races` shows.)
* `persist.ts:95` completes the job in a call after the transaction. If that call fails the job is
  marked FAILED, although its plan version exists and has superseded the previous one.
* A resolve whose check is out of date revives a candidate that was excluded meanwhile (REJECTED →
  VALIDATED), and an upsert resets a VALIDATED or an excluded one to MATCHED.
* Of two overlapping uploads of the same file the second may find every row on the roster already
  and turn the PARSED document into a REJECTED one.
* An upload that fails after its document was created never makes it FAILED: the exception path looks
  for a storage path with a new timestamp (`ingest.ts:175-182`). The document stays as it is and
  later uploads of the file are answered "duplicate".
* Excluding a candidate makes it REJECTED, and one REJECTED candidate stops every generation of the
  exam, while `docs/evidence/phase19/phase19-implementation.md:42-43` plans on excluding conflicted
  candidates before generation. A candidate that was added by hand is never validated through the
  HTTP API (`ValidatedCameFromDocument`) and stops it likewise; the same document (45-47) leaves its
  validation to future work, and the tests call the service (section 3).
* `cancelExam` and a generation do not see each other between `cancelExam`'s count and its update,
  and a generation never asks for the exam's status.

Partition and solver service:

* `generation.service.ts:119` partitions with eight neighbours, while lines 319-328 send the solver
  the configured adjacency. A domain that hangs together by a diagonal only is refused by a solver
  told "cardinal".
* Apart from the order, the mirror differs in its domains: a domain of `partition.ts` has all active
  seats of the halls it touches, the service's only its component's. They differ exactly when the
  active seats of a hall fall apart, and then every generation that uses the hall is blocked
  (`BlockedOnlyWhenItMust`).
* The composition check of `solve_partitioned` answers before an earlier domain's failure is looked at.
* The error code of an ERROR answer is the solver's (`generation.service.ts:249-252`): an untrusted one
  decides by it whether the job is INFEASIBLE or FAILED (`InfeasibleIsTheFirstFailure` counts it as the
  solver's word).
* `solver.py` says that the objective is tight for proven-optimal answers; it is not when a class name
  spans two departments, since `key_department` keeps the last one (`OptimalIsBest` excepts it).
* A candidate without a year among others with one raises a KeyError in the label model; the request
  ends as HTTP 500.
* "Infeasible" of a session is relative to the round robin, which nobody revises.

Halls and the console:

* PATCH /benches/:id with `isActive: false` deactivates the bench row without the cascade of
  `setBenchActive`, whose comment calls decommissioning atomic (`bench.service.ts:104-109`).
* `setHallSeatActive` has no caller in the product, so seats of a decommissioned bench never return.
* `removeSeatFromBench` may take a seat out of a bench it was moved to meanwhile; a seat may be
  assigned to an inactive bench.
* A load that succeeds clears the error of a change that failed meanwhile. The pages that patch their
  rows in place may be overwritten by a load that is on its way (`StudentsPage`, `ExamCandidatesPage`,
  `SeatingPage`); a late `getMe` may overwrite a login.

## 9 What is not modelled

* Of the roster: `createCandidate`, `transitionExamStatus`, `updateCandidateSnapshot` and the other
  targets of `transitionValidationStatus` than VALIDATED (tests only), the conflict report (reads
  only), snapshots, subjects and edits of the student master. Of ingest: the text of the file and
  the bytes in the store.
* Of halls: names, numbers, grids, and `setHallSeatActive`, which nothing calls. That a generation
  reads its halls and seats in two queries is in `SolverSeats`, whose halls are any; the order of
  seats on a bench is data.
* Students, classes, departments: one database call per operation. Login sessions: a row is created,
  looked up with an expiry check, or deleted, by one call each, before a request does anything else;
  nothing relates two of those calls. `seatAssignment.service.ts` is called by tests only.
* CP-SAT itself (an external answer that is true of its constraints), PDF extraction, Supabase,
  password hashing: external or pure data.
* The other pages of the console: they load as the halls page does and have fewer kinds of changes;
  those that patch rows in place are listed in section 8. The progress page only ever sees terminal
  states, since the registry is filled after a synchronous run.
* Proforma, scripts, tests: no state that a decision depends on.
* Deletion of rows: no modelled operation deletes one, and triggers forbid it for plans in use.

## 10 Plan

Done, in this order: `SeatingPlans` → `PlanLifecycle` → `SolveJobs` → `Generation` (composes
them) → `SessionSeating` → `DomainPool` → `Roster` → `Ingest` and `RosterReads` (compose it) →
`Topology`, `Composition`, `Partition` → `SolverPartition` (composed with `Partition` in
`PartitionMirror`) → `SeatLabel`, `SameClass`, `SolverService` → `Halls` → `HallConsole` (extends it),
with the proofs of section 7.

Left:

1. The pages that patch rows in place (`StudentsPage`, `ExamCandidatesPage`, `SeatingPage`), as a
   second client of `HallConsole`'s loading.
2. Login sessions and `AuthContext`.
