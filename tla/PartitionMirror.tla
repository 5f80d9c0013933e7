--------------------------- MODULE PartitionMirror ---------------------------
(***************************************************************************)
(* The orchestrator's partition (src/src/phase4/partition.ts) beside the   *)
(* solver service's (src/solver-service/app/partition.py), whose mirror it *)
(* means to be.                                                            *)
(***************************************************************************)
EXTENDS Partition, SolverPartition

(* The domains the product dispatches are the ones the solver service
   solves: each is one component of the graph the service builds, within the
   ceiling, all of its candidates get a seat in it, and its composition is
   acceptable to the one when it is to the other. *)
DispatchedIsSolvable ==
  Dispatched /\ input.cross = {} =>
    \A i \in DOMAIN domains :
      LET p == Payload(i) IN
      Preflight(p.seats, p.adjacency, p.action, p.candidates) = "solve"

(* localeCompare and the code points sort the seats and the candidates of the
   call alike. *)
SortAlike ==
  /\ \A s, t \in Seats : SolverBefore(s, t) <=> Before(s, t)
  /\ \A c, d \in input.candidates : SolverCandidateBefore(c, d) <=> CandidateBefore(c, d)

(* The allocation mirrors the solver service's: given the whole session,
   partition_request and partitionCandidates put every candidate into the
   same domain, unless a hall is split or they sort the call differently. *)
AllocationsMirror ==
  pc = "guard" /\ input.cross = {} /\ ~SplitHall /\ SortAlike =>
    LET ds == SolverDomains(Seats, input.adjacency, input.candidates) IN
    /\ Len(ds) = Len(domains)
    /\ \A i \in DOMAIN ds :
         ds[i].seats = domains[i] /\ ds[i].candidates = Allocated(i)
==============================================================================
