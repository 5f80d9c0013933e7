------------------------------ MODULE Topology ------------------------------
(***************************************************************************)
(* The physical seat graph of a session (src/src/phase4/topology.ts): a    *)
(* seat is <<hall, row, column>>; halls are numbered in the orchestrator's *)
(* order of their hallNumber (localeCompare), rows from 0 (letter "A"),    *)
(* columns from 1.                                                         *)
(***************************************************************************)
EXTENDS Integers, FiniteSets

CONSTANT Grid   \* hall -> <<rows, columns>>

Hall == DOMAIN Grid

ASSUME GridAssumption == Hall \subseteq Nat /\ Grid \in [Hall -> Nat \X Nat]

(* The seats createHall makes for every hall. *)
AllSeats ==
  UNION {{h} \X (0 .. Grid[h][1] - 1) \X (1 .. Grid[h][2]) : h \in Hall}

(* The order of the nodes: by hall, row, column. *)
Before(s, t) ==
  \/ s[1] < t[1]
  \/ s[1] = t[1] /\ s[2] < t[2]
  \/ s[1] = t[1] /\ s[2] = t[2] /\ s[3] < t[3]

Adjacent(mode, s, t) ==
  LET dr == s[2] - t[2]
      dc == s[3] - t[3]
  IN IF mode = "eight"
     THEN dr \in -1 .. 1 /\ dc \in -1 .. 1 /\ <<dr, dc>> # <<0, 0>>
     ELSE (dr = 0 /\ dc \in {-1, 1}) \/ (dc = 0 /\ dr \in {-1, 1})

(* The edges within the halls. *)
HallEdges(seats, mode) ==
  {e \in seats \X seats :
     Before(e[1], e[2]) /\ e[1][1] = e[2][1] /\ Adjacent(mode, e[1], e[2])}

(* A configured cross-hall edge joins two known seats of two halls. *)
LegalCrossEdge(seats, e) ==
  e[1] \in seats /\ e[2] \in seats /\ e[1][1] # e[2][1]

(* The order of the edges: those within halls first. *)
EdgeBefore(e, f) ==
  IF (e[1][1] = e[2][1]) # (f[1][1] = f[2][1])
  THEN e[1][1] = e[2][1]
  ELSE Before(e[1], f[1]) \/ (e[1] = f[1] /\ Before(e[2], f[2]))

(* No edge leaves C. *)
Closed(C, edges) == \A e \in edges : e[1] \in C <=> e[2] \in C

(* C is a connected component: closed, and nothing smaller within it is. *)
IsComponent(C, edges) ==
  /\ C # {}
  /\ Closed(C, edges)
  /\ \A B \in SUBSET C : Closed(B, edges) => B = {} \/ B = C
=============================================================================
