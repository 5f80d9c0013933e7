---------------------------- MODULE MCHallConsole ----------------------------
(* Two halls with a seat each, two benches of the first one, and a page    *)
(* with two changes under way.                                             *)
EXTENDS HallConsole, TLC

CONSTANTS h1, h2, s1, s2, b1, b2

MCSeatHall == [s \in Seat |-> IF s = s1 THEN h1 ELSE h2]
MCBenchHall == [b \in Bench |-> h1]
MCPageOf == [r \in Request |-> "page"]

Symmetry == Permutations(Request)

MCOperation ==
  [kind : {"createHall"}, hall : {h2}]
    \cup [kind : {"updateHall"}, hall : {h1}, isActive : BOOLEAN]
    \cup [kind : {"createBench"}, bench : {b1}, isActive : BOOLEAN]
    \cup [kind : {"createBench"}, bench : {b2}, isActive : {TRUE}]
    \cup [kind : {"updateBench", "setBenchActive"}, bench : {b1}, isActive : BOOLEAN]
    \cup [kind : {"assign"}, bench : Bench, seat : {s1}]
    \cup [kind : {"assign"}, bench : {b1}, seat : {s2}]
    \cup [kind : {"remove"}, bench : {b1}, seat : {s1}]
=============================================================================
