------------------------------- MODULE MCTCP -------------------------------
(* Small instances of TCPServer for TLC. *)
EXTENDS TCPServer, TLC

CONSTANTS c1, c2, c3, w1, w2

MCTwo      == {c1, c2}
MCThree    == {c1, c2, c3}
MCWorkers  == {w1, w2}
ThreeFds   == {5, 6, 7}
FourFds    == {5, 6, 7, 8}
FiveFds    == {5, 6, 7, 8, 9}
OneStray   == {c1}
OneRisky   == {c2}
OneDeaf    == {c3}
Nobody     == {}
OneSegment == [c \in Conns |-> 1]
Post       == [c \in Conns |-> IF c = c1 THEN 2 ELSE 1]
NoFaults   == {}
FinOnly    == {"fin"}
AllFaults  == {"fin", "reset"}

Symmetry == Permutations(MCWorkers)
=============================================================================
