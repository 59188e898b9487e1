------------------------------- MODULE MCPool -------------------------------
(* Small instances of ThreadPool for TLC. *)
EXTENDS ThreadPool

CONSTANTS a, b, c, d

MCTasks == {a, b, c, d}
MCBlocking == {a}
MCThrowing == {b}
MCNone == {}
=============================================================================
