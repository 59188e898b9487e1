------------------------------ MODULE MCQueue ------------------------------
(* A small instance of ThreadsafeQueue for TLC. *)
EXTENDS ThreadsafeQueue

CONSTANTS t1, t2, t3, v1, v2, v3

MCThreads == {t1, t2, t3}
MCPtr     == {t3}
MCValues  == {v1, v2, v3}
=============================================================================
