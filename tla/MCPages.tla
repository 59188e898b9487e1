------------------------------ MODULE MCPages ------------------------------
(* A small instance of BulletinPages for TLC. *)
EXTENDS BulletinPages, TLC

CONSTANTS r1, r2

MCReaders == {r1, r2}
MCTyped   == {0, 2, IntMax}
=============================================================================
