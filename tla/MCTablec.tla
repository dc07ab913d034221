------------------------------ MODULE MCTablec ------------------------------
(* Tablec with a few keys, all of them in one of the two buckets it starts *)
(* with, for TLC.                                                          *)
EXTENDS Tablec

MCKeys == 1 .. 4
MCHash == [k \in MCKeys |-> 2 * k]
=============================================================================
