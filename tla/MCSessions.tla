----------------------------- MODULE MCSessions -----------------------------
(* Sessions with tokens that all hash to one bucket, for TLC.              *)
EXTENDS Sessions, TLC

MCHash(k) == 2
MCSymmetry == Permutations(Threads)
=============================================================================
