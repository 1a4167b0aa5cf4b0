------------------------------- MODULE MCCache -------------------------------
(* Small instances of ProductCache for TLC.                                *)
EXTENDS ProductCache, TLC

CONSTANTS p1, c1, c2, all, r1, r2, w1, w2
=============================================================================
