------------------------------- MODULE MCProxy -------------------------------
(* Small instances of OrderProxy for TLC.                                  *)
EXTENDS OrderProxy, TLC

CONSTANTS r1, r2, i1, i2
=============================================================================
