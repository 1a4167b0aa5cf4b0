------------------------------- MODULE MCAuth -------------------------------
(* A small instance of Auth for TLC.                                       *)
EXTENDS Auth, TLC

CONSTANTS admin, jane, w1, w2, s1

MCDefaults == <<admin>>
=============================================================================
