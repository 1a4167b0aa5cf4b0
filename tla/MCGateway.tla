------------------------------ MODULE MCGateway ------------------------------
(* Small instances of GatewayRetry for TLC.                                *)
EXTENDS GatewayRetry, TLC

CONSTANTS q1, q2, p, x, y

MCSeedKey == [s \in Seeds |-> x]
=============================================================================
