-------------------------------- MODULE MCRpc --------------------------------
(* Small instances of RpcClient for TLC.                                   *)
EXTENDS RpcClient, TLC

CONSTANTS a, a2, order

(* The calls share a process, and so its map and its reply queue.          *)
MCOwner == [k \in Calls |-> order]
=============================================================================
