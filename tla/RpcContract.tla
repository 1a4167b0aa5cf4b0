----------------------------- MODULE RpcContract -----------------------------
(***************************************************************************)
(* What RabbitMQClient.rpcCall promises its callers, apart from how: a     *)
(* call is settled at most once, and a resolved call has been executed.    *)
(* What it does not promise is as important: an unsettled or rejected call *)
(* may have been executed, or be executed later, and any call may be       *)
(* executed more than once.  Checkout is built on these promises alone.    *)
(***************************************************************************)
EXTENDS Integers

CONSTANT Calls

VARIABLES
    promise,  \* the state of the caller's promise
    runs      \* how many times the server has started to execute the call

Promises == {"unmade", "pending", "resolved", "rejected", "lost"}

Init ==
    /\ promise = [k \in Calls |-> "unmade"]
    /\ runs = [k \in Calls |-> 0]

Become(k, from, to) ==
    promise[k] = from /\ promise' = [promise EXCEPT ![k] = to] /\ UNCHANGED runs

Make(k)    == Become(k, "unmade", "pending")
Resolve(k) == runs[k] > 0 /\ Become(k, "pending", "resolved")
Reject(k)  == Become(k, "pending", "rejected")

Execute(k) ==
    /\ promise[k] # "unmade"
    /\ runs' = [runs EXCEPT ![k] = @ + 1]
    /\ UNCHANGED promise

(* The calling process dies: nobody is left to be told.  K are the calls   *)
(* it was waiting on, the one it was just making among them perhaps.       *)
Abandon(K) ==
    /\ \A k \in K : promise[k] \in {"unmade", "pending"}
    /\ promise' = [k \in Calls |-> IF k \in K THEN "lost" ELSE promise[k]]
    /\ UNCHANGED runs

Next ==
    \/ \E k \in Calls : Make(k) \/ Execute(k) \/ Resolve(k) \/ Reject(k)
    \/ \E K \in SUBSET Calls : Abandon(K)

Spec == Init /\ [][Next]_<<promise, runs>>
=============================================================================
