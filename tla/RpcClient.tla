------------------------------ MODULE RpcClient ------------------------------
(***************************************************************************)
(* RPC over RabbitMQ: RabbitMQClient.rpcCall and handleRPCResponse in the  *)
(* calling services, setupRPCServer in the called one, and the broker's    *)
(* queues between them.  Calls stands for the correlation ids, one fresh   *)
(* uuid per rpcCall.                                                       *)
(*                                                                         *)
(* A request stays with the broker until it is acked, so it is delivered   *)
(* again when the server dies before that.  Requests carry no expiration:  *)
(* one whose caller has given up is executed all the same.  Replies go to  *)
(* the caller's exclusive queue, which dies with its connection.           *)
(***************************************************************************)
EXTENDS Integers, FiniteSets

CONSTANTS
    Calls,       \* correlation ids
    Clients,     \* calling processes
    Owner,       \* the process that makes each call
    Values,      \* replies without an error field
    Errors,      \* error replies: a refusal, or what a handler threw
    MaxFailures  \* bound on crashes and lost connections

ASSUME RpcAssumption ==
    /\ Owner \in [Calls -> Clients]
    /\ MaxFailures \in Nat
    /\ Values \intersect Errors = {}
    /\ {"none", "RPC timeout"} \intersect (Values \union Errors) = {}

VARIABLES
    promise,   \* what rpcCall's caller is waiting on
    answer,    \* what it was settled with
    pending,   \* the keys of pendingRPCs
    timers,    \* the calls whose setTimeout is armed
    attached,  \* the processes whose channel and reply queue are open
    request,   \* where the request message is
    replyTo,   \* the calls whose reply queue still exists
    replies,   \* the messages in the reply queues
    runs,      \* history: executions started
    computed,  \* history: the answers executions have produced
    failures   \* how many failures there have been

client == <<promise, answer, pending, timers>>
broker == <<request, replyTo, replies>>
server == <<runs, computed>>
vars   == <<client, broker, server, attached, failures>>

Answers  == Values \union Errors
Settled  == {"resolved", "rejected", "lost"}
Requests == {"none", "queued", "delivered", "answered", "acked"}
Replies  == [call : Calls, run : Nat, answer : Answers]

TypeOK ==
    /\ promise \in [Calls -> {"unmade", "pending"} \union Settled]
    /\ answer \in [Calls -> Answers \union {"none", "RPC timeout"}]
    /\ pending \subseteq Calls
    /\ timers \subseteq Calls
    /\ attached \subseteq Clients
    /\ request \in [Calls -> Requests]
    /\ replyTo \subseteq Calls
    /\ replies \subseteq Replies
    /\ runs \in [Calls -> Nat]
    /\ computed \in [Calls -> SUBSET Answers]
    /\ failures \in Nat

Init ==
    /\ promise = [k \in Calls |-> "unmade"]
    /\ answer = [k \in Calls |-> "none"]
    /\ pending = {}
    /\ timers = {}
    /\ attached = Clients
    /\ request = [k \in Calls |-> "none"]
    /\ replyTo = {}
    /\ replies = {}
    /\ runs = [k \in Calls |-> 0]
    /\ computed = [k \in Calls |-> {}]
    /\ failures = 0

-----------------------------------------------------------------------------
(* The calling process.                                                    *)

(* resolve or reject: a promise that is settled already ignores it.        *)
Settle(k, outcome, value) ==
    IF promise[k] = "pending"
    THEN /\ promise' = [promise EXCEPT ![k] = outcome]
         /\ answer' = [answer EXCEPT ![k] = value]
    ELSE UNCHANGED <<promise, answer>>

(* Mutant: the call is sent without a timer.                               *)
CallsWithoutTimer(k) ==
    /\ promise[k] = "unmade"
    /\ Owner[k] \in attached
    /\ promise' = [promise EXCEPT ![k] = "pending"]
    /\ pending' = pending \union {k}
    /\ request' = [request EXCEPT ![k] = "queued"]
    /\ replyTo' = replyTo \union {k}
    /\ UNCHANGED <<answer, timers, replies, server, attached, failures>>

RpcCall(k) ==
    /\ promise[k] = "unmade"
    /\ Owner[k] \in attached
    /\ promise' = [promise EXCEPT ![k] = "pending"]
    /\ timers' = timers \union {k}
    /\ pending' = pending \union {k}
    /\ request' = [request EXCEPT ![k] = "queued"]
    /\ replyTo' = replyTo \union {k}
    /\ UNCHANGED <<answer, replies, server, attached, failures>>

Of(c)        == {k \in Calls : Owner[k] = c}
Waiting(c)   == {k \in Of(c) : promise[k] = "pending"}
RepliesTo(c) == {m \in replies : Owner[m.call] = c}

(* A calling process ends, leaving the calls of K unanswered, and is       *)
(* started again: connect makes a new channel and a new reply queue, and   *)
(* the old queue, the map and the timers are gone.                         *)
Restart(c, K) ==
    /\ promise' = [k \in Calls |-> IF k \in K THEN "lost" ELSE promise[k]]
    /\ pending' = pending \ Of(c)
    /\ timers' = timers \ Of(c)
    /\ replyTo' = replyTo \ Of(c)
    /\ replies' = replies \ RepliesTo(c)
    /\ attached' = attached \union {c}
    /\ UNCHANGED <<answer, request, server>>

(* rpcCall once the connection is gone, its channel field still set: the   *)
(* send throws in a promise nobody awaits.  An unhandled rejection ends    *)
(* the process, which is restarted; or Sentry, which only the gateway has, *)
(* logs it, and the call waits for its timer.                              *)
CallOnClosedChannel(k) ==
    /\ promise[k] = "unmade"
    /\ Owner[k] \notin attached
    /\ \/ Restart(Owner[k], Waiting(Owner[k]) \union {k})
       \/ /\ promise' = [promise EXCEPT ![k] = "pending"]
          /\ timers' = timers \union {k}
          /\ pending' = pending \union {k}
          /\ UNCHANGED <<answer, broker, server, attached>>
    /\ UNCHANGED failures

(* Mutant: the timeout leaves the entry in pendingRPCs.                    *)
TimeoutKeepsEntry(k) ==
    /\ k \in timers
    /\ timers' = timers \ {k}
    /\ Settle(k, "rejected", "RPC timeout")
    /\ UNCHANGED <<pending, broker, server, attached, failures>>

Timeout(k) ==
    /\ k \in timers
    /\ timers' = timers \ {k}
    /\ pending' = pending \ {k}
    /\ Settle(k, "rejected", "RPC timeout")
    /\ UNCHANGED <<broker, server, attached, failures>>

(* Mutant: a reply settles a pending call, whatever its correlation id.    *)
AnswersAnyPending(m) ==
    /\ m \in replies
    /\ replies' = replies \ {m}
    /\ \/ \E k \in pending :
             /\ timers' = timers \ {k}
             /\ pending' = pending \ {k}
             /\ Settle(k, IF m.answer \in Errors THEN "rejected" ELSE "resolved", m.answer)
       \/ pending = {} /\ UNCHANGED client
    /\ UNCHANGED <<request, replyTo, server, attached, failures>>

(* handleRPCResponse.  The reply queue is consumed with noAck; a reply to  *)
(* a call that is no longer pending is dropped.                            *)
HandleRPCResponse(m) ==
    /\ m \in replies
    /\ replies' = replies \ {m}
    /\ \/ /\ m.call \in pending
          /\ timers' = timers \ {m.call}
          /\ pending' = pending \ {m.call}
          /\ Settle(m.call, IF m.answer \in Errors THEN "rejected" ELSE "resolved", m.answer)
       \/ m.call \notin pending /\ UNCHANGED client
    /\ UNCHANGED <<request, replyTo, server, attached, failures>>

-----------------------------------------------------------------------------
(* The serving process, one execution per delivery.  There is no prefetch  *)
(* limit, so any number of requests are being handled at once.             *)

Deliver(k) ==
    /\ request[k] = "queued"
    /\ request' = [request EXCEPT ![k] = "delivered"]
    /\ runs' = [runs EXCEPT ![k] = @ + 1]
    /\ UNCHANGED <<client, replyTo, replies, computed, attached, failures>>

(* The handler has returned, or thrown.  The broker drops the reply when   *)
(* the queue it names is gone.                                             *)
Reply(k) ==
    /\ request[k] = "delivered"
    /\ request' = [request EXCEPT ![k] = "answered"]
    /\ \E a \in Answers :
          /\ computed' = [computed EXCEPT ![k] = @ \union {a}]
          /\ replies' = IF k \in replyTo
                        THEN replies \union {[call |-> k, run |-> runs[k], answer |-> a]}
                        ELSE replies
    /\ UNCHANGED <<client, replyTo, runs, attached, failures>>

(* ack, or nack without requeue after an exception: the request is gone.   *)
Ack(k) ==
    /\ request[k] = "answered"
    /\ request' = [request EXCEPT ![k] = "acked"]
    /\ UNCHANGED <<client, replyTo, replies, server, attached, failures>>

-----------------------------------------------------------------------------
(* Failures.                                                               *)

Fail == failures < MaxFailures /\ failures' = failures + 1

InFlight == {k \in Calls : request[k] \in {"delivered", "answered"}}

(* A serving process dies, or its connection does: the broker requeues     *)
(* what it had been sent and not acked.                                    *)
ServerCrash ==
    /\ Fail
    /\ \E K \in SUBSET InFlight \ {{}} :
          request' = [k \in Calls |-> IF k \in K THEN "queued" ELSE request[k]]
    /\ UNCHANGED <<client, replyTo, replies, server, attached>>

ClientCrash(c) == Fail /\ Restart(c, Waiting(c))

(* The connection closes: the handler only logs it.                        *)
ConnectionClosed(c) ==
    /\ Fail
    /\ c \in attached
    /\ attached' = attached \ {c}
    /\ replyTo' = replyTo \ Of(c)
    /\ replies' = replies \ RepliesTo(c)
    /\ UNCHANGED <<client, request, server>>

Done ==
    /\ \A k \in Calls : promise[k] \in Settled /\ request[k] \in {"none", "acked"}
    /\ replies = {}
    /\ UNCHANGED vars

Next ==
    \/ \E k \in Calls : RpcCall(k) \/ CallOnClosedChannel(k) \/ Timeout(k)
    \/ \E k \in Calls : Deliver(k) \/ Reply(k) \/ Ack(k)
    \/ \E m \in replies : HandleRPCResponse(m)
    \/ ServerCrash
    \/ \E c \in Clients : ClientCrash(c) \/ ConnectionClosed(c)
    \/ Done

Spec == Init /\ [][Next]_vars

(* A timer that is armed fires.  Nothing is assumed of the server.         *)
FairSpec == Spec /\ \A k \in Calls : WF_vars(Timeout(k))

-----------------------------------------------------------------------------
(* Properties.                                                             *)

(* pendingRPCs, the timers and the callers' promises agree: nothing waits  *)
(* that cannot be woken, and a settled call leaves neither an entry in the *)
(* map nor a timer behind.                                                 *)
NothingLeaks ==
    /\ pending = {k \in Calls : promise[k] = "pending"}
    /\ timers = pending

(* A caller is given an answer that an execution of its own request has    *)
(* produced, or the timeout: replies that are late, repeated or in another *)
(* order never settle somebody else's call.                                *)
OwnAnswer ==
    \A k \in Calls :
        /\ promise[k] = "resolved" => answer[k] \in computed[k] \intersect Values
        /\ promise[k] = "rejected" =>
              answer[k] \in (computed[k] \intersect Errors) \union {"RPC timeout"}

(* Every call is settled in the end, whatever the server, the broker and   *)
(* the connection do.                                                      *)
EveryCallSettles == \A k \in Calls : promise[k] = "pending" ~> promise[k] \in Settled

Contract == INSTANCE RpcContract
ImplementsContract == Contract!Spec
=============================================================================
