--------------------------- MODULE RpcClient_proofs ---------------------------
(***************************************************************************)
(* RpcClient for every set of calls, clients and answers, and any number   *)
(* of failures: its types, NothingLeaks, OwnAnswer, and that it implements *)
(* RpcContract.                                                            *)
(***************************************************************************)
EXTENDS RpcClient, TLAPS

(* What makes OwnAnswer inductive: a reply in a reply queue was produced   *)
(* by an execution of the call it names ...                                *)
RepliesAreComputed == \A m \in replies : m.answer \in computed[m.call]

(* ... and what makes the contract's steps possible: only a call that was  *)
(* made has a request, and only one that was executed has answers.         *)
RequestsWereMade == \A k \in Calls : request[k] # "none" => promise[k] # "unmade"
AnswersWereRun   ==
    \A k \in Calls :
        request[k] = "delivered" \/ computed[k] # {} => runs[k] > 0

IInv ==
    /\ TypeOK
    /\ NothingLeaks
    /\ OwnAnswer
    /\ RepliesAreComputed
    /\ RequestsWereMade
    /\ AnswersWereRun

-----------------------------------------------------------------------------
(* The counters stay natural numbers, and a delivery is counted.           *)
LEMMA FailCounts == ASSUME failures \in Nat, Fail PROVE failures' \in Nat
  BY DEF Fail

LEMMA DeliverCounts ==
    ASSUME runs \in [Calls -> Nat], NEW k \in Calls, Deliver(k)
    PROVE  /\ runs' \in [Calls -> Nat]
           /\ runs'[k] > 0
           /\ \A j \in Calls : j # k => runs'[j] = runs[j]
  BY DEF Deliver

(* The invariant holds initially.                                          *)
LEMMA InitIInv == Init => IInv
<1> SUFFICES ASSUME Init PROVE IInv
  OBVIOUS
<1> USE DEF Init
<1>1. TypeOK
  BY DEF TypeOK, Settled, Answers, Requests, Replies
<1>2. NothingLeaks /\ OwnAnswer
  BY DEF NothingLeaks, OwnAnswer
<1>3. RepliesAreComputed /\ RequestsWereMade /\ AnswersWereRun
  BY DEF RepliesAreComputed, RequestsWereMade, AnswersWereRun
<1> QED
  BY <1>1, <1>2, <1>3 DEF IInv

(* Every step keeps it.                                                    *)
LEMMA NextIInv == IInv /\ [Next]_vars => IInv'
<1> SUFFICES ASSUME IInv, [Next]_vars PROVE IInv'
  OBVIOUS
<1> USE DEF IInv, TypeOK, Settled, Answers, Requests
<1>1. CASE UNCHANGED vars
  BY <1>1 DEF vars, client, broker, server, NothingLeaks, OwnAnswer, RepliesAreComputed,
     RequestsWereMade, AnswersWereRun
<1>2. ASSUME NEW k \in Calls, RpcCall(k) PROVE IInv'
  <2>1. TypeOK'
    BY <1>2 DEF RpcCall, server, Replies
  <2>2. NothingLeaks'
    BY <1>2 DEF RpcCall, server, NothingLeaks
  <2>3. OwnAnswer'
    BY <1>2 DEF RpcCall, server, NothingLeaks, OwnAnswer
  <2>4. RepliesAreComputed'
    BY <1>2 DEF RpcCall, server, Replies, RepliesAreComputed
  <2>5. RequestsWereMade' /\ AnswersWereRun'
    BY <1>2 DEF RpcCall, server, NothingLeaks, RequestsWereMade, AnswersWereRun
  <2> QED
    BY <2>1, <2>2, <2>3, <2>4, <2>5
<1>3. ASSUME NEW k \in Calls, Timeout(k) PROVE IInv'
  <2>1. TypeOK'
    BY <1>3 DEF Timeout, Settle, broker, server, Replies
  <2>2. NothingLeaks'
    BY <1>3 DEF Timeout, Settle, broker, server, NothingLeaks
  <2>3. OwnAnswer'
    BY <1>3 DEF Timeout, Settle, broker, server, NothingLeaks, OwnAnswer
  <2>4. RepliesAreComputed'
    BY <1>3 DEF Timeout, Settle, broker, server, Replies, RepliesAreComputed
  <2>5. RequestsWereMade' /\ AnswersWereRun'
    BY <1>3 DEF Timeout, Settle, broker, server, NothingLeaks, RequestsWereMade, AnswersWereRun
  <2> QED
    BY <2>1, <2>2, <2>3, <2>4, <2>5
<1>4. ASSUME NEW k \in Calls, Deliver(k) PROVE IInv'
  <2>1. /\ runs' \in [Calls -> Nat]
        /\ runs'[k] > 0
        /\ \A j \in Calls : j # k => runs'[j] = runs[j]
    BY <1>4, DeliverCounts
  <2>2. /\ request[k] = "queued"
        /\ request' = [request EXCEPT ![k] = "delivered"]
        /\ UNCHANGED <<client, replyTo, replies, computed, attached, failures>>
    BY <1>4 DEF Deliver
  <2>3. TypeOK'
    BY <2>1, <2>2 DEF client, Replies
  <2>4. NothingLeaks' /\ OwnAnswer' /\ RepliesAreComputed'
    BY <2>2 DEF client, NothingLeaks, OwnAnswer, RepliesAreComputed
  <2>5. RequestsWereMade'
    BY <2>2 DEF client, RequestsWereMade
  <2>6. AnswersWereRun'
    BY <2>1, <2>2 DEF AnswersWereRun
  <2> QED
    BY <2>3, <2>4, <2>5, <2>6
<1>5. ASSUME NEW k \in Calls, Reply(k) PROVE IInv'
  <2>1. PICK a \in Answers :
          /\ computed' = [computed EXCEPT ![k] = @ \union {a}]
          /\ replies' = IF k \in replyTo
                        THEN replies \union {[call |-> k, run |-> runs[k], answer |-> a]}
                        ELSE replies
    BY <1>5 DEF Reply
  <2> DEFINE m == [call |-> k, run |-> runs[k], answer |-> a]
  <2>2. m \in Replies /\ m.call = k /\ m.answer = a
    BY DEF Replies
  <2>3. replies' \subseteq replies \union {m}
    BY <2>1
  <2> HIDE DEF m
  <2>4. /\ request' = [request EXCEPT ![k] = "answered"]
        /\ UNCHANGED <<client, replyTo, runs, attached, failures>>
    BY <1>5 DEF Reply
  <2>5. replies' \subseteq Replies
    BY <2>2, <2>3
  <2>6. computed' = [computed EXCEPT ![k] = @ \union {a}]
    BY <2>1
  <2>7. TypeOK'
    BY <2>4, <2>5, <2>6 DEF client
  <2>8. \A n \in replies : n.call \in Calls /\ n.answer \in computed[n.call]
    BY DEF Replies, RepliesAreComputed
  <2>9. RepliesAreComputed'
    BY <2>1, <2>2, <2>3, <2>8 DEF RepliesAreComputed
  <2>10. NothingLeaks' /\ OwnAnswer' /\ RequestsWereMade' /\ AnswersWereRun'
    BY <1>5, <2>1 DEF Reply, client, NothingLeaks, OwnAnswer, RequestsWereMade, AnswersWereRun
  <2> QED
    BY <2>7, <2>9, <2>10
<1>6. ASSUME NEW k \in Calls, Ack(k) PROVE IInv'
  <2>1. TypeOK'
    BY <1>6 DEF Ack, client, server, Replies
  <2>2. NothingLeaks'
    BY <1>6 DEF Ack, client, server, NothingLeaks
  <2>3. OwnAnswer'
    BY <1>6 DEF Ack, client, server, NothingLeaks, OwnAnswer
  <2>4. RepliesAreComputed'
    BY <1>6 DEF Ack, client, server, Replies, RepliesAreComputed
  <2>5. RequestsWereMade' /\ AnswersWereRun'
    BY <1>6 DEF Ack, client, server, NothingLeaks, RequestsWereMade, AnswersWereRun
  <2> QED
    BY <2>1, <2>2, <2>3, <2>4, <2>5
<1>7. ASSUME NEW m \in replies, HandleRPCResponse(m) PROVE IInv'
  <2> DEFINE k == m.call
  <2>1. k \in Calls /\ m.answer \in Answers /\ m.answer \in computed[k]
    BY <1>7 DEF Replies, RepliesAreComputed
  <2>2. replies' \subseteq replies
    BY <1>7 DEF HandleRPCResponse
  <2>3. RepliesAreComputed'
    BY <1>7, <2>2 DEF HandleRPCResponse, server, RepliesAreComputed
  <2>4. CASE k \in pending
    <3>1. promise[k] = "pending"
      BY <2>4 DEF NothingLeaks
    <3>2. /\ promise' = [promise EXCEPT ![k] =
                           IF m.answer \in Errors THEN "rejected" ELSE "resolved"]
          /\ answer' = [answer EXCEPT ![k] = m.answer]
          /\ pending' = pending \ {k} /\ timers' = timers \ {k}
      BY <1>7, <2>4, <3>1 DEF HandleRPCResponse, Settle
    <3> HIDE DEF k
    <3>3. TypeOK'
      BY <1>7, <2>1, <2>2, <3>2 DEF HandleRPCResponse, server
    <3>4. NothingLeaks'
      BY <2>1, <3>2 DEF NothingLeaks
    <3>5. OwnAnswer'
      BY <1>7, <2>1, <3>2 DEF HandleRPCResponse, server, OwnAnswer
    <3>6. RequestsWereMade' /\ AnswersWereRun'
      BY <1>7, <2>1, <3>2 DEF HandleRPCResponse, server, RequestsWereMade, AnswersWereRun
    <3> QED
      BY <2>3, <3>3, <3>4, <3>5, <3>6
  <2>5. CASE k \notin pending
    <3>1. UNCHANGED <<client, request, replyTo, server, attached, failures>>
      BY <1>7, <2>5 DEF HandleRPCResponse
    <3> HIDE DEF k
    <3>2. TypeOK'
      BY <2>2, <3>1 DEF client, server
    <3>3. NothingLeaks' /\ OwnAnswer' /\ RequestsWereMade' /\ AnswersWereRun'
      BY <3>1 DEF client, server, NothingLeaks, OwnAnswer, RequestsWereMade, AnswersWereRun
    <3> QED
      BY <2>3, <3>2, <3>3
  <2> QED
    BY <2>4, <2>5
<1>8. ASSUME ServerCrash PROVE IInv'
  <2>1. PICK K \in SUBSET InFlight \ {{}} :
          request' = [k \in Calls |-> IF k \in K THEN "queued" ELSE request[k]]
    BY <1>8 DEF ServerCrash
  <2>2. \A k \in K : k \in Calls /\ request[k] \in {"delivered", "answered"}
    BY <2>1 DEF InFlight
  <2>3. failures' \in Nat
    BY <1>8, FailCounts DEF ServerCrash
  <2>4. UNCHANGED <<client, replyTo, replies, server, attached>>
    BY <1>8 DEF ServerCrash
  <2>5. TypeOK'
    BY <2>1, <2>2, <2>3, <2>4 DEF client, server
  <2>6. NothingLeaks' /\ OwnAnswer' /\ RepliesAreComputed'
    BY <2>4 DEF client, server, NothingLeaks, OwnAnswer, RepliesAreComputed
  <2>7. RequestsWereMade' /\ AnswersWereRun'
    BY <2>1, <2>2, <2>4 DEF client, server, RequestsWereMade, AnswersWereRun
  <2> QED
    BY <2>5, <2>6, <2>7
<1>9. ASSUME NEW c \in Clients, ClientCrash(c) PROVE IInv'
  <2>1. TypeOK'
    BY <1>9, FailCounts DEF ClientCrash, Restart, Waiting, Of, RepliesTo, server, Replies
  <2>2. NothingLeaks'
    BY <1>9, FailCounts DEF ClientCrash, Restart, Waiting, Of, RepliesTo, server, NothingLeaks
  <2>3. OwnAnswer'
    BY <1>9, FailCounts DEF ClientCrash, Restart, Waiting, Of, RepliesTo, server, NothingLeaks, OwnAnswer
  <2>4. RepliesAreComputed'
    BY <1>9, FailCounts DEF ClientCrash, Restart, Waiting, Of, RepliesTo, server, Replies, RepliesAreComputed
  <2>5. RequestsWereMade' /\ AnswersWereRun'
    BY <1>9, FailCounts DEF ClientCrash, Restart, Waiting, Of, RepliesTo, server, NothingLeaks, RequestsWereMade, AnswersWereRun
  <2> QED
    BY <2>1, <2>2, <2>3, <2>4, <2>5
<1>10. ASSUME NEW c \in Clients, ConnectionClosed(c) PROVE IInv'
  <2>1. TypeOK'
    BY <1>10, FailCounts DEF ConnectionClosed, Of, RepliesTo, client, server, Replies
  <2>2. NothingLeaks'
    BY <1>10, FailCounts DEF ConnectionClosed, Of, RepliesTo, client, server, NothingLeaks
  <2>3. OwnAnswer'
    BY <1>10, FailCounts DEF ConnectionClosed, Of, RepliesTo, client, server, NothingLeaks, OwnAnswer
  <2>4. RepliesAreComputed'
    BY <1>10, FailCounts DEF ConnectionClosed, Of, RepliesTo, client, server, Replies, RepliesAreComputed
  <2>5. RequestsWereMade' /\ AnswersWereRun'
    BY <1>10, FailCounts DEF ConnectionClosed, Of, RepliesTo, client, server, NothingLeaks, RequestsWereMade, AnswersWereRun
  <2> QED
    BY <2>1, <2>2, <2>3, <2>4, <2>5
<1>11. ASSUME NEW k \in Calls, promise[k] = "unmade", Restart(Owner[k], Waiting(Owner[k]) \union {k}),
              UNCHANGED failures
       PROVE  IInv'
  <2> DEFINE K == Waiting(Owner[k]) \union {k}
  <2>a. /\ promise' = [j \in Calls |-> IF j \in K THEN "lost" ELSE promise[j]]
        /\ pending' \subseteq pending /\ timers' \subseteq timers
        /\ replyTo' \subseteq replyTo /\ replies' \subseteq replies
        /\ attached' = attached \union {Owner[k]}
        /\ UNCHANGED <<answer, request, server, failures>>
    BY <1>11 DEF Restart, RepliesTo
  <2>b. Owner[k] \in Clients
    BY RpcAssumption
  <2>1. TypeOK'
    <3> HIDE DEF K
    <3> QED
      BY <2>a, <2>b DEF server
  <2>2. NothingLeaks'
    BY <1>11, RpcAssumption DEF Restart, Waiting, Of, RepliesTo, server, NothingLeaks
  <2>3. OwnAnswer'
    BY <1>11, RpcAssumption DEF Restart, Waiting, Of, RepliesTo, server, NothingLeaks, OwnAnswer
  <2>4. RepliesAreComputed'
    BY <1>11, RpcAssumption DEF Restart, Waiting, Of, RepliesTo, server, Replies, RepliesAreComputed
  <2>5. RequestsWereMade' /\ AnswersWereRun'
    BY <1>11, RpcAssumption DEF Restart, Waiting, Of, RepliesTo, server, NothingLeaks, RequestsWereMade,
       AnswersWereRun
  <2> QED
    BY <2>1, <2>2, <2>3, <2>4, <2>5
<1>12. ASSUME NEW k \in Calls, CallOnClosedChannel(k) PROVE IInv'
  <2>1. CASE Restart(Owner[k], Waiting(Owner[k]) \union {k})
    BY <1>11, <1>12, <2>1 DEF CallOnClosedChannel
  <2>2. CASE /\ promise[k] = "unmade"
             /\ promise' = [promise EXCEPT ![k] = "pending"]
             /\ timers' = timers \union {k} /\ pending' = pending \union {k}
             /\ UNCHANGED <<answer, broker, server, attached, failures>>
    <3>1. TypeOK' /\ NothingLeaks'
      BY <2>2 DEF broker, server, Replies, NothingLeaks
    <3>2. OwnAnswer' /\ RepliesAreComputed'
      BY <2>2 DEF broker, server, Replies, OwnAnswer, RepliesAreComputed
    <3>3. RequestsWereMade' /\ AnswersWereRun'
      BY <2>2 DEF broker, server, RequestsWereMade, AnswersWereRun
    <3> QED
      BY <3>1, <3>2, <3>3
  <2> QED
    BY <1>12, <2>1, <2>2 DEF CallOnClosedChannel
<1> QED
  BY <1>1, <1>2, <1>3, <1>4, <1>5, <1>6, <1>7, <1>8, <1>9, <1>10, <1>12 DEF Next, Done

(* The inductive invariant holds of every behaviour.                       *)
THEOREM Invariance == Spec => []IInv
  BY InitIInv, NextIInv, PTL DEF Spec

(* Types, for every value of the constants.                                *)
THEOREM TypeCorrect == Spec => []TypeOK
  BY Invariance, PTL DEF IInv

(* rpcCall, its timer and handleRPCResponse keep the map, the timers and   *)
(* the callers' promises in agreement.                                     *)
THEOREM NeverLeaks == Spec => []NothingLeaks
  BY Invariance, PTL DEF IInv

(* No reply, however late or often it comes, settles another call.         *)
THEOREM AnswersMatch == Spec => []OwnAnswer
  BY Invariance, PTL DEF IInv

-----------------------------------------------------------------------------
(* A step of the client is a step of the contract or leaves it unchanged.  *)
LEMMA StepRefines ==
    IInv /\ [Next]_vars => [Contract!Next]_<<promise, runs>>
<1> SUFFICES ASSUME IInv, Next PROVE Contract!Next \/ UNCHANGED <<promise, runs>>
  BY DEF vars, client, server
<1> USE DEF IInv, TypeOK, Settled, Answers
<1>1. ASSUME NEW k \in Calls, RpcCall(k) PROVE Contract!Make(k)
  BY <1>1 DEF RpcCall, server, Contract!Make, Contract!Become
<1>2. ASSUME NEW k \in Calls, Timeout(k) PROVE Contract!Reject(k)
  BY <1>2 DEF Timeout, Settle, server, NothingLeaks, Contract!Reject, Contract!Become
<1>3. ASSUME NEW k \in Calls, Deliver(k) PROVE Contract!Execute(k)
  BY <1>3 DEF Deliver, client, RequestsWereMade, Contract!Execute
<1>4. ASSUME NEW k \in Calls, Reply(k) \/ Ack(k) PROVE UNCHANGED <<promise, runs>>
  BY <1>4 DEF Reply, Ack, client, server
<1>5. ASSUME NEW m \in replies, HandleRPCResponse(m)
      PROVE Contract!Resolve(m.call) \/ Contract!Reject(m.call) \/ UNCHANGED <<promise, runs>>
  <2> USE <1>5 DEF HandleRPCResponse
  <2>1. m.call \in Calls /\ m.answer \in computed[m.call] /\ runs[m.call] > 0
    BY DEF Replies, RepliesAreComputed, AnswersWereRun
  <2>2. CASE m.call \in pending
    BY <2>1, <2>2 DEF Settle, server, NothingLeaks, Contract!Resolve, Contract!Reject,
       Contract!Become
  <2>3. CASE m.call \notin pending
    BY <2>3 DEF client, server
  <2> QED
    BY <2>2, <2>3
<1>6. ASSUME ServerCrash PROVE UNCHANGED <<promise, runs>>
  BY <1>6 DEF ServerCrash, client, server
<1>7. ASSUME NEW c \in Clients, ClientCrash(c)
      PROVE Contract!Abandon(Waiting(c))
  BY <1>7 DEF ClientCrash, Restart, Waiting, Of, server, Contract!Abandon
<1>8. ASSUME NEW c \in Clients, ConnectionClosed(c) PROVE UNCHANGED <<promise, runs>>
  BY <1>8 DEF ConnectionClosed, client, server
<1>9. \A m \in replies : m.call \in Calls
  BY DEF Replies
<1>10. ASSUME NEW k \in Calls, CallOnClosedChannel(k)
       PROVE Contract!Abandon(Waiting(Owner[k]) \union {k}) \/ Contract!Make(k)
  BY <1>10 DEF CallOnClosedChannel, Restart, Waiting, Of, server, Contract!Abandon,
     Contract!Make, Contract!Become
<1>11. /\ \A c \in Clients : Waiting(c) \in SUBSET Calls
       /\ \A k \in Calls : Waiting(Owner[k]) \union {k} \in SUBSET Calls
  BY DEF Waiting, Of
<1> QED
  BY <1>1, <1>2, <1>3, <1>4, <1>5, <1>6, <1>7, <1>8, <1>9, <1>10, <1>11
     DEF Next, Done, vars, client, server, Contract!Next

(* RpcClient implements RpcContract: every call is settled at most once,   *)
(* and resolved only after it was executed.                                *)
THEOREM Refinement == Spec => ImplementsContract
<1>1. Init => Contract!Init
  BY DEF Init, Contract!Init
<1> QED
  BY <1>1, StepRefines, Invariance, PTL DEF Spec, ImplementsContract, Contract!Spec
=============================================================================
