---------------------------- MODULE GatewayRetry ----------------------------
(***************************************************************************)
(* The gateway's product and category requests: the routes, the retrying   *)
(* RPC behind them, and the catalog's handlers, which take each call to    *)
(* one statement of ProductRepository or CategoryRepository.  The RPCs are *)
(* those of RpcContract: one that timed out may still be executed, after   *)
(* its retry and after its caller was answered, and more than once.        *)
(*                                                                         *)
(* Products and categories are handled alike, so one table stands for      *)
(* both, and a row's unique columns (sku and slug, name and slug) are one  *)
(* key.  Foreign keys and a failing database are a statement that fails.   *)
(***************************************************************************)
EXTENDS Integers

CONSTANTS
    Requests,    \* requests to the gateway
    Retries,     \* how often a failed call is repeated: 1 in the code
    Seeds,       \* ids of the rows there are at the start
    Keys,        \* values of a row's unique columns
    SeedKey,     \* the key of each of those rows
    None,        \* no request, id or key
    MaxFailures  \* bound on crashes of the gateway and the catalog

Calls == Requests \X (0 .. Retries)
Ids   == Seeds \union (Calls \X (Nat \ {0}))

ASSUME GatewayAssumption ==
    /\ Retries \in Nat
    /\ SeedKey \in [Seeds -> Keys]
    /\ \A s, t \in Seeds : SeedKey[s] = SeedKey[t] => s = t
    /\ Seeds \intersect (Calls \X (Nat \ {0})) = {}
    /\ None \notin Requests \union Keys
    /\ MaxFailures \in Nat

VARIABLES
    promise, runs,  \* RpcContract
    at,        \* where each request stands
    ask,       \* what it asks for
    tries,     \* which of its calls is the current one
    answer,    \* what it was answered with
    message,   \* what has become of the message of each call
    replies,   \* the answers that have been sent for each call
    rows,      \* the table, the rows that are deleted with it
    timedOut,  \* history: calls that were given up
    changed,   \* history: the calls by which the table was changed
    executed,  \* history: the executions of a request, over all its calls
    before,    \* history: the requests that were answered when it arrived
    failures   \* how many failures there have been

rpc     == <<promise, runs>>
gateway == <<at, ask, tries, answer, timedOut, before>>
catalog == <<message, replies, rows, changed, executed>>
vars    == <<rpc, gateway, catalog, failures>>

Rpc == INSTANCE RpcContract

Asks(ids) ==
    [op : {"read"}, id : {None}, key : {None}]
      \union [op : {"create"}, id : {None}, key : Keys]
      \union [op : {"update"}, id : ids, key : Keys]
      \union [op : {"delete"}, id : ids, key : {None}]

Nothing == [op |-> "nothing", id |-> None, key |-> None]

(* A row was made by one request and last written by another.              *)
Row == [key : Keys, maker : Requests \union {None}, by : Requests \union {None}, live : BOOLEAN]

Positions == {"new", "calling", "pausing", "answered", "lost"}
Answers   == {"none", "ok", "refused", "unavailable", "invalid"}
Messages  == {"unsent", "queued", "acked"}

TypeOK ==
    /\ promise \in [Calls -> Rpc!Promises]
    /\ runs \in [Calls -> Nat]
    /\ at \in [Requests -> Positions]
    /\ ask \in [Requests -> Asks(Ids) \union {Nothing}]
    /\ tries \in [Requests -> 0 .. Retries]
    /\ answer \in [Requests -> Answers]
    /\ message \in [Calls -> Messages]
    /\ replies \in [Calls -> SUBSET {"ok", "error"}]
    /\ DOMAIN rows \subseteq Ids
    /\ rows \in [DOMAIN rows -> Row]
    /\ timedOut \subseteq Calls
    /\ changed \subseteq Calls
    /\ executed \in [Requests -> Nat]
    /\ before \in [Requests -> SUBSET Requests]
    /\ failures \in 0 .. MaxFailures

Init ==
    /\ Rpc!Init
    /\ at = [r \in Requests |-> "new"]
    /\ ask = [r \in Requests |-> Nothing]
    /\ tries = [r \in Requests |-> 0]
    /\ answer = [r \in Requests |-> "none"]
    /\ message = [k \in Calls |-> "unsent"]
    /\ replies = [k \in Calls |-> {}]
    /\ rows = [s \in Seeds |->
                 [key |-> SeedKey[s], maker |-> None, by |-> None, live |-> TRUE]]
    /\ timedOut = {}
    /\ changed = {}
    /\ executed = [r \in Requests |-> 0]
    /\ before = [r \in Requests |-> {}]
    /\ failures = 0

Call(r) == <<r, tries[r]>>

-----------------------------------------------------------------------------
(* The gateway.                                                            *)

(* sendToQueue, by an rpcCall.                                             *)
Send(k) == message' = [message EXCEPT ![k] = "queued"]

Answer(r, a) ==
    /\ at' = [at EXCEPT ![r] = "answered"]
    /\ answer' = [answer EXCEPT ![r] = a]

(* A call is settled: whatever else is sent for it is dropped.             *)
Forget(k) == replies' = [replies EXCEPT ![k] = {}]

Answered == {r \in Requests : at[r] = "answered"}

(* A request passes validation and is put to the catalog.                  *)
Request(r) ==
    /\ at[r] = "new"
    /\ at' = [at EXCEPT ![r] = "calling"]
    /\ \E a \in Asks(DOMAIN rows) : ask' = [ask EXCEPT ![r] = a]
    /\ before' = [before EXCEPT ![r] = Answered]
    /\ Rpc!Make(Call(r)) /\ Send(Call(r))
    /\ UNCHANGED <<tries, answer, timedOut, replies, rows, changed, executed, failures>>

(* 400: an id that is no uuid, a body that zod rejects, an empty update.   *)
Invalid(r) ==
    /\ at[r] = "new"
    /\ Answer(r, "invalid")
    /\ before' = [before EXCEPT ![r] = Answered]
    /\ UNCHANGED <<rpc, ask, tries, timedOut, catalog, failures>>

Resolved(r) ==
    /\ at[r] = "calling"
    /\ "ok" \in replies[Call(r)]
    /\ Rpc!Resolve(Call(r)) /\ Forget(Call(r))
    /\ Answer(r, "ok")
    /\ UNCHANGED <<ask, tries, timedOut, before, message, rows, changed, executed, failures>>

(* The message of the 500.  A create passes on what the catalog said.      *)
Failure(r, how) ==
    IF ask[r].op = "create" /\ how = "error" THEN "refused" ELSE "unavailable"

(* Mutant: the retry is not awaited.                                       *)
RetriesInBackground(r, how) ==
    /\ at[r] = "calling"
    /\ Answer(r, Failure(r, how))
    /\ \/ /\ tries[r] < Retries
          /\ tries' = [tries EXCEPT ![r] = @ + 1]
          /\ promise' = [promise EXCEPT ![Call(r)] = "rejected", ![<<r, tries[r] + 1>>] = "pending"]
          /\ Send(<<r, tries[r] + 1>>)
          /\ UNCHANGED runs
       \/ /\ tries[r] = Retries
          /\ Rpc!Reject(Call(r))
          /\ UNCHANGED <<tries, message>>
    /\ Forget(Call(r))
    /\ UNCHANGED <<ask, before, rows, changed, executed, failures>>

(* Mutant: the last failure is returned, not thrown.                       *)
ReturnsFailure(r, how) ==
    /\ at[r] = "calling"
    /\ Rpc!Reject(Call(r)) /\ Forget(Call(r))
    /\ \/ /\ tries[r] < Retries
          /\ at' = [at EXCEPT ![r] = "pausing"]
          /\ UNCHANGED answer
       \/ /\ tries[r] = Retries
          /\ Answer(r, "ok")
    /\ UNCHANGED <<ask, tries, before, message, rows, changed, executed, failures>>

(* The call is rejected: the retry is due in a second, or the request is   *)
(* answered with a 500.                                                    *)
Failed(r, how) ==
    /\ at[r] = "calling"
    /\ Rpc!Reject(Call(r)) /\ Forget(Call(r))
    /\ \/ /\ tries[r] < Retries
          /\ at' = [at EXCEPT ![r] = "pausing"]
          /\ UNCHANGED answer
       \/ /\ tries[r] = Retries
          /\ Answer(r, Failure(r, how))
    /\ UNCHANGED <<ask, tries, before, message, rows, changed, executed, failures>>

(* An error reply rejects the call like a lost one, and is retried.        *)
Refused(r) ==
    /\ "error" \in replies[Call(r)]
    /\ Failed(r, "error")
    /\ UNCHANGED timedOut

(* Mutant: only the first call has a timer.                                *)
TimesOutOnce(r) ==
    /\ tries[r] = 0
    /\ timedOut' = timedOut \union {Call(r)}
    /\ Failed(r, "timeout")

TimesOut(r) ==
    /\ timedOut' = timedOut \union {Call(r)}
    /\ Failed(r, "timeout")

Retry(r) ==
    LET k == <<r, tries[r] + 1>> IN
    /\ at[r] = "pausing"
    /\ at' = [at EXCEPT ![r] = "calling"]
    /\ tries' = [tries EXCEPT ![r] = @ + 1]
    /\ Rpc!Make(k) /\ Send(k)
    /\ UNCHANGED <<ask, answer, timedOut, before, replies, rows, changed, executed, failures>>

-----------------------------------------------------------------------------
(* The catalog.                                                            *)

Live == {i \in DOMAIN rows : rows[i].live}

(* Mutant: the unique columns are not unique.                              *)
FreeAlways(key, id) == TRUE

(* No row but this one holds the key.                                      *)
Free(key, id) == \A i \in Live \ {id} : rows[i].key # key

(* uuidv4, drawn anew by every execution.                                  *)
NewId(k) == <<k, runs[k] + 1>>

Written(r, a, i) ==
    [key |-> IF a.op = "delete" THEN rows[i].key ELSE a.key,
     maker |-> IF a.op = "create" THEN r ELSE rows[i].maker,
     by |-> r,
     live |-> a.op # "delete"]

Change(k, i) ==
    /\ rows' = [j \in DOMAIN rows \union {i} |->
                  IF j = i THEN Written(k[1], ask[k[1]], i) ELSE rows[j]]
    /\ changed' = changed \union {k}

(* The reply to a call that is no longer pending is dropped.               *)
Reply(k, result) ==
    replies' = IF promise[k] = "pending" THEN [replies EXCEPT ![k] = @ \union {result}]
                                         ELSE replies

(* Mutant: the error that is caught counts as a deletion.                  *)
FaultDeletes(k) == Reply(k, "ok")

(* The statement throws, or finds no such row: the handler's catch makes   *)
(* an error reply of it.                                                   *)
Fault(k) == Reply(k, "error")

(* Mutant: an event that cannot be published fails the request.            *)
PublishThrows(k) == \E result \in {"ok", "error"} : Reply(k, result)

(* Invalidation and publication swallow their errors: the reply is a       *)
(* success.                                                                *)
Succeed(k) == Reply(k, "ok")

(* A message is delivered, its statement executed and the reply sent.      *)
(* Nobody sees how long the handler takes in between: a reply may wait in  *)
(* replies for as long.                                                    *)
Handle(k) ==
    LET r == k[1]
        a == ask[r]
    IN
    /\ message[k] = "queued"
    /\ Rpc!Execute(k)
    /\ executed' = [executed EXCEPT ![r] = @ + 1]
    /\ \/ Fault(k) /\ UNCHANGED <<rows, changed>>
       \/ a.op = "read" /\ Succeed(k) /\ UNCHANGED <<rows, changed>>
       \/ /\ a.op = "create" /\ Free(a.key, NewId(k))
          /\ Succeed(k) /\ Change(k, NewId(k))
       \/ /\ a.op = "update" /\ a.id \in Live /\ Free(a.key, a.id)
          /\ Succeed(k) /\ Change(k, a.id)
       \/ /\ a.op = "delete" /\ a.id \in Live
          /\ Succeed(k) /\ Change(k, a.id)
    /\ UNCHANGED gateway

Execute(k) ==
    /\ Handle(k)
    /\ message' = [message EXCEPT ![k] = "acked"]
    /\ UNCHANGED failures

-----------------------------------------------------------------------------
(* Failures.                                                               *)

Fail == failures < MaxFailures /\ failures' = failures + 1

(* The catalog dies between the statement and the ack, or its connection   *)
(* does: the broker delivers the message again.                            *)
ExecuteAndCrash(k) ==
    /\ Fail
    /\ Handle(k)
    /\ UNCHANGED message

Active == {r \in Requests : at[r] \in {"calling", "pausing"}}

(* A gateway process dies with the requests of S.                          *)
GatewayCrash(S) ==
    /\ Fail
    /\ S # {} /\ S \subseteq Active
    /\ at' = [r \in Requests |-> IF r \in S THEN "lost" ELSE at[r]]
    /\ Rpc!Abandon({Call(r) : r \in {s \in S : at[s] = "calling"}})
    /\ UNCHANGED <<ask, tries, answer, timedOut, before, catalog>>

Next ==
    \/ \E r \in Requests :
          Request(r) \/ Invalid(r) \/ Resolved(r) \/ Refused(r) \/ TimesOut(r) \/ Retry(r)
    \/ \E k \in Calls : Execute(k) \/ ExecuteAndCrash(k)
    \/ \E S \in SUBSET Requests : GatewayCrash(S)

Spec == Init /\ [][Next]_vars

(* Timers fire.  Nothing is assumed of the broker or the catalog.          *)
FairSpec == Spec /\ \A r \in Requests : WF_vars(TimesOut(r)) /\ WF_vars(Retry(r))

-----------------------------------------------------------------------------
(* Properties.                                                             *)

(* One of its calls may still be executed, or was executed twice: its      *)
(* timer ended it, or the catalog died over it.                            *)
Late(r) == \E n \in 0 .. Retries : <<r, n>> \in timedOut \/ runs[<<r, n>>] > 1

(* A 200 or 201 is never given for nothing: the attempt it answers has     *)
(* changed the table, although errors are caught at four levels, every     *)
(* attempt may answer, and a message may be executed twice.                *)
OkTookEffect ==
    \A r \in Requests :
        answer[r] = "ok" /\ ask[r].op # "read" => Call(r) \in changed

(* A 500 is given for a write that has taken effect only when an attempt   *)
(* timed out or was executed twice: the steps after the statement          *)
(* (invalidation, publication, a retry of what was done) never turn a      *)
(* success into a failure by themselves.                                   *)
FailureIsTruthful ==
    \A r \in Requests :
        /\ answer[r] \in {"refused", "unavailable"}
        /\ \E n \in 0 .. Retries : <<r, n>> \in changed
        => Late(r)

(* However often a create is executed, of the rows it has made at most one *)
(* is as it made it: what a client sends once is not in the table twice.   *)
NoTwins ==
    \A i, j \in Live :
        /\ rows[i].maker = rows[j].maker /\ rows[i].maker # None
        /\ rows[i].by = rows[i].maker /\ rows[j].by = rows[j].maker
        => i = j

(* A create makes a second row only when a call of it timed out or was     *)
(* executed twice.  That second row can be a deleted product come back: a  *)
(* late copy of its create finds the key free again and makes it anew,     *)
(* under a new id.  A refusal that is retried never does.                  *)
MadeTwiceOnlyIfLate ==
    \A i, j \in DOMAIN rows :
        rows[i].maker = rows[j].maker /\ rows[i].maker # None /\ i # j
        => Late(rows[i].maker)

(* A client that was answered before another began does not overwrite what *)
(* the other wrote, unless its own write timed out or was executed twice.  *)
OldWritesOnlyIfLate ==
    [][\A i \in DOMAIN rows, u \in Requests :
          /\ rows'[i] # rows[i] /\ rows'[i].by = u
          /\ rows[i].by # None
          => (u \in before[rows[i].by] => Late(u)')]_vars

(* Every request is answered or lost with its process, though nothing is   *)
(* assumed of the broker and the catalog.                                  *)
EveryRequestAnswered ==
    \A r \in Requests : at[r] = "calling" ~> at[r] \in {"answered", "lost"}

(* Seen as one RPC, a request is promised what RpcContract promises of a   *)
(* single call, retried or not: it settles once, and a resolved one was    *)
(* executed.                                                               *)
PromiseOf(r) ==
    IF at[r] = "new" THEN "unmade"
    ELSE IF at[r] \in {"calling", "pausing"} THEN "pending"
    ELSE IF at[r] = "lost" THEN "lost"
    ELSE IF answer[r] = "invalid" THEN "unmade"
    ELSE IF answer[r] = "ok" THEN "resolved" ELSE "rejected"

Once == INSTANCE RpcContract
          WITH Calls <- Requests, promise <- [r \in Requests |-> PromiseOf(r)], runs <- executed
RetryIsAnRpc == Once!Spec
=============================================================================
