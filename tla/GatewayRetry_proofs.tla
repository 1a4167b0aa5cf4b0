------------------------- MODULE GatewayRetry_proofs -------------------------
(***************************************************************************)
(* GatewayRetry for every set of requests, every number of retries, every  *)
(* table and any number of failures: its types, what its answers tell a    *)
(* client, what late copies of a request may do to the table, and that a   *)
(* request with its retries implements RpcContract.                        *)
(***************************************************************************)
EXTENDS GatewayRetry, TLAPS

(* Where a request stands decides the promises of its calls: the earlier   *)
(* ones were rejected, the later ones are not made.                        *)
PhaseOf(r) ==
    /\ at[r] = "new" => tries[r] = 0 /\ promise[Call(r)] = "unmade"
    /\ at[r] = "calling" => promise[Call(r)] = "pending"
    /\ at[r] = "pausing" => promise[Call(r)] = "rejected" /\ tries[r] < Retries
    /\ answer[r] = "none" <=> at[r] # "answered"
    /\ answer[r] = "ok" => promise[Call(r)] = "resolved"
    /\ answer[r] = "invalid" => tries[r] = 0 /\ promise[Call(r)] = "unmade"
    /\ answer[r] \in {"refused", "unavailable"} => promise[Call(r)] = "rejected"
    /\ \A n \in 0 .. Retries :
          /\ n < tries[r] => promise[<<r, n>>] = "rejected"
          /\ n > tries[r] => promise[<<r, n>>] = "unmade"

Phases == \A r \in Requests : PhaseOf(r)

(* A call that was not made has no message; one that was settled has been  *)
(* executed, or was given up.                                              *)
Work ==
    \A k \in Calls :
        /\ promise[k] = "unmade" => message[k] = "unsent" /\ runs[k] = 0
        /\ replies[k] # {} \/ k \in changed => runs[k] > 0
        /\ runs[k] > 0 => executed[k[1]] > 0
        /\ promise[k] \in {"resolved", "rejected"} => runs[k] > 0 \/ k \in timedOut

(* What was replied is what was done, as far as one execution goes.        *)
Outcome ==
    \A k \in Calls :
        /\ "ok" \in replies[k] /\ ask[k[1]].op # "read" => k \in changed
        /\ promise[k] = "resolved" /\ ask[k[1]].op # "read" => k \in changed
        /\ k \in changed /\ "error" \in replies[k] => runs[k] > 1
        /\ k \in changed /\ promise[k] = "rejected" => k \in timedOut \/ runs[k] > 1

(* The ids that were drawn are those of past executions.                   *)
DrawnIds ==
    \A k \in Calls : \A n \in Nat \ {0} : <<k, n>> \in DOMAIN rows => n <= runs[k]

(* Keys are unique, and a row nobody has updated has the key it was asked  *)
(* to be made with.                                                        *)
KeysAreUnique == \A i, j \in Live : rows[i].key = rows[j].key => i = j

MadeAsAsked ==
    \A i \in DOMAIN rows : rows[i].maker # None =>
        /\ at[rows[i].maker] # "new"
        /\ ask[rows[i].maker].op = "create"
        /\ rows[i].by = rows[i].maker => rows[i].key = ask[rows[i].maker].key

(* Requests that were answered stay answered.                              *)
Past == \A r \in Requests : \A u \in before[r] : at[u] = "answered"

IInv ==
    /\ TypeOK /\ Phases /\ Work /\ Outcome
    /\ DrawnIds /\ KeysAreUnique /\ MadeAsAsked /\ Past

-----------------------------------------------------------------------------
(* Calls and what an RPC does to them.                                     *)

LEMMA CallsOfRequests ==
    /\ \A r \in Requests : \A n \in 0 .. Retries :
          <<r, n>> \in Calls /\ <<r, n>>[1] = r /\ <<r, n>>[2] = n
    /\ \A k \in Calls : k[1] \in Requests /\ k[2] \in 0 .. Retries /\ k = <<k[1], k[2]>>
  BY DEF Calls

LEMMA CallTyped ==
    ASSUME TypeOK, NEW r \in Requests
    PROVE  Call(r) \in Calls /\ Call(r)[1] = r
  BY CallsOfRequests DEF TypeOK, Call

LEMMA BecomeAt ==
    ASSUME promise \in [Calls -> Rpc!Promises], NEW k \in Calls,
           NEW from, NEW to \in Rpc!Promises, Rpc!Become(k, from, to)
    PROVE  /\ promise[k] = from /\ promise'[k] = to
           /\ promise' \in [Calls -> Rpc!Promises]
           /\ \A j \in Calls : j # k => promise'[j] = promise[j]
           /\ runs' = runs
  BY DEF Rpc!Become

LEMMA SendAt ==
    ASSUME message \in [Calls -> Messages], NEW k \in Calls, Send(k)
    PROVE  /\ message' \in [Calls -> Messages]
           /\ message'[k] = "queued"
           /\ \A j \in Calls : j # k => message'[j] = message[j]
  BY DEF Send, Messages

LEMMA ForgetAt ==
    ASSUME replies \in [Calls -> SUBSET {"ok", "error"}], NEW k \in Calls, Forget(k)
    PROVE  /\ replies' \in [Calls -> SUBSET {"ok", "error"}]
           /\ replies'[k] = {}
           /\ \A j \in Calls : j # k => replies'[j] = replies[j]
  BY DEF Forget

LEMMA ReplyAt ==
    ASSUME replies \in [Calls -> SUBSET {"ok", "error"}], NEW k \in Calls,
           NEW result \in {"ok", "error"}, Reply(k, result)
    PROVE  /\ replies' \in [Calls -> SUBSET {"ok", "error"}]
           /\ replies[k] \subseteq replies'[k] /\ replies'[k] \subseteq replies[k] \union {result}
           /\ \A j \in Calls : j # k => replies'[j] = replies[j]
  BY DEF Reply

LEMMA AnswerAt ==
    ASSUME at \in [Requests -> Positions], answer \in [Requests -> Answers],
           NEW r \in Requests, NEW a \in Answers, Answer(r, a)
    PROVE  /\ at' \in [Requests -> Positions] /\ answer' \in [Requests -> Answers]
           /\ at'[r] = "answered" /\ answer'[r] = a
           /\ \A q \in Requests : q # r => at'[q] = at[q] /\ answer'[q] = answer[q]
  BY DEF Answer, Positions

LEMMA RunAt ==
    ASSUME runs \in [Calls -> Nat], NEW k \in Calls, Rpc!Execute(k)
    PROVE  /\ promise[k] # "unmade" /\ promise' = promise
           /\ runs' \in [Calls -> Nat] /\ runs'[k] = runs[k] + 1
           /\ \A j \in Calls : j # k => runs'[j] = runs[j]
  BY DEF Rpc!Execute

LEMMA ExecutedAt ==
    ASSUME executed \in [Requests -> Nat], NEW r \in Requests,
           executed' = [executed EXCEPT ![r] = @ + 1]
    PROVE  /\ executed' \in [Requests -> Nat] /\ executed'[r] = executed[r] + 1
           /\ \A q \in Requests : q # r => executed'[q] = executed[q]
  OBVIOUS

LEMMA FailCounts ==
    ASSUME failures \in 0 .. MaxFailures, Fail
    PROVE  failures' \in 0 .. MaxFailures
  BY GatewayAssumption DEF Fail

(* A step about one request leaves the others where they stand.            *)
LEMMA OtherPhases ==
    ASSUME TypeOK, Phases, NEW r \in Requests,
           \A j \in Calls : j[1] # r => promise'[j] = promise[j],
           \A q \in Requests : q # r =>
              at'[q] = at[q] /\ answer'[q] = answer[q] /\ tries'[q] = tries[q]
    PROVE  \A q \in Requests : q # r => PhaseOf(q)'
<1> SUFFICES ASSUME NEW q \in Requests, q # r PROVE PhaseOf(q)'
  OBVIOUS
<1>1. \A n \in 0 .. Retries : promise'[<<q, n>>] = promise[<<q, n>>]
  BY CallsOfRequests
<1>2. tries[q] \in 0 .. Retries /\ tries'[q] = tries[q]
  BY DEF TypeOK
<1>3. Call(q)' = Call(q) /\ promise'[Call(q)] = promise[Call(q)]
  BY <1>1, <1>2 DEF Call
<1> QED
  BY <1>1, <1>2, <1>3 DEF Phases, PhaseOf

-----------------------------------------------------------------------------
(* The invariant is kept, one lemma for each action.                       *)

LEMMA InitIInv == Init => IInv
<1> SUFFICES ASSUME Init PROVE IInv
  OBVIOUS
<1> USE DEF Init, Rpc!Init
<1>1. TypeOK
  <2>1. rows \in [DOMAIN rows -> Row] /\ DOMAIN rows \subseteq Ids
    BY GatewayAssumption DEF Row, Ids
  <2>2. /\ promise \in [Calls -> Rpc!Promises] /\ runs \in [Calls -> Nat]
        /\ tries \in [Requests -> 0 .. Retries] /\ failures \in 0 .. MaxFailures
    BY GatewayAssumption DEF Rpc!Promises
  <2> QED
    BY <2>1, <2>2 DEF TypeOK, Positions, Answers, Messages
<1>2. Phases
  <2>1. \A r \in Requests : \A n \in 0 .. Retries : promise[<<r, n>>] = "unmade"
    BY CallsOfRequests
  <2>2. \A r \in Requests : tries[r] = 0 /\ promise[Call(r)] = "unmade"
    BY CallTyped, <1>1
  <2>3. \A r \in Requests : \A n \in 0 .. Retries : ~(n < tries[r])
    BY <2>2
  <2> QED
    BY <2>1, <2>2, <2>3 DEF Phases, PhaseOf
<1>3. Work /\ Outcome /\ Past
  BY DEF Work, Outcome, Past
<1>4. DrawnIds
  BY GatewayAssumption DEF DrawnIds
<1>5. KeysAreUnique /\ MadeAsAsked
  BY GatewayAssumption DEF KeysAreUnique, MadeAsAsked, Live
<1> QED
  BY <1>1, <1>2, <1>3, <1>4, <1>5 DEF IInv

LEMMA RequestKeeps ==
    ASSUME IInv, NEW r \in Requests, Request(r)
    PROVE  IInv'
<1> DEFINE k == Call(r)
<1> USE DEF IInv
<1>1. k \in Calls /\ k[1] = r
  BY CallTyped
<1> HIDE DEF k
<1>2. /\ at[r] = "new" /\ at' = [at EXCEPT ![r] = "calling"]
      /\ before' = [before EXCEPT ![r] = Answered]
      /\ Rpc!Become(k, "unmade", "pending") /\ Send(k)
      /\ UNCHANGED <<tries, answer, timedOut, replies, rows, changed, executed, failures>>
  BY DEF Request, Rpc!Make, k
<1>3. PICK a \in Asks(DOMAIN rows) : ask' = [ask EXCEPT ![r] = a]
  BY DEF Request
<1>4. /\ promise[k] = "unmade" /\ promise'[k] = "pending"
      /\ promise' \in [Calls -> Rpc!Promises]
      /\ \A j \in Calls : j # k => promise'[j] = promise[j]
      /\ runs' = runs
  BY <1>1, <1>2, BecomeAt DEF TypeOK, Rpc!Promises
<1>5. /\ message' \in [Calls -> Messages]
      /\ \A j \in Calls : j # k => message'[j] = message[j]
  BY <1>1, <1>2, SendAt DEF TypeOK
<1>6. TypeOK'
  <2>1. at' \in [Requests -> Positions] /\ before' \in [Requests -> SUBSET Requests]
    BY <1>2 DEF TypeOK, Positions, Answered
  <2>2. ask' \in [Requests -> Asks(Ids) \union {Nothing}]
    <3>1. a \in Asks(Ids)
      BY <1>3 DEF TypeOK, Asks
    <3> QED
      BY <1>3, <3>1 DEF TypeOK
  <2> QED
    BY <1>2, <1>4, <1>5, <2>1, <2>2 DEF TypeOK
<1>7. tries[r] = 0 /\ k = <<r, 0>> /\ Call(r)' = k
  BY <1>2 DEF Phases, PhaseOf, Call, k
<1>8. \A n \in 0 .. Retries : promise[<<r, n>>] = "unmade"
  <2>1. \A n \in 0 .. Retries : n = 0 \/ n > tries[r]
    BY <1>7
  <2> QED
    BY <1>2, <1>4, <1>7, <2>1 DEF Phases, PhaseOf
<1>13. Phases'
  <2>1. \A q \in Requests : q # r => PhaseOf(q)'
    BY <1>1, <1>2, <1>4, OtherPhases DEF TypeOK
  <2>2. \A n \in 0 .. Retries :
           /\ ~(n < tries'[r])
           /\ n > tries'[r] => promise'[<<r, n>>] = "unmade"
    BY <1>2, <1>4, <1>7, <1>8, CallsOfRequests
  <2>3. at'[r] = "calling" /\ answer'[r] = "none"
    BY <1>2 DEF TypeOK, Phases, PhaseOf
  <2>4. PhaseOf(r)'
    BY <1>4, <1>7, <2>2, <2>3 DEF PhaseOf
  <2> QED
    BY <2>1, <2>4 DEF Phases
<1>9. Work'
  BY <1>2, <1>4, <1>5 DEF Work
<1>10. Outcome'
  BY <1>1, <1>2, <1>3, <1>4, <1>8, CallsOfRequests DEF Outcome, Work, TypeOK
<1>11. DrawnIds' /\ KeysAreUnique' /\ Past'
  BY <1>2, <1>4 DEF DrawnIds, KeysAreUnique, Live, Past, TypeOK, Answered
<1>12. MadeAsAsked'
  BY <1>2, <1>3 DEF MadeAsAsked, TypeOK, Row
<1> QED
  BY <1>6, <1>9, <1>10, <1>11, <1>12, <1>13

LEMMA InvalidKeeps ==
    ASSUME IInv, NEW r \in Requests, Invalid(r)
    PROVE  IInv'
<1> USE DEF IInv
<1>1. /\ at[r] = "new" /\ Answer(r, "invalid")
      /\ before' = [before EXCEPT ![r] = Answered]
      /\ UNCHANGED <<promise, runs, ask, tries, timedOut, message, replies, rows,
                     changed, executed, failures>>
  BY DEF Invalid, rpc, catalog
<1>2. /\ at' \in [Requests -> Positions] /\ answer' \in [Requests -> Answers]
      /\ at'[r] = "answered" /\ answer'[r] = "invalid"
      /\ \A q \in Requests : q # r => at'[q] = at[q] /\ answer'[q] = answer[q]
  BY <1>1, AnswerAt DEF TypeOK, Answers
<1>3. TypeOK'
  BY <1>1, <1>2 DEF TypeOK, Answered
<1>4. Phases'
  <2>1. \A q \in Requests : q # r => PhaseOf(q)'
    BY <1>1, <1>2, OtherPhases
  <2>2. PhaseOf(r)'
    BY <1>1, <1>2 DEF Phases, PhaseOf, Call
  <2> QED
    BY <2>1, <2>2 DEF Phases
<1>5. Work' /\ Outcome' /\ DrawnIds' /\ KeysAreUnique'
  BY <1>1 DEF Work, Outcome, DrawnIds, KeysAreUnique, Live
<1>6. MadeAsAsked'
  BY <1>1, <1>2 DEF MadeAsAsked, TypeOK, Row
<1>7. Past'
  BY <1>1, <1>2 DEF Past, TypeOK, Answered
<1> QED
  BY <1>3, <1>4, <1>5, <1>6, <1>7

LEMMA ResolvedKeeps ==
    ASSUME IInv, NEW r \in Requests, Resolved(r)
    PROVE  IInv'
<1> DEFINE k == Call(r)
<1> USE DEF IInv
<1>1. k \in Calls /\ k[1] = r
  BY CallTyped
<1> HIDE DEF k
<1>2. /\ at[r] = "calling" /\ "ok" \in replies[k]
      /\ Rpc!Become(k, "pending", "resolved") /\ Forget(k) /\ Answer(r, "ok")
      /\ UNCHANGED <<ask, tries, timedOut, before, message, rows, changed, executed, failures>>
  BY DEF Resolved, Rpc!Resolve, k
<1>3. /\ promise[k] = "pending" /\ promise'[k] = "resolved"
      /\ promise' \in [Calls -> Rpc!Promises]
      /\ \A j \in Calls : j # k => promise'[j] = promise[j]
      /\ runs' = runs
  BY <1>1, <1>2, BecomeAt DEF TypeOK, Rpc!Promises
<1>4. /\ at' \in [Requests -> Positions] /\ answer' \in [Requests -> Answers]
      /\ at'[r] = "answered" /\ answer'[r] = "ok"
      /\ \A q \in Requests : q # r => at'[q] = at[q] /\ answer'[q] = answer[q]
  BY <1>2, AnswerAt DEF TypeOK, Answers
<1>5. /\ replies' \in [Calls -> SUBSET {"ok", "error"}]
      /\ replies'[k] = {}
      /\ \A j \in Calls : j # k => replies'[j] = replies[j]
  BY <1>1, <1>2, ForgetAt DEF TypeOK
<1>6. TypeOK'
  BY <1>2, <1>3, <1>4, <1>5 DEF TypeOK
<1>7. Phases'
  <2>1. \A q \in Requests : q # r => PhaseOf(q)'
    BY <1>1, <1>2, <1>3, <1>4, OtherPhases
  <2>2. Call(r)' = k
    BY <1>2 DEF Call, k
  <2>3. \A n \in 0 .. Retries : <<r, n>> # k => promise'[<<r, n>>] = promise[<<r, n>>]
    BY <1>3, CallsOfRequests
  <2>4. \A n \in 0 .. Retries : n # tries[r] => <<r, n>> # k
    BY DEF Call, k
  <2>5. tries[r] \in Nat /\ tries' = tries
    BY <1>2 DEF TypeOK
  <2>6. PhaseOf(r)'
    BY <1>2, <1>3, <1>4, <2>2, <2>3, <2>4, <2>5 DEF Phases, PhaseOf
  <2> QED
    BY <2>1, <2>6 DEF Phases
<1>8. Work'
  BY <1>1, <1>2, <1>3, <1>5 DEF Work
<1>9. Outcome'
  BY <1>1, <1>2, <1>3, <1>5 DEF Outcome
<1>10. DrawnIds' /\ KeysAreUnique'
  BY <1>2, <1>3 DEF DrawnIds, KeysAreUnique, Live
<1>11. MadeAsAsked'
  BY <1>2, <1>4 DEF MadeAsAsked, TypeOK, Row
<1>12. Past'
  BY <1>2, <1>4 DEF Past, TypeOK
<1> QED
  BY <1>6, <1>7, <1>8, <1>9, <1>10, <1>11, <1>12

(* A failed call, whether an error reply or its timer ended it.            *)
LEMMA FailedKeeps ==
    ASSUME IInv, NEW r \in Requests, NEW how, Failed(r, how),
           timedOut \subseteq timedOut', timedOut' \subseteq Calls,
           Call(r) \in timedOut' \/ "error" \in replies[Call(r)]
    PROVE  IInv'
<1> DEFINE k == Call(r)
<1> USE DEF IInv
<1>1. k \in Calls /\ k[1] = r
  BY CallTyped
<1>0. k \in timedOut' \/ "error" \in replies[k]
  OBVIOUS
<1> HIDE DEF k
<1>2. /\ at[r] = "calling" /\ Rpc!Become(k, "pending", "rejected") /\ Forget(k)
      /\ UNCHANGED <<ask, tries, before, message, rows, changed, executed, failures>>
  BY DEF Failed, Rpc!Reject, k
<1>3. /\ promise[k] = "pending" /\ promise'[k] = "rejected"
      /\ promise' \in [Calls -> Rpc!Promises]
      /\ \A j \in Calls : j # k => promise'[j] = promise[j]
      /\ runs' = runs
  BY <1>1, <1>2, BecomeAt DEF TypeOK, Rpc!Promises
<1>4. /\ at' \in [Requests -> Positions] /\ answer' \in [Requests -> Answers]
      /\ \A q \in Requests : q # r => at'[q] = at[q] /\ answer'[q] = answer[q]
      /\ \/ tries[r] < Retries /\ at'[r] = "pausing" /\ answer' = answer
         \/ at'[r] = "answered" /\ answer'[r] \in {"refused", "unavailable"}
  <2>1. CASE tries[r] < Retries /\ at' = [at EXCEPT ![r] = "pausing"] /\ answer' = answer
    BY <2>1 DEF TypeOK, Positions
  <2>2. CASE Answer(r, Failure(r, how))
    <3>1. Failure(r, how) \in Answers /\ Failure(r, how) \in {"refused", "unavailable"}
      BY DEF Failure, Answers
    <3> QED
      BY <2>2, <3>1, AnswerAt DEF TypeOK
  <2> QED
    BY <2>1, <2>2 DEF Failed
<1>5. /\ replies' \in [Calls -> SUBSET {"ok", "error"}]
      /\ replies'[k] = {}
      /\ \A j \in Calls : j # k => replies'[j] = replies[j]
  BY <1>1, <1>2, ForgetAt DEF TypeOK
<1>6. TypeOK'
  BY <1>2, <1>3, <1>4, <1>5 DEF TypeOK
<1>7. Phases'
  <2>1. \A q \in Requests : q # r => PhaseOf(q)'
    BY <1>1, <1>2, <1>3, <1>4, OtherPhases
  <2>2. Call(r)' = k
    BY <1>2 DEF Call, k
  <2>3. \A n \in 0 .. Retries : <<r, n>> # k => promise'[<<r, n>>] = promise[<<r, n>>]
    BY <1>3, CallsOfRequests
  <2>4. \A n \in 0 .. Retries : n # tries[r] => <<r, n>> # k
    BY DEF Call, k
  <2>5. tries[r] \in Nat /\ tries' = tries
    BY <1>2 DEF TypeOK
  <2>6. PhaseOf(r)'
    BY <1>2, <1>3, <1>4, <2>2, <2>3, <2>4, <2>5 DEF Phases, PhaseOf
  <2> QED
    BY <2>1, <2>6 DEF Phases
<1>8. Work'
  BY <1>0, <1>1, <1>2, <1>3, <1>5 DEF Work
<1>9. Outcome'
  BY <1>0, <1>1, <1>2, <1>3, <1>5 DEF Outcome
<1>10. DrawnIds' /\ KeysAreUnique'
  BY <1>2, <1>3 DEF DrawnIds, KeysAreUnique, Live
<1>11. MadeAsAsked'
  BY <1>2, <1>4 DEF MadeAsAsked, TypeOK, Row
<1>12. Past'
  BY <1>2, <1>4 DEF Past, TypeOK
<1> QED
  BY <1>6, <1>7, <1>8, <1>9, <1>10, <1>11, <1>12

LEMMA RefusedKeeps ==
    ASSUME IInv, NEW r \in Requests, Refused(r)
    PROVE  IInv'
<1>1. timedOut' = timedOut /\ timedOut \subseteq Calls
  BY DEF Refused, IInv, TypeOK
<1> QED
  BY <1>1, FailedKeeps DEF Refused

LEMMA TimesOutKeeps ==
    ASSUME IInv, NEW r \in Requests, TimesOut(r)
    PROVE  IInv'
<1>1. timedOut' = timedOut \union {Call(r)} /\ timedOut \subseteq Calls
  BY DEF TimesOut, IInv, TypeOK
<1>2. Call(r) \in Calls
  BY CallTyped DEF IInv
<1> QED
  BY <1>1, <1>2, FailedKeeps DEF TimesOut

LEMMA RetryKeeps ==
    ASSUME IInv, NEW r \in Requests, Retry(r)
    PROVE  IInv'
<1> DEFINE k == <<r, tries[r] + 1>>
<1> USE DEF IInv
<1>1. /\ at[r] = "pausing" /\ at' = [at EXCEPT ![r] = "calling"]
      /\ tries' = [tries EXCEPT ![r] = @ + 1]
      /\ Rpc!Become(k, "unmade", "pending") /\ Send(k)
      /\ UNCHANGED <<ask, answer, timedOut, before, replies, rows, changed, executed, failures>>
  BY DEF Retry, Rpc!Make
<1>2. tries[r] \in 0 .. Retries /\ tries[r] < Retries /\ promise[Call(r)] = "rejected"
  BY <1>1 DEF TypeOK, Phases, PhaseOf
<1>3. tries[r] + 1 \in 0 .. Retries /\ tries'[r] = tries[r] + 1
  BY <1>1, <1>2, GatewayAssumption DEF TypeOK
<1>4. k \in Calls /\ k[1] = r /\ Call(r)' = k
  BY <1>3, CallsOfRequests DEF Call
<1> HIDE DEF k
<1>5. /\ promise[k] = "unmade" /\ promise'[k] = "pending"
      /\ promise' \in [Calls -> Rpc!Promises]
      /\ \A j \in Calls : j # k => promise'[j] = promise[j]
      /\ runs' = runs
  BY <1>1, <1>4, BecomeAt DEF TypeOK, Rpc!Promises
<1>6. /\ message' \in [Calls -> Messages]
      /\ \A j \in Calls : j # k => message'[j] = message[j]
  BY <1>1, <1>4, SendAt DEF TypeOK
<1>7. TypeOK'
  <2>1. at' \in [Requests -> Positions] /\ tries' \in [Requests -> 0 .. Retries]
    BY <1>1, <1>3 DEF TypeOK, Positions
  <2> QED
    BY <1>1, <1>5, <1>6, <2>1 DEF TypeOK
<1>8. Phases'
  <2>1. \A q \in Requests : q # r => PhaseOf(q)'
    BY <1>1, <1>4, <1>5, OtherPhases DEF TypeOK
  <2>2. \A n \in 0 .. Retries : n < tries'[r] => promise'[<<r, n>>] = "rejected"
    <3> SUFFICES ASSUME NEW n \in 0 .. Retries, n < tries'[r]
                 PROVE  promise'[<<r, n>>] = "rejected"
      OBVIOUS
    <3>1. n < tries[r] \/ n = tries[r]
      BY <1>2, <1>3
    <3>2. promise[<<r, n>>] = "rejected"
      BY <1>2, <3>1 DEF Phases, PhaseOf, Call
    <3> QED
      BY <1>5, <3>2, CallsOfRequests
  <2>3. \A n \in 0 .. Retries : n > tries'[r] => promise'[<<r, n>>] = "unmade"
    <3> SUFFICES ASSUME NEW n \in 0 .. Retries, n > tries'[r]
                 PROVE  promise'[<<r, n>>] = "unmade"
      OBVIOUS
    <3>1. n > tries[r] /\ n # tries[r] + 1
      BY <1>2, <1>3
    <3>2. promise[<<r, n>>] = "unmade" /\ <<r, n>> # k
      BY <3>1 DEF Phases, PhaseOf, k
    <3> QED
      BY <1>5, <3>2, CallsOfRequests
  <2>4. at'[r] = "calling" /\ answer'[r] = "none"
    BY <1>1 DEF TypeOK, Phases, PhaseOf
  <2>5. PhaseOf(r)'
    BY <1>4, <1>5, <2>2, <2>3, <2>4 DEF PhaseOf
  <2> QED
    BY <2>1, <2>5 DEF Phases
<1>9. Work'
  BY <1>1, <1>4, <1>5, <1>6 DEF Work
<1>10. Outcome'
  BY <1>1, <1>4, <1>5 DEF Outcome
<1>11. DrawnIds' /\ KeysAreUnique'
  BY <1>1, <1>5 DEF DrawnIds, KeysAreUnique, Live
<1>12. MadeAsAsked'
  BY <1>1 DEF MadeAsAsked, TypeOK, Row
<1>13. Past'
  BY <1>1 DEF Past, TypeOK
<1> QED
  BY <1>7, <1>8, <1>9, <1>10, <1>11, <1>12, <1>13

LEMMA GatewayCrashKeeps ==
    ASSUME IInv, NEW S \in SUBSET Requests, GatewayCrash(S)
    PROVE  IInv'
<1> DEFINE K == {Call(r) : r \in {s \in S : at[s] = "calling"}}
<1> USE DEF IInv
<1>1. /\ S \subseteq Active
      /\ at' = [r \in Requests |-> IF r \in S THEN "lost" ELSE at[r]]
      /\ promise' = [j \in Calls |-> IF j \in K THEN "lost" ELSE promise[j]]
      /\ UNCHANGED <<runs, ask, tries, answer, timedOut, before, message, replies, rows,
                     changed, executed>>
  BY DEF GatewayCrash, Rpc!Abandon, catalog
<1>2. \A j \in Calls : j \in K => promise[j] = "pending" /\ j[1] \in S /\ j = Call(j[1])
  BY CallTyped DEF Phases, PhaseOf
<1> HIDE DEF K
<1>3. failures' \in 0 .. MaxFailures
  BY FailCounts DEF GatewayCrash, TypeOK
<1>4. TypeOK'
  <2>1. at' \in [Requests -> Positions] /\ promise' \in [Calls -> Rpc!Promises]
    BY <1>1 DEF TypeOK, Positions, Rpc!Promises
  <2> QED
    BY <1>1, <1>3, <2>1 DEF TypeOK
<1>5. Phases'
  <2> SUFFICES ASSUME NEW q \in Requests PROVE PhaseOf(q)'
    BY DEF Phases
  <2>1. Call(q)' = Call(q) /\ Call(q) \in Calls /\ Call(q)[1] = q
    BY <1>1, CallTyped DEF Call
  <2>2. \A n \in 0 .. Retries :
          n # tries[q] => promise'[<<q, n>>] = promise[<<q, n>>]
    BY <1>1, <1>2, CallsOfRequests DEF Call
  <2>3. tries'[q] = tries[q] /\ tries[q] \in Nat
    BY <1>1 DEF TypeOK
  <2>4. q \notin S => Call(q) \notin K
    BY <1>2, <2>1
  <2>5. q \in S => at[q] \in {"calling", "pausing"} /\ at'[q] = "lost" /\ answer'[q] = "none"
    BY <1>1 DEF Active, Phases, PhaseOf
  <2>6. q \notin S => at'[q] = at[q] /\ promise'[Call(q)] = promise[Call(q)]
    BY <1>1, <2>1, <2>4
  <2> QED
    BY <1>1, <2>1, <2>2, <2>3, <2>5, <2>6 DEF Phases, PhaseOf
<1>6. Work' /\ Outcome'
  BY <1>1, <1>2 DEF Work, Outcome
<1>7. DrawnIds' /\ KeysAreUnique'
  BY <1>1 DEF DrawnIds, KeysAreUnique, Live
<1>8. MadeAsAsked'
  BY <1>1 DEF MadeAsAsked, TypeOK, Row
<1>9. Past'
  BY <1>1 DEF Past, TypeOK, Active
<1> QED
  BY <1>4, <1>5, <1>6, <1>7, <1>8, <1>9

-----------------------------------------------------------------------------
(* An execution.                                                           *)

(* A call with a message belongs to a request that has begun.              *)
LEMMA ExecutedHasBegun ==
    ASSUME TypeOK, Phases, NEW k \in Calls, promise[k] # "unmade"
    PROVE  at[k[1]] # "new" /\ answer[k[1]] # "invalid"
<1> DEFINE r == k[1]
           n == k[2]
<1>1. r \in Requests /\ n \in 0 .. Retries /\ k = <<r, n>>
  BY CallsOfRequests
<1> HIDE DEF r, n
<1>2. tries[r] = 0 => n = tries[r] \/ n > tries[r]
  BY <1>1
<1>3. ~(tries[r] = 0 /\ promise[Call(r)] = "unmade")
  BY <1>1, <1>2 DEF Phases, PhaseOf, Call
<1>4. at[r] # "new" /\ answer[r] # "invalid"
  BY <1>1, <1>3 DEF Phases, PhaseOf
<1> QED
  BY <1>4 DEF r

(* The five outcomes of an execution: a failed or a reading one leaves the *)
(* table alone, the others write one row.                                  *)
Unwritten(k) ==
    /\ UNCHANGED <<rows, changed>>
    /\ Reply(k, "error") \/ (Reply(k, "ok") /\ ask[k[1]].op = "read")

Writes(k, i) ==
    /\ Reply(k, "ok") /\ Change(k, i)
    /\ \/ ask[k[1]].op = "create" /\ i = NewId(k) /\ Free(ask[k[1]].key, i)
       \/ ask[k[1]].op = "update" /\ i \in Live /\ Free(ask[k[1]].key, i)
       \/ ask[k[1]].op = "delete" /\ i \in Live

LEMMA HandleOutcomes ==
    ASSUME NEW k \in Calls, Handle(k)
    PROVE  Unwritten(k) \/ \E i : Writes(k, i)
  BY DEF Handle, Unwritten, Writes, Fault, Succeed

(* What a statement writes is a row, under an id.                          *)
LEMMA WritesRow ==
    ASSUME TypeOK, NEW k \in Calls, NEW i, Writes(k, i)
    PROVE  /\ i \in Ids
           /\ ask[k[1]].op # "create" => i \in DOMAIN rows
           /\ Written(k[1], ask[k[1]], i) \in Row
<1> DEFINE r == k[1]
           a == ask[r]
<1>1. r \in Requests
  BY CallsOfRequests
<1>2. a \in Asks(Ids) \union {Nothing}
  BY <1>1 DEF TypeOK
<1>3. a.op \in {"create", "update", "delete"}
  BY DEF Writes
<1>4. a.op # "delete" => a.key \in Keys
  BY <1>2, <1>3 DEF Asks, Nothing
<1>5. a.op # "create" => i \in DOMAIN rows /\ rows[i] \in Row
  BY DEF Writes, Live, TypeOK
<1>6. i \in Ids
  <2>1. CASE a.op # "create"
    BY <1>5, <2>1 DEF TypeOK
  <2>2. CASE a.op = "create"
    <3>1. i = <<k, runs[k] + 1>>
      BY <2>2 DEF Writes, NewId
    <3>2. runs[k] + 1 \in Nat \ {0}
      BY DEF TypeOK
    <3> QED
      BY <3>1, <3>2 DEF Ids
  <2> QED
    BY <2>1, <2>2
<1> HIDE DEF a
<1>7. Written(r, a, i) \in Row
  BY <1>1, <1>3, <1>4, <1>5 DEF Written, Row
<1> QED
  BY <1>5, <1>6, <1>7 DEF a

(* A new id is new.                                                        *)
LEMMA NewIdIsNew ==
    ASSUME TypeOK, DrawnIds, NEW k \in Calls
    PROVE  NewId(k) \notin DOMAIN rows
<1>1. runs[k] \in Nat
  BY DEF TypeOK
<1>2. runs[k] + 1 \in Nat \ {0} /\ ~(runs[k] + 1 <= runs[k])
  BY <1>1
<1> QED
  BY <1>2 DEF DrawnIds, NewId

LEMMA TableKeeps ==
    ASSUME IInv, NEW k \in Calls, NEW i, Writes(k, i),
           promise[k] # "unmade", ask' = ask, at' = at
    PROVE  KeysAreUnique' /\ MadeAsAsked'
<1> DEFINE r == k[1]
           a == ask[r]
           w == Written(r, a, i)
<1> USE DEF IInv
<1>1. r \in Requests /\ at[r] # "new" /\ r # None
  BY CallsOfRequests, ExecutedHasBegun, GatewayAssumption
<1>2. /\ w \in Row
      /\ DOMAIN rows' = DOMAIN rows \union {i}
      /\ rows'[i] = w
      /\ \A j \in DOMAIN rows : j # i => rows'[j] = rows[j]
  <2>1. Change(k, i)
    BY DEF Writes
  <2>2. Written(k[1], ask[k[1]], i) \in Row
    BY WritesRow
  <2>3. /\ DOMAIN rows' = DOMAIN rows \union {i}
        /\ rows'[i] = Written(k[1], ask[k[1]], i)
        /\ \A j \in DOMAIN rows : j # i => rows'[j] = rows[j]
    BY <2>1 DEF Change
  <2> QED
    BY <2>2, <2>3
<1>3. \/ a.op = "create" /\ Free(a.key, i)
      \/ a.op = "update" /\ i \in Live /\ Free(a.key, i)
      \/ a.op = "delete" /\ i \in Live
  BY DEF Writes
<1>4. /\ w.by = r
      /\ a.op = "create" => w.maker = r
      /\ a.op # "create" => w.maker = rows[i].maker
      /\ a.op # "delete" => w.key = a.key
      /\ a.op = "delete" => ~w.live
  BY <1>3 DEF Written
<1> HIDE DEF w, a
<1>6. a.op = "create" => i \notin DOMAIN rows
  BY NewIdIsNew DEF Writes, a, r
<1>7. \A j \in DOMAIN rows' : j # i => j \in DOMAIN rows /\ rows'[j] = rows[j]
  BY <1>2
<1>8. KeysAreUnique'
  <2>1. \A j \in Live' : j # i => j \in Live /\ rows'[j].key = rows[j].key
    BY <1>7 DEF Live
  <2>2. i \in Live' => \A j \in Live' : j # i => rows'[j].key # w.key
    <3>1. i \in Live' => a.op # "delete"
      BY <1>2, <1>4 DEF Live
    <3>2. CASE a.op = "create"
      BY <1>2, <1>3, <1>4, <2>1, <3>2 DEF Free
    <3>3. CASE a.op = "update"
      BY <1>2, <1>3, <1>4, <2>1, <3>3 DEF Free
    <3> QED
      BY <1>3, <3>1, <3>2, <3>3
  <2> QED
    BY <1>2, <2>1, <2>2 DEF KeysAreUnique
<1>9. MadeAsAsked'
  <2>1. \A j \in DOMAIN rows' : j # i =>
          (rows'[j].maker # None =>
             /\ at'[rows'[j].maker] # "new"
             /\ ask'[rows'[j].maker].op = "create"
             /\ rows'[j].by = rows'[j].maker => rows'[j].key = ask'[rows'[j].maker].key)
    BY <1>7 DEF MadeAsAsked
  <2>2. CASE a.op = "create"
    BY <1>1, <1>2, <1>4, <2>1, <2>2 DEF MadeAsAsked, a
  <2>3. CASE a.op # "create"
    <3>1. i \in DOMAIN rows
      BY <1>3, <2>3 DEF Live
    <3>2. rows[i].maker # r \/ rows[i].maker = None
      BY <2>3, <3>1 DEF MadeAsAsked, a
    <3> QED
      BY <1>1, <1>2, <1>4, <2>1, <2>3, <3>1, <3>2 DEF MadeAsAsked
  <2> QED
    BY <2>2, <2>3
<1> QED
  BY <1>8, <1>9

LEMMA HandleKeeps ==
    ASSUME IInv, NEW k \in Calls, Handle(k),
           message[k] = "queued", message' \in [Calls -> Messages],
           \A j \in Calls : j # k => message'[j] = message[j],
           failures' \in 0 .. MaxFailures
    PROVE  IInv'
<1> USE DEF IInv
<1>1. /\ Rpc!Execute(k)
      /\ executed' = [executed EXCEPT ![k[1]] = @ + 1]
      /\ UNCHANGED <<at, ask, tries, answer, timedOut, before>>
  BY DEF Handle, gateway
<1>2. /\ promise[k] # "unmade" /\ promise' = promise
      /\ runs' \in [Calls -> Nat] /\ runs'[k] = runs[k] + 1
      /\ \A j \in Calls : j # k => runs'[j] = runs[j]
  BY <1>1, RunAt DEF TypeOK
<1>3. k[1] \in Requests
  BY CallsOfRequests
<1>4. /\ executed' \in [Requests -> Nat] /\ executed'[k[1]] = executed[k[1]] + 1
      /\ \A q \in Requests : q # k[1] => executed'[q] = executed[q]
  BY <1>1, <1>3, ExecutedAt DEF TypeOK
<1>5. /\ changed \subseteq changed' /\ changed' \subseteq changed \union {k}
      /\ \E result \in {"ok", "error"} :
            /\ Reply(k, result)
            /\ result = "ok" /\ ask[k[1]].op # "read" => k \in changed'
            /\ result = "error" => changed' = changed
  <2>1. CASE Unwritten(k)
    BY <2>1 DEF Unwritten
  <2>2. ASSUME NEW i, Writes(k, i) PROVE Reply(k, "ok") /\ changed' = changed \union {k}
    BY <2>2 DEF Writes, Change
  <2> QED
    BY <2>1, <2>2, HandleOutcomes
<1>6. PICK result \in {"ok", "error"} :
         /\ Reply(k, result)
         /\ result = "ok" /\ ask[k[1]].op # "read" => k \in changed'
         /\ result = "error" => changed' = changed
  BY <1>5
<1>7. /\ replies' \in [Calls -> SUBSET {"ok", "error"}]
      /\ replies[k] \subseteq replies'[k] /\ replies'[k] \subseteq replies[k] \union {result}
      /\ \A j \in Calls : j # k => replies'[j] = replies[j]
  BY <1>6, ReplyAt DEF TypeOK
<1>8. runs[k] \in Nat /\ runs'[k] > 0 /\ (runs[k] > 0 => runs'[k] > 1)
  BY <1>2 DEF TypeOK
<1>9. DOMAIN rows' \subseteq Ids /\ rows' \in [DOMAIN rows' -> Row]
  <2>1. CASE Unwritten(k)
    BY <2>1 DEF Unwritten, TypeOK
  <2>2. ASSUME NEW i, Writes(k, i)
        PROVE  DOMAIN rows' \subseteq Ids /\ rows' \in [DOMAIN rows' -> Row]
    <3>1. i \in Ids /\ Written(k[1], ask[k[1]], i) \in Row
      BY <2>2, WritesRow
    <3> DEFINE w == Written(k[1], ask[k[1]], i)
    <3>2. rows' = [j \in DOMAIN rows \union {i} |-> IF j = i THEN w ELSE rows[j]]
      BY <2>2 DEF Writes, Change
    <3>3. w \in Row
      BY <3>1
    <3> HIDE DEF w
    <3> QED
      BY <3>1, <3>2, <3>3 DEF TypeOK
  <2> QED
    BY <2>1, <2>2, HandleOutcomes
<1>10. TypeOK'
  <2>1. changed' \subseteq Calls
    BY <1>5 DEF TypeOK
  <2> QED
    BY <1>1, <1>2, <1>4, <1>7, <1>9, <2>1 DEF TypeOK
<1>11. Phases' /\ Past'
  BY <1>1, <1>2 DEF Phases, PhaseOf, Call, Past
<1>12. Work'
  <2>1. executed'[k[1]] > 0 /\ \A q \in Requests : executed[q] > 0 => executed'[q] > 0
    BY <1>3, <1>4 DEF TypeOK
  <2>2. \A j \in Calls : j[1] \in Requests
    BY CallsOfRequests
  <2> QED
    BY <1>1, <1>2, <1>5, <1>7, <1>8, <2>1, <2>2 DEF Work
<1>13. Outcome'
  <2>1. \A j \in Calls : j # k =>
          /\ replies'[j] = replies[j] /\ runs'[j] = runs[j]
          /\ j \in changed' <=> j \in changed
    BY <1>2, <1>5, <1>7
  <2>2. /\ "ok" \in replies'[k] /\ ask[k[1]].op # "read" => k \in changed'
        /\ promise[k] = "resolved" /\ ask[k[1]].op # "read" => k \in changed'
    BY <1>5, <1>6, <1>7 DEF Outcome
  <2>3. k \in changed' /\ "error" \in replies'[k] => runs'[k] > 1
    BY <1>5, <1>6, <1>7, <1>8 DEF Work
  <2>4. k \in changed' /\ promise[k] = "rejected" => k \in timedOut \/ runs'[k] > 1
    BY <1>8 DEF Work
  <2> QED
    BY <1>1, <1>2, <2>1, <2>2, <2>3, <2>4 DEF Outcome
<1>14. DrawnIds'
  <2> SUFFICES ASSUME NEW j \in Calls, NEW n \in Nat \ {0}, <<j, n>> \in DOMAIN rows'
               PROVE  n <= runs'[j]
    BY DEF DrawnIds
  <2>1. <<j, n>> \in DOMAIN rows \/ <<j, n>> = NewId(k)
    <3>1. CASE Unwritten(k)
      BY <3>1 DEF Unwritten
    <3>2. ASSUME NEW i, Writes(k, i)
          PROVE  <<j, n>> \in DOMAIN rows \/ <<j, n>> = NewId(k)
      <4>1. DOMAIN rows' = DOMAIN rows \union {i}
        BY <3>2 DEF Writes, Change
      <4> QED
        BY <3>2, <4>1 DEF Writes, Live
    <3> QED
      BY <3>1, <3>2, HandleOutcomes
  <2>2. runs[j] \in Nat /\ runs[j] <= runs'[j]
    BY <1>2 DEF TypeOK
  <2>3. CASE <<j, n>> \in DOMAIN rows
    <3>1. n <= runs[j]
      BY <2>3 DEF DrawnIds
    <3>2. runs'[j] \in Nat
      BY <1>2
    <3> QED
      BY <2>2, <3>1, <3>2
  <2>4. CASE <<j, n>> = NewId(k)
    <3>1. j = k /\ n = runs[k] + 1
      BY <2>4 DEF NewId
    <3> QED
      BY <1>2, <1>8, <3>1
  <2> QED
    BY <2>1, <2>3, <2>4
<1>15. KeysAreUnique' /\ MadeAsAsked'
  <2>1. CASE Unwritten(k)
    BY <1>1, <2>1 DEF Unwritten, KeysAreUnique, MadeAsAsked, Live
  <2>2. ASSUME NEW i, Writes(k, i) PROVE KeysAreUnique' /\ MadeAsAsked'
    BY <1>1, <1>2, <2>2, TableKeeps
  <2> QED
    BY <2>1, <2>2, HandleOutcomes
<1> QED
  BY <1>10, <1>11, <1>12, <1>13, <1>14, <1>15

LEMMA ExecuteKeeps ==
    ASSUME IInv, NEW k \in Calls, Execute(k)
    PROVE  IInv'
<1>1. Handle(k) /\ message' = [message EXCEPT ![k] = "acked"] /\ failures' = failures
  BY DEF Execute
<1>2. message[k] = "queued"
  BY <1>1 DEF Handle
<1>3. /\ message' \in [Calls -> Messages] /\ failures' \in 0 .. MaxFailures
      /\ \A j \in Calls : j # k => message'[j] = message[j]
  BY <1>1 DEF IInv, TypeOK, Messages
<1> QED
  BY <1>1, <1>2, <1>3, HandleKeeps

LEMMA ExecuteAndCrashKeeps ==
    ASSUME IInv, NEW k \in Calls, ExecuteAndCrash(k)
    PROVE  IInv'
<1>1. Handle(k) /\ message' = message /\ message[k] = "queued"
  BY DEF ExecuteAndCrash, Handle
<1>2. failures' \in 0 .. MaxFailures /\ message \in [Calls -> Messages]
  BY FailCounts DEF ExecuteAndCrash, IInv, TypeOK
<1> QED
  BY <1>1, <1>2, HandleKeeps

LEMMA NextIInv == IInv /\ [Next]_vars => IInv'
<1> SUFFICES ASSUME IInv, [Next]_vars PROVE IInv'
  OBVIOUS
<1>1. CASE UNCHANGED vars
  <2>1. UNCHANGED <<promise, runs, at, ask, tries, answer, timedOut, before,
                    message, replies, rows, changed, executed, failures>>
    BY <1>1 DEF vars, rpc, gateway, catalog
  <2>2. TypeOK'
    BY <2>1 DEF IInv, TypeOK
  <2>3. Phases' /\ Work' /\ Outcome' /\ DrawnIds'
    BY <2>1 DEF IInv, Phases, PhaseOf, Call, Work, Outcome, DrawnIds
  <2>4. KeysAreUnique' /\ MadeAsAsked' /\ Past'
    BY <2>1 DEF IInv, KeysAreUnique, MadeAsAsked, Past, Live
  <2> QED
    BY <2>2, <2>3, <2>4 DEF IInv
<1>2. CASE \E r \in Requests :
             Request(r) \/ Invalid(r) \/ Resolved(r) \/ Refused(r) \/ TimesOut(r) \/ Retry(r)
  BY <1>2, RequestKeeps, InvalidKeeps, ResolvedKeeps, RefusedKeeps, TimesOutKeeps, RetryKeeps
<1>3. CASE \E k \in Calls : Execute(k) \/ ExecuteAndCrash(k)
  BY <1>3, ExecuteKeeps, ExecuteAndCrashKeeps
<1>4. CASE \E S \in SUBSET Requests : GatewayCrash(S)
  BY <1>4, GatewayCrashKeeps
<1> QED
  BY <1>1, <1>2, <1>3, <1>4 DEF Next

(* The invariant holds in every reachable state.                           *)
THEOREM Invariance == Spec => []IInv
  BY InitIInv, NextIInv, PTL DEF Spec

-----------------------------------------------------------------------------
(* What follows of the state.                                              *)

(* Every variable of the gateway and the catalog keeps to its type.        *)
THEOREM TypeCorrect == Spec => []TypeOK
  BY Invariance, PTL DEF IInv

LEMMA OkIsEffect == IInv => OkTookEffect
  BY CallTyped DEF IInv, OkTookEffect, Phases, PhaseOf, Outcome

LEMMA FailureIsTrue == IInv => FailureIsTruthful
<1> SUFFICES ASSUME IInv, NEW r \in Requests, answer[r] \in {"refused", "unavailable"},
                    NEW n \in 0 .. Retries, <<r, n>> \in changed
             PROVE  Late(r)
  BY DEF FailureIsTruthful
<1>1. <<r, n>> \in Calls
  BY CallsOfRequests
<1>2. promise[<<r, n>>] = "rejected"
  <2>1. promise[<<r, n>>] # "unmade"
    <3>1. runs[<<r, n>>] > 0 /\ ~(0 > 0)
      BY <1>1 DEF IInv, Work
    <3> QED
      BY <1>1, <3>1 DEF IInv, Work
  <2>2. n < tries[r] \/ n = tries[r] \/ n > tries[r]
    BY DEF IInv, TypeOK
  <2> QED
    BY <2>1, <2>2 DEF IInv, Phases, PhaseOf, Call
<1> QED
  BY <1>1, <1>2 DEF IInv, Outcome, Late

LEMMA TwinsDiffer == IInv => NoTwins
  BY DEF IInv, NoTwins, MadeAsAsked, KeysAreUnique, Live

(* A 200 or a 201 for a write means that the attempt it answers changed    *)
(* the table.                                                              *)
THEOREM OkIsAnEffect == Spec => []OkTookEffect
  BY Invariance, OkIsEffect, PTL

(* A 500 for a write that has taken effect means that an attempt timed out *)
(* or was executed twice.                                                  *)
THEOREM FailuresAreTrue == Spec => []FailureIsTruthful
  BY Invariance, FailureIsTrue, PTL

(* Of the rows one create has made, at most one is as it made it.          *)
THEOREM NothingIsCreatedTwice == Spec => []NoTwins
  BY Invariance, TwinsDiffer, PTL

-----------------------------------------------------------------------------
(* What follows of the steps.                                              *)

(* Only executions write the table, and each writes one row.               *)
LEMMA OneRowWritten ==
    ASSUME IInv, [Next]_vars
    PROVE  \/ rows' = rows
           \/ \E k \in Calls : \E i : Writes(k, i) /\ Handle(k)
<1>1. CASE UNCHANGED vars
  BY <1>1 DEF vars, catalog
<1>2. CASE \E r \in Requests :
             Request(r) \/ Invalid(r) \/ Resolved(r) \/ Refused(r) \/ TimesOut(r) \/ Retry(r)
  BY <1>2 DEF Request, Invalid, Resolved, Refused, TimesOut, Failed, Retry, catalog
<1>3. ASSUME NEW k \in Calls, Handle(k)
      PROVE  \/ rows' = rows
             \/ \E j \in Calls : \E i : Writes(j, i) /\ Handle(j)
  BY <1>3, HandleOutcomes DEF Unwritten
<1>4. CASE \E S \in SUBSET Requests : GatewayCrash(S)
  BY <1>4 DEF GatewayCrash, catalog
<1> QED
  BY <1>1, <1>2, <1>3, <1>4 DEF Next, Execute, ExecuteAndCrash

LEMMA WritesOneRow ==
    ASSUME IInv, NEW k \in Calls, NEW i, Writes(k, i)
    PROVE  /\ DOMAIN rows' = DOMAIN rows \union {i}
           /\ rows'[i].by = k[1]
           /\ \A j \in DOMAIN rows : j # i => rows'[j] = rows[j]
           /\ i \in DOMAIN rows => rows[i].live
<1>1. rows' = [j \in DOMAIN rows \union {i} |->
                 IF j = i THEN Written(k[1], ask[k[1]], i) ELSE rows[j]]
  BY DEF Writes, Change
<1>2. Written(k[1], ask[k[1]], i).by = k[1]
  BY DEF Written
<1>3. i \in DOMAIN rows => i \in Live
  BY NewIdIsNew DEF IInv, Writes
<1> QED
  BY <1>1, <1>2, <1>3 DEF Live

(* A row that was made was made by an execution of a call of its maker.    *)
Drawn == \A i \in DOMAIN rows : rows[i].maker # None =>
            \E k \in changed : k[1] = rows[i].maker /\ \E n \in Nat \ {0} : i = <<k, n>>

LEMMA ChangedGrows ==
    ASSUME IInv, [Next]_vars PROVE changed \subseteq changed'
<1>1. ASSUME NEW k \in Calls, Handle(k) PROVE changed \subseteq changed'
  BY <1>1, HandleOutcomes DEF Unwritten, Writes, Change
<1>2. CASE UNCHANGED vars
  BY <1>2 DEF vars, catalog
<1>3. CASE \E r \in Requests :
             Request(r) \/ Invalid(r) \/ Resolved(r) \/ Refused(r) \/ TimesOut(r) \/ Retry(r)
  BY <1>3 DEF Request, Invalid, Resolved, Refused, TimesOut, Failed, Retry, catalog
<1>4. CASE \E S \in SUBSET Requests : GatewayCrash(S)
  BY <1>4 DEF GatewayCrash, catalog
<1> QED
  BY <1>1, <1>2, <1>3, <1>4 DEF Next, Execute, ExecuteAndCrash

LEMMA DrawnStep ==
    ASSUME IInv, Drawn, [Next]_vars PROVE Drawn'
<1>1. changed \subseteq changed'
  BY ChangedGrows
<1>2. CASE rows' = rows
  BY <1>1, <1>2 DEF Drawn
<1>3. ASSUME NEW k \in Calls, NEW j, Writes(k, j) PROVE Drawn'
  <2>1. /\ DOMAIN rows' = DOMAIN rows \union {j}
        /\ \A i \in DOMAIN rows : i # j => rows'[i] = rows[i]
    BY <1>3, WritesOneRow
  <2>2. rows'[j] = Written(k[1], ask[k[1]], j) /\ k \in changed'
    BY <1>3 DEF Writes, Change
  <2>3. CASE ask[k[1]].op = "create"
    <3>1. j = <<k, runs[k] + 1>> /\ runs[k] + 1 \in Nat \ {0}
      BY <1>3, <2>3 DEF Writes, NewId, IInv, TypeOK
    <3>2. rows'[j].maker = k[1]
      BY <2>2, <2>3 DEF Written
    <3> QED
      BY <1>1, <2>1, <2>2, <3>1, <3>2 DEF Drawn
  <2>4. CASE ask[k[1]].op # "create"
    <3>1. j \in DOMAIN rows /\ rows'[j].maker = rows[j].maker
      BY <1>3, <2>2, <2>4 DEF Writes, Written, Live
    <3> QED
      BY <1>1, <2>1, <3>1 DEF Drawn
  <2> QED
    BY <2>3, <2>4
<1> QED
  BY <1>2, <1>3, OneRowWritten

(* Two calls of one request that both took effect, or one that did twice.  *)
LEMMA SecondIsLate ==
    ASSUME IInv, Drawn PROVE MadeTwiceOnlyIfLate
<1> SUFFICES ASSUME NEW i \in DOMAIN rows, NEW j \in DOMAIN rows, i # j,
                    rows[i].maker = rows[j].maker, rows[i].maker # None
             PROVE  Late(rows[i].maker)
  BY DEF MadeTwiceOnlyIfLate
<1>1. PICK k \in changed, m \in Nat \ {0} : k[1] = rows[i].maker /\ i = <<k, m>>
  BY DEF Drawn
<1>2. PICK l \in changed, n \in Nat \ {0} : l[1] = rows[i].maker /\ j = <<l, n>>
  BY DEF Drawn
<1>3. k \in Calls /\ l \in Calls
  BY DEF IInv, TypeOK
<1> DEFINE r == k[1]
<1>4. /\ r \in Requests /\ k[2] \in 0 .. Retries /\ l[2] \in 0 .. Retries
      /\ k = <<r, k[2]>> /\ l = <<r, l[2]>>
  BY <1>1, <1>2, <1>3, CallsOfRequests
<1> HIDE DEF r
<1>5. CASE k = l
  <2>1. m # n /\ m <= runs[k] /\ n <= runs[k] /\ runs[k] \in Nat
    BY <1>1, <1>2, <1>3, <1>5 DEF IInv, TypeOK, DrawnIds
  <2>2. runs[k] > 1
    BY <2>1
  <2> QED
    BY <1>1, <1>4, <2>2 DEF Late, r
<1>6. \A c, d \in {k[2], l[2]} : c < d => Late(r)
  <2> SUFFICES ASSUME NEW c \in {k[2], l[2]}, NEW d \in {k[2], l[2]}, c < d PROVE Late(r)
    OBVIOUS
  <2>1. <<r, c>> \in changed /\ <<r, d>> \in changed /\ c \in 0 .. Retries /\ d \in 0 .. Retries
    BY <1>4
  <2>2. <<r, c>> \in Calls /\ <<r, d>> \in Calls
    BY <1>4, <2>1, CallsOfRequests
  <2>3. promise[<<r, d>>] # "unmade"
    <3>1. runs[<<r, d>>] > 0 /\ ~(0 > 0)
      BY <2>1, <2>2 DEF IInv, Work
    <3> QED
      BY <2>2, <3>1 DEF IInv, Work
  <2>4. c < tries[r]
    <3>1. tries[r] \in Nat /\ ~(d > tries[r])
      BY <1>4, <2>1, <2>3 DEF IInv, TypeOK, Phases, PhaseOf
    <3> QED
      BY <2>1, <3>1
  <2>5. promise[<<r, c>>] = "rejected"
    BY <1>4, <2>1, <2>4 DEF IInv, Phases, PhaseOf
  <2> QED
    BY <2>1, <2>2, <2>5 DEF IInv, Outcome, Late
<1>7. CASE k # l
  <2>1. k[2] # l[2]
    BY <1>4, <1>7
  <2>2. k[2] < l[2] \/ l[2] < k[2]
    BY <1>4, <2>1
  <2> QED
    BY <1>1, <1>6, <2>2 DEF r
<1> QED
  BY <1>5, <1>7

(* A create makes a second row, of a deleted product too, only when a call *)
(* of it timed out or was executed twice.                                  *)
THEOREM SecondRowsAreLate == Spec => []MadeTwiceOnlyIfLate
<1>1. Init => Drawn
  BY DEF Init, Drawn
<1>2. IInv /\ Drawn /\ [Next]_vars => Drawn'
  BY DrawnStep
<1>3. IInv /\ Drawn => MadeTwiceOnlyIfLate
  BY SecondIsLate
<1> QED
  BY <1>1, <1>2, <1>3, Invariance, PTL DEF Spec

LEMMA OldWriterIsLate ==
    ASSUME IInv, NEW k \in Calls, Handle(k), at[k[1]] = "answered"
    PROVE  Late(k[1])'
<1>1. /\ promise[k] # "unmade" /\ runs'[k] = runs[k] + 1 /\ timedOut' = timedOut
  BY RunAt DEF Handle, gateway, IInv, TypeOK
<1>2. k[1] \in Requests /\ k[2] \in 0 .. Retries /\ k = <<k[1], k[2]>>
  BY CallsOfRequests
<1>3. promise[k] \in {"resolved", "rejected"}
  <2>1. answer[k[1]] \in {"ok", "refused", "unavailable"}
    <3>1. answer[k[1]] \in Answers /\ answer[k[1]] # "none"
      BY <1>2 DEF IInv, TypeOK, Phases, PhaseOf
    <3> QED
      BY <1>1, <3>1, ExecutedHasBegun DEF IInv, Answers
  <2>2. promise[Call(k[1])] \in {"resolved", "rejected"}
    BY <1>2, <2>1 DEF IInv, Phases, PhaseOf
  <2>3. k[2] < tries[k[1]] \/ k[2] = tries[k[1]] \/ k[2] > tries[k[1]]
    BY <1>2 DEF IInv, TypeOK
  <2>4. CASE k[2] = tries[k[1]]
    BY <1>2, <2>2, <2>4 DEF Call
  <2> QED
    BY <1>1, <1>2, <2>3, <2>4 DEF IInv, Phases, PhaseOf
<1>4. runs'[k] > 1 \/ k \in timedOut'
  <2>1. runs[k] > 0 \/ k \in timedOut
    BY <1>3 DEF IInv, Work
  <2>2. runs[k] \in Nat
    BY DEF IInv, TypeOK
  <2> QED
    BY <1>1, <2>1, <2>2
<1> QED
  BY <1>2, <1>4 DEF Late

(* A request that was answered before another began overwrites what that   *)
(* one wrote only if it timed out or was executed twice.                   *)
THEOREM OldWritesAreLate == Spec => OldWritesOnlyIfLate
<1>1. ASSUME IInv, [Next]_vars, NEW i \in DOMAIN rows, NEW u \in Requests,
             rows'[i] # rows[i], rows'[i].by = u, rows[i].by # None,
             u \in before[rows[i].by]
      PROVE  Late(u)'
  <2>1. PICK k \in Calls : \E j : Writes(k, j) /\ Handle(k)
    BY <1>1, OneRowWritten
  <2>2. PICK j : Writes(k, j) /\ Handle(k)
    BY <2>1
  <2>3. k[1] = u
    BY <1>1, <2>2, WritesOneRow
  <2>4. rows[i].by \in Requests
    BY <1>1 DEF IInv, TypeOK, Row
  <2>5. at[u] = "answered"
    BY <1>1, <2>4 DEF IInv, Past
  <2> QED
    BY <1>1, <2>2, <2>3, <2>5, OldWriterIsLate
<1>2. ASSUME IInv, [Next]_vars
      PROVE  \A i \in DOMAIN rows, u \in Requests :
                /\ rows'[i] # rows[i] /\ rows'[i].by = u
                /\ rows[i].by # None
                => (u \in before[rows[i].by] => Late(u)')
  BY <1>1, <1>2
<1> QED
  BY <1>2, Invariance, PTL DEF Spec, OldWritesOnlyIfLate

-----------------------------------------------------------------------------
(* The refinement: a request with its retries is one RPC.                  *)

Promised == [r \in Requests |-> PromiseOf(r)]

LEMMA PromisedIs ==
    ASSUME NEW q \in Requests
    PROVE  Promised[q] = PromiseOf(q) /\ Promised'[q] = PromiseOf(q)'
  BY DEF Promised

(* A step about one request changes the promise of that one alone.         *)
LEMMA OnePromise ==
    ASSUME NEW r \in Requests,
           \A q \in Requests : q # r => at'[q] = at[q] /\ answer'[q] = answer[q]
    PROVE  Promised' = [Promised EXCEPT ![r] = PromiseOf(r)']
<1>1. \A q \in Requests : q # r => PromiseOf(q)' = PromiseOf(q)
  BY DEF PromiseOf
<1> QED
  BY <1>1 DEF Promised

LEMMA SamePromises == ASSUME at' = at, answer' = answer PROVE Promised' = Promised
  BY DEF Promised, PromiseOf

LEMMA StepIsRpcStep ==
    ASSUME IInv, [Next]_vars
    PROVE  [Once!Next]_<<Promised, executed>>
<1> USE DEF IInv
<1>1. CASE UNCHANGED vars
  BY <1>1, SamePromises DEF vars, gateway, catalog
<1>2. ASSUME NEW r \in Requests, Request(r) PROVE Once!Make(r)
  <2>1. PromiseOf(r) = "unmade" /\ PromiseOf(r)' = "pending" /\ executed' = executed
    BY <1>2 DEF Request, PromiseOf, TypeOK
  <2>2. Promised' = [Promised EXCEPT ![r] = "pending"]
    BY <1>2, <2>1, OnePromise DEF Request, TypeOK
  <2> QED
    BY <2>1, <2>2, PromisedIs DEF Once!Make, Once!Become, Promised
<1>3. ASSUME NEW r \in Requests, Invalid(r) PROVE UNCHANGED <<Promised, executed>>
  <2>1. PromiseOf(r) = "unmade" /\ PromiseOf(r)' = "unmade" /\ executed' = executed
    BY <1>3 DEF Invalid, Answer, PromiseOf, TypeOK, catalog
  <2>2. Promised' = [Promised EXCEPT ![r] = "unmade"]
    BY <1>3, <2>1, OnePromise DEF Invalid, Answer, TypeOK
  <2> QED
    BY <2>1, <2>2, PromisedIs DEF Promised
<1>4. ASSUME NEW r \in Requests, Resolved(r) PROVE Once!Resolve(r)
  <2>1. PromiseOf(r) = "pending" /\ PromiseOf(r)' = "resolved" /\ executed' = executed
    BY <1>4 DEF Resolved, Answer, PromiseOf, TypeOK
  <2>2. Promised' = [Promised EXCEPT ![r] = "resolved"]
    BY <1>4, <2>1, OnePromise DEF Resolved, Answer, TypeOK
  <2>3. executed[r] > 0
    BY <1>4, CallTyped DEF Resolved, Work
  <2> QED
    BY <2>1, <2>2, <2>3, PromisedIs DEF Once!Resolve, Once!Become, Promised
<1>5. ASSUME NEW r \in Requests, NEW how, Failed(r, how)
      PROVE  Once!Reject(r) \/ UNCHANGED <<Promised, executed>>
  <2>1. PromiseOf(r) = "pending" /\ executed' = executed
    BY <1>5 DEF Failed, PromiseOf
  <2>2. CASE at' = [at EXCEPT ![r] = "pausing"] /\ answer' = answer
    <3>1. PromiseOf(r)' = "pending"
      BY <2>2 DEF PromiseOf, TypeOK
    <3>2. Promised' = [Promised EXCEPT ![r] = "pending"]
      BY <2>2, <3>1, OnePromise DEF TypeOK
    <3> QED
      BY <2>1, <3>2, PromisedIs DEF Promised
  <2>3. CASE Answer(r, Failure(r, how))
    <3>1. PromiseOf(r)' = "rejected"
      BY <2>3 DEF Answer, Failure, PromiseOf, TypeOK
    <3>2. Promised' = [Promised EXCEPT ![r] = "rejected"]
      BY <2>3, <3>1, OnePromise DEF Answer, TypeOK
    <3> QED
      BY <2>1, <3>2, PromisedIs DEF Once!Reject, Once!Become, Promised
  <2> QED
    BY <1>5, <2>2, <2>3 DEF Failed
<1>6. ASSUME NEW r \in Requests, Retry(r) PROVE UNCHANGED <<Promised, executed>>
  <2>1. PromiseOf(r) = "pending" /\ PromiseOf(r)' = "pending" /\ executed' = executed
    BY <1>6 DEF Retry, PromiseOf, TypeOK
  <2>2. Promised' = [Promised EXCEPT ![r] = "pending"]
    BY <1>6, <2>1, OnePromise DEF Retry, TypeOK
  <2> QED
    BY <2>1, <2>2, PromisedIs DEF Promised
<1>7. ASSUME NEW k \in Calls, Handle(k) PROVE \E r \in Requests : Once!Execute(r)
  <2>1. k[1] \in Requests /\ promise[k] # "unmade"
    BY <1>7, CallsOfRequests, RunAt DEF Handle, TypeOK
  <2>2. Promised' = Promised /\ executed' = [executed EXCEPT ![k[1]] = @ + 1]
    BY <1>7, SamePromises DEF Handle, gateway
  <2>3. at[k[1]] # "new" /\ answer[k[1]] # "invalid"
    BY <2>1, ExecutedHasBegun
  <2>4. PromiseOf(k[1]) # "unmade"
    BY <2>3 DEF PromiseOf
  <2> QED
    BY <2>1, <2>2, <2>4, PromisedIs DEF Once!Execute, Promised
<1>8. ASSUME NEW S \in SUBSET Requests, GatewayCrash(S)
      PROVE  \E K \in SUBSET Requests : Once!Abandon(K)
  <2>1. /\ executed' = executed /\ answer' = answer
        /\ at' = [r \in Requests |-> IF r \in S THEN "lost" ELSE at[r]]
        /\ \A r \in S : at[r] \in {"calling", "pausing"}
    BY <1>8 DEF GatewayCrash, Active, catalog
  <2>2. \A r \in S : PromiseOf(r) = "pending" /\ PromiseOf(r)' = "lost"
    BY <2>1 DEF PromiseOf
  <2>3. \A r \in Requests \ S : PromiseOf(r)' = PromiseOf(r)
    BY <2>1 DEF PromiseOf
  <2>4. Promised' = [r \in Requests |-> IF r \in S THEN "lost" ELSE Promised[r]]
    BY <2>2, <2>3 DEF Promised
  <2> QED
    BY <2>1, <2>2, <2>4, PromisedIs DEF Once!Abandon, Promised
<1>9. CASE \E r \in Requests :
             Request(r) \/ Invalid(r) \/ Resolved(r) \/ Refused(r) \/ TimesOut(r) \/ Retry(r)
  BY <1>9, <1>2, <1>3, <1>4, <1>5, <1>6 DEF Refused, TimesOut, Once!Next
<1>10. CASE \E k \in Calls : Execute(k) \/ ExecuteAndCrash(k)
  BY <1>10, <1>7 DEF Execute, ExecuteAndCrash, Once!Next
<1>11. CASE \E S \in SUBSET Requests : GatewayCrash(S)
  BY <1>11, <1>8 DEF Once!Next
<1> QED
  BY <1>1, <1>9, <1>10, <1>11 DEF Next

(* A request, retried or not, is promised exactly what one RPC is.         *)
THEOREM RetriesAreRpcs == Spec => RetryIsAnRpc
<1>1. Init => Once!Init
  BY DEF Init, Once!Init, PromiseOf
<1>2. IInv /\ [Next]_vars => [Once!Next]_<<Promised, executed>>
  BY StepIsRpcStep
<1> QED
  BY <1>1, <1>2, Invariance, PTL DEF Spec, RetryIsAnRpc, Once!Spec, Promised
=============================================================================
