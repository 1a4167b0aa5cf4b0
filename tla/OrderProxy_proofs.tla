-------------------------- MODULE OrderProxy_proofs --------------------------
(***************************************************************************)
(* Proofs about OrderProxy: its types, how stale an address can be that a  *)
(* request is sent to, that a request is handled at most once, and that    *)
(* its client is told what became of it.                                   *)
(***************************************************************************)
EXTENDS OrderProxy, TLAPS

(* The clock is never behind what was noted of it, and a lookup is over    *)
(* when its timeout is.                                                    *)
TimesOK ==
    /\ \A r \in Requests : asked[r] <= now
    /\ \A i \in Instances : lastListed[i] <= now
    /\ \A r \in Requests : at[r] \in {"looking", "found"} => now <= asked[r] + LookupTimeout

(* What is cached was listed when its life began, or since; what a lookup  *)
(* was answered with was listed when it was asked, or since.               *)
KnownOK ==
    /\ \A i \in cache.targets : cache.expiresAt <= LastListed(i) + TTL
    /\ \A r \in Requests : at[r] = "found" => \A i \in found[r] : asked[r] <= LastListed(i)

(* Where a request stands with the gateway, where it stands with the       *)
(* instance, how often it was served and what was answered, side by side.  *)
Settled(r) ==
    \/ /\ at[r] \in {"new", "looking", "found"} /\ reply[r] = "none"
       /\ http[r] = "none" /\ work[r] = "none" /\ served[r] = 0
    \/ /\ at[r] = "waiting" /\ reply[r] = "none"
       /\ http[r] = "sent"
       /\ \/ work[r] = "none" /\ served[r] = 0
          \/ work[r] = "doing" /\ served[r] = 1
    \/ /\ \/ at[r] = "waiting" /\ reply[r] = "none"
          \/ at[r] = "answered" /\ reply[r] = "unavailable"
       /\ http[r] = "cut"
       /\ \/ work[r] \in {"none", "lost"} /\ served[r] = 0
          \/ work[r] \in {"doing", "done", "lost"} /\ served[r] = 1
    \/ /\ at[r] = "answered" /\ work[r] = "none" /\ served[r] = 0
       /\ \/ http[r] = "none" /\ reply[r] = "invalid"
          \/ http[r] = "over" /\ reply[r] = "unavailable"
    \/ /\ at[r] = "answered" /\ reply[r] \in {"ok", "failed"}
       /\ http[r] = "over" /\ work[r] = "done" /\ served[r] = 1

SettledOK == \A r \in Requests : Settled(r)

IInv == TypeOK /\ TimesOK /\ KnownOK /\ SettledOK

-----------------------------------------------------------------------------
(* The state stays as it is.                                               *)

LEMMA Stutter ==
  ASSUME IInv, UNCHANGED vars
  PROVE  IInv'
<1> USE DEF vars, cluster, proxy, host, IInv
<1>1. TypeOK'
  BY DEF TypeOK
<1>2. TimesOK'
  BY DEF TimesOK
<1>3. KnownOK'
  BY DEF KnownOK, LastListed
<1>4. SettledOK'
  BY DEF SettledOK, Settled
<1> QED
  BY <1>1, <1>2, <1>3, <1>4

-----------------------------------------------------------------------------
(* What the steps of a request have in common.                             *)

(* A request is sent to an address, and the lookup forgotten.              *)
LEMMA SendKeeps ==
  ASSUME IInv, NEW r \in Requests, NEW from \in {"new", "looking", "found"},
         NEW t \in Instances \union {Fallback}, Send(r, from, t),
         UNCHANGED <<now, cluster>>
  PROVE  /\ at' \in [Requests -> Positions]
         /\ asked' \in [Requests -> 0 .. MaxTime]
         /\ found' \in [Requests -> SUBSET Instances]
         /\ target' \in [Requests -> Instances \union {None, Fallback}]
         /\ http' \in [Requests -> {"none", "sent", "cut", "over"}]
         /\ TimesOK' /\ SettledOK'
         /\ \A q \in Requests :
               at'[q] = "found" => \A i \in found'[q] : asked'[q] <= LastListed(i)'
<1> USE DEF IInv, cluster
<1>1. /\ at \in [Requests -> Positions] /\ asked \in [Requests -> 0 .. MaxTime]
      /\ found \in [Requests -> SUBSET Instances] /\ now \in 0 .. MaxTime
      /\ target \in [Requests -> Instances \union {None, Fallback}]
      /\ http \in [Requests -> {"none", "sent", "cut", "over"}]
      /\ MaxTime \in Nat
  BY ProxyAssumption DEF TypeOK
<1>2. /\ at[r] = from /\ at' = [at EXCEPT ![r] = "waiting"]
      /\ target' = [target EXCEPT ![r] = t] /\ asked' = [asked EXCEPT ![r] = 0]
      /\ found' = [found EXCEPT ![r] = {}] /\ http' = [http EXCEPT ![r] = "sent"]
      /\ UNCHANGED <<work, reply, served>>
  BY DEF Send, Go
<1>3. /\ at' \in [Requests -> Positions]
      /\ asked' \in [Requests -> 0 .. MaxTime]
      /\ found' \in [Requests -> SUBSET Instances]
      /\ target' \in [Requests -> Instances \union {None, Fallback}]
      /\ http' \in [Requests -> {"none", "sent", "cut", "over"}]
  BY <1>1, <1>2 DEF Positions
<1>4. \A q \in Requests :
         /\ q # r => at'[q] = at[q] /\ asked'[q] = asked[q] /\ found'[q] = found[q]
         /\ q = r => at'[q] = "waiting" /\ asked'[q] = 0 /\ found'[q] = {}
  BY <1>1, <1>2
<1>5. TimesOK'
  BY <1>1, <1>4 DEF TimesOK
<1>6. SettledOK'
  <2> SUFFICES ASSUME NEW q \in Requests PROVE Settled(q)'
    BY DEF SettledOK
  <2>1. CASE q # r
    BY <1>1, <1>2, <2>1 DEF SettledOK, Settled
  <2>2. CASE q = r
    BY <1>1, <1>2, <2>2 DEF SettledOK, Settled
  <2> QED
    BY <2>1, <2>2
<1>7. \A q \in Requests :
         at'[q] = "found" => \A i \in found'[q] : asked'[q] <= LastListed(i)'
  BY <1>1, <1>4 DEF KnownOK, LastListed
<1> QED
  BY <1>3, <1>5, <1>6, <1>7

(* A request that finds its address in the cache.                          *)
LEMMA CacheHitKeeps ==
  ASSUME IInv, NEW r \in Requests, CacheHit(r)
  PROVE  IInv'
<1> USE DEF IInv
<1>1. PICK i \in cache.targets : Send(r, "new", i)
  BY DEF CacheHit
<1>2. UNCHANGED <<now, cluster, cache>>
  BY DEF CacheHit
<1>3. i \in Instances \union {Fallback}
  BY DEF TypeOK
<1>4. UNCHANGED <<work, reply, served>>
  BY <1>1 DEF Send
<1>5. TypeOK'
  BY <1>1, <1>2, <1>3, <1>4, SendKeeps DEF TypeOK, cluster
<1>6. TimesOK' /\ SettledOK'
  BY <1>1, <1>2, <1>3, SendKeeps
<1>7. KnownOK'
  <2>1. \A q \in Requests :
           at'[q] = "found" => \A j \in found'[q] : asked'[q] <= LastListed(j)'
    BY <1>1, <1>2, <1>3, SendKeeps
  <2>2. \A j \in cache'.targets : cache'.expiresAt <= LastListed(j)' + TTL
    BY <1>2 DEF KnownOK, LastListed, cluster
  <2> QED
    BY <2>1, <2>2 DEF KnownOK
<1> QED
  BY <1>5, <1>6, <1>7

(* The lookup that failed.                                                 *)
LEMMA LookupFailsKeeps ==
  ASSUME IInv, NEW r \in Requests, LookupFails(r)
  PROVE  IInv'
<1> USE DEF IInv
<1>1. PICK from \in {"looking", "found"} : Send(r, from, Fallback)
  BY DEF LookupFails
<1>2. UNCHANGED <<now, cluster, cache>>
  BY DEF LookupFails
<1>3. Fallback \in Instances \union {Fallback} /\ from \in {"new", "looking", "found"}
  OBVIOUS
<1>4. UNCHANGED <<work, reply, served>>
  BY <1>1 DEF Send
<1>5. TypeOK'
  BY <1>1, <1>2, <1>3, <1>4, SendKeeps DEF TypeOK, cluster
<1>6. TimesOK' /\ SettledOK'
  BY <1>1, <1>2, <1>3, SendKeeps
<1>7. KnownOK'
  <2>1. \A q \in Requests :
           at'[q] = "found" => \A j \in found'[q] : asked'[q] <= LastListed(j)'
    BY <1>1, <1>2, <1>3, SendKeeps
  <2>2. \A j \in cache'.targets : cache'.expiresAt <= LastListed(j)' + TTL
    BY <1>2 DEF KnownOK, LastListed, cluster
  <2> QED
    BY <2>1, <2>2 DEF KnownOK
<1> QED
  BY <1>5, <1>6, <1>7

(* The lookup that was answered: what it found was listed when it was      *)
(* asked, which is when the entry's life begins.                           *)
LEMMA DiscoveredKeeps ==
  ASSUME IInv, NEW r \in Requests, Discovered(r)
  PROVE  IInv'
<1> USE DEF IInv
<1>1. PICK t \in Instances \union {Fallback} : Send(r, "found", t)
  <2>1. CASE \E i \in found[r] : Send(r, "found", i)
    <3>1. found[r] \subseteq Instances
      BY DEF TypeOK
    <3> QED
      BY <2>1, <3>1
  <2>2. CASE Send(r, "found", Fallback)
    BY <2>2
  <2> QED
    BY <2>1, <2>2 DEF Discovered
<1>2. /\ UNCHANGED <<now, cluster>>
      /\ cache' = [expiresAt |-> asked[r] + TTL, targets |-> found[r]]
  BY DEF Discovered, Expiry
<1>3. asked[r] \in Nat /\ TTL \in Nat /\ found[r] \subseteq Instances
  BY ProxyAssumption DEF TypeOK
<1>4. cache' \in [expiresAt : Nat, targets : SUBSET Instances]
  BY <1>2, <1>3
<1>5. UNCHANGED <<work, reply, served>>
  BY <1>1 DEF Send
<1>6. TypeOK'
  BY <1>1, <1>2, <1>4, <1>5, SendKeeps DEF TypeOK, cluster
<1>7. TimesOK' /\ SettledOK'
  BY <1>1, <1>2, SendKeeps
<1>8. KnownOK'
  <2>1. \A q \in Requests :
           at'[q] = "found" => \A j \in found'[q] : asked'[q] <= LastListed(j)'
    BY <1>1, <1>2, SendKeeps
  <2>2. at[r] = "found"
    BY <1>1 DEF Send, Go
  <2>3. \A j \in Instances : LastListed(j)' = LastListed(j) /\ LastListed(j) \in Nat
    BY <1>2, ProxyAssumption DEF LastListed, cluster, TypeOK
  <2>4. \A j \in found[r] : asked[r] <= LastListed(j)
    BY <2>2 DEF KnownOK
  <2>5. \A j \in found[r] : asked[r] + TTL <= LastListed(j)' + TTL
    BY <2>3, <2>4, <1>3
  <2>6. cache'.targets = found[r] /\ cache'.expiresAt = asked[r] + TTL
    BY <1>2
  <2> QED
    BY <2>1, <2>5, <2>6 DEF KnownOK
<1> QED
  BY <1>6, <1>7, <1>8

(* The lookup begins.                                                      *)
LEMMA LookupKeeps ==
  ASSUME IInv, NEW r \in Requests, Lookup(r)
  PROVE  IInv'
<1> USE DEF IInv
<1>1. /\ at[r] = "new" /\ at' = [at EXCEPT ![r] = "looking"]
      /\ asked' = [asked EXCEPT ![r] = now]
      /\ UNCHANGED <<now, cluster, cache, found, target, reply, host>>
  BY DEF Lookup, Go
<1>2. /\ at \in [Requests -> Positions] /\ asked \in [Requests -> 0 .. MaxTime]
      /\ now \in 0 .. MaxTime /\ MaxTime \in Nat /\ LookupTimeout \in Nat
  BY ProxyAssumption DEF TypeOK
<1>3. TypeOK'
  BY <1>1, <1>2 DEF TypeOK, Positions, cluster, host
<1>4. \A q \in Requests :
         /\ q # r => at'[q] = at[q] /\ asked'[q] = asked[q]
         /\ q = r => at'[q] = "looking" /\ asked'[q] = now
  BY <1>1, <1>2
<1>5. TimesOK'
  BY <1>1, <1>2, <1>4 DEF TimesOK, cluster
<1>6. KnownOK'
  <2>1. \A j \in Instances : LastListed(j)' = LastListed(j)
    BY <1>1 DEF LastListed, cluster
  <2>2. cache'.targets \subseteq Instances /\ cache' = cache /\ found' = found
    BY <1>1 DEF TypeOK
  <2>3. \A q \in Requests : found[q] \subseteq Instances
    BY DEF TypeOK
  <2>4. \A q \in Requests : at'[q] = "found" => at[q] = "found" /\ asked'[q] = asked[q]
    BY <1>4
  <2> QED
    BY <2>1, <2>2, <2>3, <2>4 DEF KnownOK
<1>7. SettledOK'
  <2> SUFFICES ASSUME NEW q \in Requests PROVE Settled(q)'
    BY DEF SettledOK
  <2>1. CASE q # r
    BY <1>1, <1>4, <2>1 DEF SettledOK, Settled, host
  <2>2. CASE q = r
    BY <1>1, <1>4, <2>2 DEF SettledOK, Settled, host
  <2> QED
    BY <2>1, <2>2
<1> QED
  BY <1>3, <1>5, <1>6, <1>7

(* Consul answers: what it lists now is listed since it was asked.         *)
LEMMA ConsulAnswersKeeps ==
  ASSUME IInv, NEW r \in Requests, ConsulAnswers(r)
  PROVE  IInv'
<1> USE DEF IInv
<1>1. /\ at[r] = "looking" /\ at' = [at EXCEPT ![r] = "found"]
      /\ found' = [found EXCEPT ![r] = Passing]
      /\ UNCHANGED <<now, cluster, cache, asked, target, reply, host>>
  BY DEF ConsulAnswers, Go
<1>2. /\ at \in [Requests -> Positions] /\ asked \in [Requests -> 0 .. MaxTime]
      /\ found \in [Requests -> SUBSET Instances] /\ Passing \subseteq Instances
      /\ now \in 0 .. MaxTime /\ MaxTime \in Nat /\ LookupTimeout \in Nat
  BY ProxyAssumption DEF TypeOK, Passing
<1>3. TypeOK'
  BY <1>1, <1>2 DEF TypeOK, Positions, cluster, host
<1>4. \A q \in Requests :
         /\ q # r => at'[q] = at[q] /\ found'[q] = found[q]
         /\ q = r => at'[q] = "found" /\ found'[q] = Passing
  BY <1>1, <1>2
<1>5. TimesOK'
  BY <1>1, <1>4 DEF TimesOK, cluster
<1>6. KnownOK'
  <2>1. \A j \in Instances : LastListed(j)' = LastListed(j)
    BY <1>1 DEF LastListed, cluster
  <2>2. cache'.targets \subseteq Instances /\ cache' = cache /\ asked' = asked
    BY <1>1 DEF TypeOK
  <2>3. \A j \in cache'.targets : cache'.expiresAt <= LastListed(j)' + TTL
    BY <2>1, <2>2 DEF KnownOK
  <2>4. ASSUME NEW q \in Requests, at'[q] = "found", NEW j \in found'[q]
        PROVE  asked'[q] <= LastListed(j)'
    <3>1. CASE q # r
      <4>1. at[q] = "found" /\ j \in found[q] /\ j \in Instances
        BY <1>2, <1>4, <2>4, <3>1
      <4> QED
        BY <2>1, <2>2, <4>1 DEF KnownOK
    <3>2. CASE q = r
      <4>1. j \in Passing /\ j \in Instances
        BY <1>2, <1>4, <2>4, <3>2
      <4>2. LastListed(j) = now
        BY <4>1 DEF Passing, LastListed
      <4>3. asked[q] <= now
        BY DEF TimesOK
      <4> QED
        BY <2>1, <2>2, <4>1, <4>2, <4>3
    <3> QED
      BY <3>1, <3>2
  <2> QED
    BY <2>3, <2>4 DEF KnownOK
<1>7. SettledOK'
  <2> SUFFICES ASSUME NEW q \in Requests PROVE Settled(q)'
    BY DEF SettledOK
  <2>1. CASE q # r
    BY <1>1, <1>4, <2>1 DEF SettledOK, Settled, host
  <2>2. CASE q = r
    BY <1>1, <1>4, <2>2 DEF SettledOK, Settled, host
  <2> QED
    BY <2>1, <2>2
<1> QED
  BY <1>3, <1>5, <1>6, <1>7

(* A step that moves at most one request, not into a lookup, and leaves    *)
(* the clock, the cluster and what lookups know alone.                     *)
LEMMA CalmKeeps ==
  ASSUME IInv, NEW r \in Requests,
         UNCHANGED <<now, cluster, cache, asked, found>>,
         at' = at \/ at' = [at EXCEPT ![r] = "answered"]
  PROVE  TimesOK' /\ KnownOK' /\ at' \in [Requests -> Positions]
<1> USE DEF IInv
<1>1. at \in [Requests -> Positions] /\ at' \in [Requests -> Positions]
  BY DEF TypeOK, Positions
<1>2. \A q \in Requests : at'[q] = at[q] \/ at'[q] = "answered"
  BY <1>1
<1>3. TimesOK'
  BY <1>2 DEF TimesOK, cluster
<1>4. KnownOK'
  BY <1>2 DEF KnownOK, LastListed, cluster
<1> QED
  BY <1>1, <1>3, <1>4

(* A request that is refused at once.                                      *)
LEMMA InvalidKeeps ==
  ASSUME IInv, NEW r \in Requests, Invalid(r)
  PROVE  IInv'
<1> USE DEF IInv
<1>1. /\ at[r] = "new" /\ at' = [at EXCEPT ![r] = "answered"]
      /\ reply' = [reply EXCEPT ![r] = "invalid"]
      /\ UNCHANGED <<now, cluster, cache, asked, found, target, host>>
  BY DEF Invalid, Answer, Go
<1>2. TimesOK' /\ KnownOK' /\ at' \in [Requests -> Positions]
  BY <1>1, CalmKeeps
<1>3. TypeOK'
  BY <1>1, <1>2 DEF TypeOK, Replies, cluster, host
<1>4. SettledOK'
  <2>1. at \in [Requests -> Positions] /\ reply \in [Requests -> Replies]
    BY DEF TypeOK
  <2> SUFFICES ASSUME NEW q \in Requests PROVE Settled(q)'
    BY DEF SettledOK
  <2>2. CASE q # r
    BY <1>1, <2>1, <2>2 DEF SettledOK, Settled, host
  <2>3. CASE q = r
    BY <1>1, <2>1, <2>3 DEF SettledOK, Settled, host
  <2> QED
    BY <2>2, <2>3
<1> QED
  BY <1>2, <1>3, <1>4

(* The instance begins to handle the request.                              *)
LEMMA ServeKeeps ==
  ASSUME IInv, NEW r \in Requests, Serve(r)
  PROVE  IInv'
<1> USE DEF IInv
<1>1. /\ http[r] \in {"sent", "cut"}
      /\ work[r] = "none" /\ work' = [work EXCEPT ![r] = "doing"]
      /\ served' = [served EXCEPT ![r] = served[r] + 1]
      /\ UNCHANGED <<now, cluster, proxy, http>>
  BY DEF Serve, Work
<1>2. /\ work \in [Requests -> {"none", "doing", "done", "lost"}]
      /\ served \in [Requests -> Nat]
  BY DEF TypeOK
<1>3. TimesOK' /\ KnownOK'
  BY <1>1, CalmKeeps DEF proxy
<1>4. TypeOK'
  BY <1>1, <1>2 DEF TypeOK, cluster, proxy
<1>5. SettledOK'
  <2> SUFFICES ASSUME NEW q \in Requests PROVE Settled(q)'
    BY DEF SettledOK
  <2>0. Settled(q) /\ at' = at /\ reply' = reply
    BY <1>1 DEF SettledOK, proxy
  <2>1. CASE q # r
    BY <1>1, <1>2, <2>0, <2>1 DEF Settled
  <2>2. CASE q = r
    BY <1>1, <1>2, <2>0, <2>2 DEF Settled
  <2> QED
    BY <2>1, <2>2
<1> QED
  BY <1>3, <1>4, <1>5

(* The connection breaks.                                                  *)
LEMMA BreakKeeps ==
  ASSUME IInv, NEW r \in Requests, Break(r)
  PROVE  IInv'
<1> USE DEF IInv
<1>1. /\ http[r] = "sent" /\ http' = [http EXCEPT ![r] = "cut"]
      /\ failures < MaxFailures /\ failures' = failures + 1
      /\ UNCHANGED <<now, up, consul, lastListed, proxy, work, served>>
  BY DEF Break, Http
<1>2. http \in [Requests -> {"none", "sent", "cut", "over"}]
  BY DEF TypeOK
<1>3. TimesOK' /\ KnownOK'
  BY <1>1 DEF TimesOK, KnownOK, LastListed, proxy
<1>4. failures' \in 0 .. MaxFailures
  BY <1>1, ProxyAssumption DEF TypeOK
<1>5. TypeOK'
  BY <1>1, <1>2, <1>4 DEF TypeOK, proxy
<1>6. SettledOK'
  <2> SUFFICES ASSUME NEW q \in Requests PROVE Settled(q)'
    BY DEF SettledOK
  <2>0. Settled(q) /\ at' = at /\ reply' = reply
    BY <1>1 DEF SettledOK, proxy
  <2>1. CASE q # r
    BY <1>1, <1>2, <2>0, <2>1 DEF Settled
  <2>2. CASE q = r
    BY <1>1, <1>2, <2>0, <2>2 DEF Settled
  <2> QED
    BY <2>1, <2>2
<1> QED
  BY <1>3, <1>5, <1>6

(* A handler comes to its end after its connection broke.                  *)
LEMMA CompleteKeeps ==
  ASSUME IInv, NEW r \in Requests, Complete(r)
  PROVE  IInv'
<1> USE DEF IInv
<1>1. /\ http[r] = "cut" /\ work[r] = "doing" /\ work' = [work EXCEPT ![r] = "done"]
      /\ UNCHANGED <<now, cluster, proxy, http, served>>
  BY DEF Complete, Work
<1>2. work \in [Requests -> {"none", "doing", "done", "lost"}]
  BY DEF TypeOK
<1>3. TimesOK' /\ KnownOK'
  BY <1>1, CalmKeeps DEF proxy
<1>4. TypeOK'
  BY <1>1, <1>2 DEF TypeOK, cluster, proxy
<1>5. SettledOK'
  <2> SUFFICES ASSUME NEW q \in Requests PROVE Settled(q)'
    BY DEF SettledOK
  <2>0. Settled(q) /\ at' = at /\ reply' = reply
    BY <1>1 DEF SettledOK, proxy
  <2>1. CASE q # r
    BY <1>1, <1>2, <2>0, <2>1 DEF Settled
  <2>2. CASE q = r
    BY <1>1, <1>2, <2>0, <2>2 DEF Settled
  <2> QED
    BY <2>1, <2>2
<1> QED
  BY <1>3, <1>4, <1>5

(* The gateway answers: a response, after which the work is done; a        *)
(* refusal, before which it has not begun; or a broken connection.         *)
LEMMA FinishKeeps ==
  ASSUME IInv, NEW r \in Requests,
         NEW a \in {"ok", "failed", "unavailable"}, Finish(r, a),
         \/ /\ Http(r, "sent", "over") /\ Work(r, "doing", "done")
            /\ a \in {"ok", "failed"}
         \/ /\ Http(r, "sent", "over") /\ work[r] = "none" /\ UNCHANGED work
            /\ a = "unavailable"
         \/ http[r] = "cut" /\ UNCHANGED <<http, work>> /\ a = "unavailable"
  PROVE  IInv'
<1> USE DEF IInv
<1>1. /\ at[r] = "waiting" /\ at' = [at EXCEPT ![r] = "answered"]
      /\ reply' = [reply EXCEPT ![r] = a]
      /\ UNCHANGED <<now, cluster, cache, asked, found, target, served>>
  BY DEF Finish, Answer, Go
<1>2. /\ http \in [Requests -> {"none", "sent", "cut", "over"}]
      /\ work \in [Requests -> {"none", "doing", "done", "lost"}]
      /\ at \in [Requests -> Positions] /\ reply \in [Requests -> Replies]
  BY DEF TypeOK
<1>3. TimesOK' /\ KnownOK' /\ at' \in [Requests -> Positions]
  BY <1>1, CalmKeeps
<1>4. /\ http' \in [Requests -> {"none", "sent", "cut", "over"}]
      /\ work' \in [Requests -> {"none", "doing", "done", "lost"}]
  BY <1>2 DEF Http, Work
<1>5. TypeOK'
  BY <1>1, <1>2, <1>3, <1>4 DEF TypeOK, Replies, cluster
<1>6. SettledOK'
  <2> SUFFICES ASSUME NEW q \in Requests PROVE Settled(q)'
    BY DEF SettledOK
  <2>0. Settled(q)
    BY DEF SettledOK
  <2>1. CASE q # r
    <3>1. http'[q] = http[q] /\ work'[q] = work[q]
      BY <1>2, <2>1 DEF Http, Work
    <3> QED
      BY <1>1, <1>2, <2>0, <2>1, <3>1 DEF Settled
  <2>2. CASE q = r
    <3>1. at'[r] = "answered" /\ served'[r] = served[r] /\ reply'[r] = a
      BY <1>1, <1>2
    <3>2. \/ /\ http[r] = "sent" /\ http'[r] = "over" /\ work[r] = "doing" /\ work'[r] = "done"
             /\ a \in {"ok", "failed"}
          \/ /\ http[r] = "sent" /\ http'[r] = "over" /\ work[r] = "none" /\ work'[r] = "none"
             /\ a = "unavailable"
          \/ http[r] = "cut" /\ http'[r] = "cut" /\ work'[r] = work[r] /\ a = "unavailable"
      BY <1>2 DEF Http, Work
    <3> QED
      BY <1>1, <2>0, <2>2, <3>1, <3>2 DEF Settled
  <2> QED
    BY <2>1, <2>2
<1> QED
  BY <1>3, <1>5, <1>6

-----------------------------------------------------------------------------
(* The instances, Consul and the clock.                                    *)

(* Whatever Consul learns of an instance, it was listed as late as before. *)
LEMMA KnowKeeps ==
  ASSUME IInv, NEW i \in Instances, NEW c \in {"absent", "critical", "passing"},
         Know(i, c), now' = now
  PROVE  /\ consul' \in [Instances -> {"absent", "critical", "passing"}]
         /\ lastListed' \in [Instances -> 0 .. MaxTime]
         /\ \A j \in Instances : lastListed'[j] <= now
         /\ \A j \in Instances : LastListed(j) <= LastListed(j)'
<1> USE DEF IInv
<1>1. /\ consul \in [Instances -> {"absent", "critical", "passing"}]
      /\ lastListed \in [Instances -> 0 .. MaxTime]
      /\ now \in 0 .. MaxTime /\ MaxTime \in Nat
      /\ \A j \in Instances : lastListed[j] <= now
  BY ProxyAssumption DEF TypeOK, TimesOK
<1>2. consul' = [consul EXCEPT ![i] = c]
  BY DEF Know
<1>3. consul' \in [Instances -> {"absent", "critical", "passing"}]
  BY <1>1, <1>2
<1>4. CASE consul[i] = "passing"
  <2>1. lastListed' = [lastListed EXCEPT ![i] = now]
    BY <1>4 DEF Know
  <2>2. \A j \in Instances :
           /\ j # i => lastListed'[j] = lastListed[j] /\ consul'[j] = consul[j]
           /\ j = i => lastListed'[j] = now
    BY <1>1, <1>2, <2>1
  <2>3. lastListed' \in [Instances -> 0 .. MaxTime]
    BY <1>1, <2>1
  <2> QED
    BY <1>1, <1>3, <2>2, <2>3 DEF LastListed
<1>5. CASE consul[i] # "passing"
  <2>1. lastListed' = lastListed
    BY <1>5 DEF Know
  <2>2. \A j \in Instances : j # i => consul'[j] = consul[j]
    BY <1>1, <1>2
  <2> QED
    BY <1>1, <1>3, <1>5, <2>1, <2>2 DEF LastListed
<1> QED
  BY <1>4, <1>5

(* A step of the cluster that takes no time, and after which no instance   *)
(* was listed less lately, keeps what is known of times and of listings.   *)
LEMMA ClusterKeeps ==
  ASSUME IInv, UNCHANGED <<now, proxy>>,
         consul' \in [Instances -> {"absent", "critical", "passing"}],
         lastListed' \in [Instances -> 0 .. MaxTime],
         \A j \in Instances : lastListed'[j] <= now,
         \A j \in Instances : LastListed(j) <= LastListed(j)'
  PROVE  TimesOK' /\ KnownOK'
<1> USE DEF IInv
<1>1. TimesOK'
  BY DEF TimesOK, proxy
<1>2. /\ cache.targets \subseteq Instances /\ cache.expiresAt \in Nat /\ TTL \in Nat
      /\ \A r \in Requests : found[r] \subseteq Instances /\ asked[r] \in Nat
      /\ \A j \in Instances : LastListed(j) \in Nat /\ LastListed(j)' \in Nat
  BY ProxyAssumption DEF TypeOK, LastListed
<1>3. \A j \in cache'.targets : cache'.expiresAt <= LastListed(j)' + TTL
  <2> SUFFICES ASSUME NEW j \in cache.targets
               PROVE  cache.expiresAt <= LastListed(j)' + TTL
    BY DEF proxy
  <2>1. cache.expiresAt <= LastListed(j) + TTL
    BY DEF KnownOK
  <2> QED
    BY <1>2, <2>1
<1>4. \A r \in Requests : at'[r] = "found" => \A j \in found'[r] : asked'[r] <= LastListed(j)'
  <2> SUFFICES ASSUME NEW r \in Requests, at[r] = "found", NEW j \in found[r]
               PROVE  asked[r] <= LastListed(j)'
    BY DEF proxy
  <2>1. asked[r] <= LastListed(j)
    BY DEF KnownOK
  <2> QED
    BY <1>2, <2>1
<1> QED
  BY <1>1, <1>3, <1>4 DEF KnownOK

(* An instance starts.                                                     *)
LEMMA StartKeeps ==
  ASSUME IInv, NEW i \in Instances, Start(i)
  PROVE  IInv'
<1> USE DEF IInv
<1>1. UNCHANGED <<now, proxy, served, failures, http, work>> /\ up' = up \union {i}
  BY DEF Start, Rest
<1>2. /\ consul' \in [Instances -> {"absent", "critical", "passing"}]
      /\ lastListed' \in [Instances -> 0 .. MaxTime]
      /\ \A j \in Instances : lastListed'[j] <= now
      /\ \A j \in Instances : LastListed(j) <= LastListed(j)'
  <2>1. CASE Know(i, "critical")
    BY <1>1, <2>1, KnowKeeps
  <2>2. CASE UNCHANGED <<consul, lastListed>>
    BY <1>1, <2>2, ProxyAssumption DEF TypeOK, TimesOK, LastListed
  <2> QED
    BY <2>1, <2>2 DEF Start
<1>3. TimesOK' /\ KnownOK'
  BY <1>1, <1>2, ClusterKeeps
<1>4. TypeOK'
  BY <1>1, <1>2 DEF TypeOK, proxy
<1>5. SettledOK'
  BY <1>1 DEF SettledOK, Settled, proxy
<1> QED
  BY <1>3, <1>4, <1>5

(* Consul learns of an instance.                                           *)
LEMMA LearnsKeeps ==
  ASSUME IInv, NEW i \in Instances, NEW c \in {"absent", "critical", "passing"},
         Know(i, c), UNCHANGED <<up, failures, http, work, Rest>>
  PROVE  IInv'
<1> USE DEF IInv
<1>1. UNCHANGED <<now, proxy, served, failures, http, work, up>>
  BY DEF Rest
<1>2. /\ consul' \in [Instances -> {"absent", "critical", "passing"}]
      /\ lastListed' \in [Instances -> 0 .. MaxTime]
      /\ \A j \in Instances : lastListed'[j] <= now
      /\ \A j \in Instances : LastListed(j) <= LastListed(j)'
  BY <1>1, KnowKeeps
<1>3. TimesOK' /\ KnownOK'
  BY <1>1, <1>2, ClusterKeeps
<1>4. TypeOK'
  BY <1>1, <1>2 DEF TypeOK, proxy
<1>5. SettledOK'
  BY <1>1 DEF SettledOK, Settled, proxy
<1> QED
  BY <1>3, <1>4, <1>5

(* An instance ends, and with it the requests it had accepted.             *)
LEMMA DieKeeps ==
  ASSUME IInv, NEW i \in Instances, Die(i)
  PROVE  IInv'
<1> USE DEF IInv
<1>1. /\ UNCHANGED <<now, proxy, served, consul, lastListed>> /\ up' = up \ {i}
      /\ failures < MaxFailures /\ failures' = failures + 1
  BY DEF Die, Rest
<1>2. PICK lost \in SUBSET Requests :
         /\ \A r \in lost : work[r] = "doing" \/ (work[r] = "none" /\ http[r] = "cut")
         /\ work' = [r \in Requests |-> IF r \in lost THEN "lost" ELSE work[r]]
         /\ http' = [r \in Requests |-> IF r \in lost THEN "cut" ELSE http[r]]
  BY DEF Die
<1>3. failures' \in 0 .. MaxFailures
  BY <1>1, ProxyAssumption DEF TypeOK
<1>4. TypeOK'
  <2>1. /\ http' \in [Requests -> {"none", "sent", "cut", "over"}]
        /\ work' \in [Requests -> {"none", "doing", "done", "lost"}]
    BY <1>2 DEF TypeOK
  <2> QED
    BY <1>1, <1>3, <2>1 DEF TypeOK, proxy
<1>5. TimesOK' /\ KnownOK'
  BY <1>1 DEF TimesOK, KnownOK, LastListed, proxy
<1>6. SettledOK'
  <2> SUFFICES ASSUME NEW r \in Requests PROVE Settled(r)'
    BY DEF SettledOK
  <2>1. \/ http'[r] = http[r] /\ work'[r] = work[r]
        \/ /\ work[r] = "doing" \/ (work[r] = "none" /\ http[r] = "cut")
           /\ http'[r] = "cut" /\ work'[r] = "lost"
    BY <1>2
  <2>2. Settled(r) /\ at'[r] = at[r] /\ served'[r] = served[r] /\ reply'[r] = reply[r]
    BY <1>1 DEF SettledOK, proxy
  <2> QED
    BY <2>1, <2>2 DEF Settled
<1> QED
  BY <1>4, <1>5, <1>6

(* Time passes: no lookup outlives its timeout, and who is listed now is   *)
(* listed later than before.                                               *)
LEMMA TickKeeps ==
  ASSUME IInv, Tick
  PROVE  IInv'
<1> USE DEF IInv
<1>1. /\ now' = now + 1 /\ now < MaxTime
      /\ UNCHANGED <<cluster, proxy, host>>
      /\ \A r \in Requests : at[r] \in {"looking", "found"} => now < asked[r] + LookupTimeout
  BY DEF Tick
<1>2. /\ now \in 0 .. MaxTime /\ MaxTime \in Nat /\ LookupTimeout \in Nat /\ TTL \in Nat
      /\ cache.targets \subseteq Instances /\ cache.expiresAt \in Nat
      /\ \A r \in Requests : found[r] \subseteq Instances /\ asked[r] \in Nat
      /\ \A i \in Instances : lastListed[i] \in Nat
  BY ProxyAssumption DEF TypeOK
<1>3. TypeOK'
  BY <1>1, <1>2 DEF TypeOK, cluster, proxy, host
<1>4. TimesOK'
  BY <1>1, <1>2 DEF TimesOK, cluster, proxy
<1>5. \A i \in Instances : /\ LastListed(i) <= LastListed(i)'
                           /\ LastListed(i) \in Nat /\ LastListed(i)' \in Nat
  BY <1>1, <1>2 DEF LastListed, TimesOK, cluster
<1>6. KnownOK'
  <2>1. \A j \in cache.targets : cache.expiresAt <= LastListed(j)' + TTL
    <3> SUFFICES ASSUME NEW j \in cache.targets
                 PROVE  cache.expiresAt <= LastListed(j)' + TTL
      OBVIOUS
    <3>1. cache.expiresAt <= LastListed(j) + TTL
      BY DEF KnownOK
    <3> QED
      BY <1>2, <1>5, <3>1
  <2>2. ASSUME NEW r \in Requests, at[r] = "found", NEW j \in found[r]
        PROVE  asked[r] <= LastListed(j)'
    <3>1. asked[r] <= LastListed(j)
      BY <2>2 DEF KnownOK
    <3> QED
      BY <1>2, <1>5, <3>1
  <2> QED
    BY <1>1, <2>1, <2>2 DEF KnownOK, proxy
<1>7. SettledOK'
  BY <1>1 DEF SettledOK, Settled, proxy, host
<1> QED
  BY <1>3, <1>4, <1>6, <1>7

-----------------------------------------------------------------------------
(* The theorems.                                                           *)

(* The invariant holds initially.                                          *)
LEMMA InitOK == Init => IInv
<1> SUFFICES ASSUME Init PROVE IInv
  OBVIOUS
<1> USE ProxyAssumption DEF Init
<1>1. TypeOK
  BY DEF TypeOK, Positions, Replies
<1>2. TimesOK
  BY DEF TimesOK
<1>3. KnownOK
  BY DEF KnownOK
<1>4. SettledOK
  BY DEF SettledOK, Settled
<1> QED
  BY <1>1, <1>2, <1>3, <1>4 DEF IInv

(* Every step preserves the invariant.                                     *)
LEMMA NextOK == IInv /\ [Next]_vars => IInv'
<1> SUFFICES ASSUME IInv, [Next]_vars PROVE IInv'
  OBVIOUS
<1>1. ASSUME NEW r \in Requests, Invalid(r) PROVE IInv'
  BY <1>1, InvalidKeeps
<1>2. ASSUME NEW r \in Requests, CacheHit(r) PROVE IInv'
  BY <1>2, CacheHitKeeps
<1>3. ASSUME NEW r \in Requests, Lookup(r) PROVE IInv'
  BY <1>3, LookupKeeps
<1>4. ASSUME NEW r \in Requests, ConsulAnswers(r) PROVE IInv'
  BY <1>4, ConsulAnswersKeeps
<1>5. ASSUME NEW r \in Requests, Discovered(r) PROVE IInv'
  BY <1>5, DiscoveredKeeps
<1>6. ASSUME NEW r \in Requests, LookupFails(r) PROVE IInv'
  BY <1>6, LookupFailsKeeps
<1>7. ASSUME NEW r \in Requests, ConnectionRefused(r) PROVE IInv'
  BY <1>7, FinishKeeps DEF ConnectionRefused
<1>8. ASSUME NEW r \in Requests, ConnectionLost(r) PROVE IInv'
  BY <1>8, FinishKeeps DEF ConnectionLost
<1>9. ASSUME NEW r \in Requests, Serve(r) PROVE IInv'
  BY <1>9, ServeKeeps
<1>10. ASSUME NEW r \in Requests, Respond(r) PROVE IInv'
  BY <1>10, FinishKeeps DEF Respond
<1>11. ASSUME NEW i \in Instances, Start(i) PROVE IInv'
  BY <1>11, StartKeeps
<1>12. ASSUME NEW i \in Instances, HealthCheck(i) PROVE IInv'
  <2>1. PICK c \in {"absent", "critical", "passing"} : Know(i, c)
    BY <1>12 DEF HealthCheck
  <2> QED
    BY <1>12, <2>1, LearnsKeeps DEF HealthCheck
<1>13. ASSUME NEW i \in Instances, Deregister(i) PROVE IInv'
  BY <1>13, LearnsKeeps DEF Deregister
<1>14. ASSUME NEW i \in Instances, Die(i) PROVE IInv'
  BY <1>14, DieKeeps
<1>15. ASSUME Tick PROVE IInv'
  BY <1>15, TickKeeps
<1>16. ASSUME UNCHANGED vars PROVE IInv'
  BY <1>16, Stutter
<1>17. ASSUME NEW r \in Requests, Break(r) PROVE IInv'
  BY <1>17, BreakKeeps
<1>18. ASSUME NEW r \in Requests, Complete(r) PROVE IInv'
  BY <1>18, CompleteKeeps
<1> QED
  BY <1>1, <1>2, <1>3, <1>4, <1>5, <1>6, <1>7, <1>8, <1>9, <1>10, <1>11, <1>12,
     <1>13, <1>14, <1>15, <1>16, <1>17, <1>18 DEF Next

(* The strengthened invariant holds in every reachable state.              *)
THEOREM Invariance == Spec => []IInv
  BY InitOK, NextOK, PTL DEF Spec

(* Every variable keeps its type.                                          *)
THEOREM TypeCorrect == Spec => []TypeOK
<1>1. IInv => TypeOK
  BY DEF IInv
<1> QED
  BY <1>1, Invariance, PTL

(* However many requests, instances and failures: a request is handled at    *)
(* most once, and was handled when the client is told so.                  *)
THEOREM HandledOnce == Spec => []AtMostOnce
<1>1. ASSUME IInv, NEW r \in Requests
      PROVE  served[r] <= 1 /\ (reply[r] \in {"ok", "failed"} => served[r] = 1)
  <2>1. Settled(r)
    BY <1>1 DEF IInv, SettledOK
  <2>2. served[r] \in {0, 1}
    BY <2>1 DEF Settled
  <2>3. reply[r] \in {"ok", "failed"} => served[r] = 1
    BY <2>1 DEF Settled
  <2> QED
    BY <2>2, <2>3
<1>2. IInv => AtMostOnce
  BY <1>1 DEF AtMostOnce
<1> QED
  BY <1>2, Invariance, PTL

(* A step that sends a request to a discovered instance finds it listed no *)
(* longer ago than the cache's life or a lookup's timeout.                 *)
LEMMA SentIsRecent ==
  ASSUME IInv, [Next]_vars, NEW r \in Requests, NEW i \in Instances,
         at[r] # "waiting", at'[r] = "waiting", target'[r] = i
  PROVE  now - LastListed(i) <= Staleness
<1>1. /\ at \in [Requests -> Positions] /\ target \in [Requests -> Instances \union {None, Fallback}]
      /\ now \in Nat /\ LastListed(i) \in Nat /\ TTL \in Nat /\ LookupTimeout \in Nat
      /\ Fallback \notin Instances
      /\ cache.expiresAt \in Nat /\ asked[r] \in Nat
  BY ProxyAssumption DEF IInv, TypeOK, LastListed
<1>2. \A q \in Requests, from \in Positions, t \in Instances \union {Fallback} :
         Send(q, from, t) => q = r /\ at[r] = from /\ t = i
  BY <1>1 DEF Send, Go
<1>3. ASSUME NEW q \in Requests, CacheHit(q) PROVE now - LastListed(i) <= Staleness
  <2>1. PICK j \in cache.targets : Send(q, "new", j)
    BY <1>3 DEF CacheHit
  <2>2. j = i
    BY <1>2, <2>1 DEF IInv, TypeOK, Positions
  <2>3. cache.expiresAt > now /\ cache.expiresAt <= LastListed(i) + TTL
    BY <1>3, <2>1, <2>2 DEF CacheHit, Fresh, IInv, KnownOK
  <2> QED
    BY <1>1, <2>3 DEF Staleness
<1>4. ASSUME NEW q \in Requests, Discovered(q) PROVE now - LastListed(i) <= Staleness
  <2>1. CASE \E j \in found[q] : Send(q, "found", j)
    <3>1. PICK j \in found[q] : Send(q, "found", j)
      BY <2>1
    <3>2. j = i /\ q = r /\ at[r] = "found"
      BY <1>2, <3>1 DEF IInv, TypeOK, Positions
    <3>3. asked[r] <= LastListed(i) /\ now <= asked[r] + LookupTimeout
      BY <3>1, <3>2 DEF IInv, KnownOK, TimesOK
    <3> QED
      BY <1>1, <3>3 DEF Staleness
  <2>2. CASE Send(q, "found", Fallback)
    BY <1>1, <1>2, <2>2 DEF Positions
  <2> QED
    BY <1>4, <2>1, <2>2 DEF Discovered
<1>5. ASSUME NEW q \in Requests, LookupFails(q) PROVE FALSE
  <2>1. PICK from \in {"looking", "found"} : Send(q, from, Fallback)
    BY <1>5 DEF LookupFails
  <2> QED
    BY <1>1, <1>2, <2>1 DEF Positions
<1>6. ASSUME NEW q \in Requests,
             \/ Invalid(q) \/ Lookup(q) \/ ConsulAnswers(q) \/ ConnectionRefused(q)
             \/ ConnectionLost(q) \/ Serve(q) \/ Respond(q) \/ Break(q) \/ Complete(q)
      PROVE  FALSE
  <2>1. at' = at \/ \E p \in {"looking", "found", "answered"} : at' = [at EXCEPT ![q] = p]
    BY <1>6 DEF Invalid, Lookup, ConsulAnswers, ConnectionRefused, ConnectionLost, Serve,
                Respond, Break, Complete, Finish, Answer, Go, proxy
  <2> QED
    BY <1>1, <2>1
<1>7. ASSUME (\E j \in Instances : Start(j) \/ HealthCheck(j) \/ Deregister(j) \/ Die(j))
             \/ Tick \/ UNCHANGED vars
      PROVE  FALSE
  <2>1. at' = at
    BY <1>7 DEF Start, HealthCheck, Deregister, Die, Tick, Rest, proxy, vars
  <2> QED
    BY <2>1
<1> QED
  BY <1>3, <1>4, <1>5, <1>6, <1>7 DEF Next

(* However slow and however disordered Consul's answers are, a request is  *)
(* sent only to an instance that was listed recently.                      *)
THEOREM AddressesAreRecent == Spec => TargetsAreRecent
<1>1. IInv /\ [Next]_vars =>
         [\A r \in Requests : \A i \in Instances :
             at[r] # "waiting" /\ at'[r] = "waiting" /\ target'[r] = i
                => now - LastListed(i) <= Staleness]_vars
  BY SentIsRecent
<1> QED
  BY <1>1, Invariance, PTL DEF Spec, TargetsAreRecent

(* A client is told what became of its request, unless its connection      *)
(* broke.                                                                  *)
THEOREM AnswersAreTruthful == Spec => []AnswerIsTruthful
<1>1. IInv => AnswerIsTruthful
  BY DEF IInv, SettledOK, Settled, AnswerIsTruthful
<1> QED
  BY <1>1, Invariance, PTL
=============================================================================
