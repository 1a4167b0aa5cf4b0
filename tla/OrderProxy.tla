----------------------------- MODULE OrderProxy -----------------------------
(***************************************************************************)
(* The gateway's order routes: ProxyService forwards a request to an       *)
(* instance of the order service that Consul lists, found through a cache  *)
(* of its own, or to the static URL.  With them the instances' lives:      *)
(* start and shutdown of the order service, and what Consul knows of it.   *)
(*                                                                         *)
(* Time is counted in units of the code's timeouts.  What an instance does *)
(* with a request is Checkout's subject; here it is being done, done, or   *)
(* lost with the process, and RPCs that a lost handler has left in their   *)
(* queues, which are executed all the same, are part of what is lost.      *)
(***************************************************************************)
EXTENDS Integers

CONSTANTS
    Requests,       \* requests to the gateway's order routes
    Instances,      \* instances of the order service, each with an address
    Registering,    \* those that have CONSUL_HTTP_ADDR set
    Static,         \* the one ORDER_SERVICE_URL leads to
    None,           \* no address yet
    Fallback,       \* ORDER_SERVICE_URL
    TTL,            \* discoveryTtlMs
    LookupTimeout,  \* the timeout of consulDiscoverService
    MaxTime,        \* bound on the clock
    MaxFailures     \* bound on crashes, shutdowns and broken connections

ASSUME ProxyAssumption ==
    /\ Static \in Instances /\ Registering \subseteq Instances
    /\ None \notin Instances /\ Fallback \notin Instances \union {None}
    /\ TTL \in Nat \ {0} /\ LookupTimeout \in Nat
    /\ MaxTime \in Nat /\ MaxFailures \in Nat

VARIABLES
    now,         \* the clock
    up,          \* the instances that listen
    consul,      \* what Consul knows of each instance
    lastListed,  \* history: until when each unlisted instance was listed
    cache,       \* discoveryCache, for the one service name
    at,          \* where each request stands in the gateway
    asked,       \* when each request began its lookup
    found,       \* the instances a lookup was answered with
    target,      \* the address the request is forwarded to
    http,        \* the connection the request is forwarded over
    work,        \* what becomes of the request at its instance
    reply,       \* what the client was answered
    served,      \* history: how often instances have begun to handle it
    failures     \* how many instances have gone and connections broken

cluster == <<up, consul, lastListed, failures>>
proxy   == <<cache, at, asked, found, target, reply>>
host    == <<http, work, served>>
vars    == <<now, cluster, proxy, host>>

Positions == {"new", "looking", "found", "waiting", "answered"}
Replies   == {"none", "ok", "failed", "unavailable", "invalid"}

TypeOK ==
    /\ now \in 0 .. MaxTime
    /\ up \subseteq Instances
    /\ consul \in [Instances -> {"absent", "critical", "passing"}]
    /\ lastListed \in [Instances -> 0 .. MaxTime]
    /\ cache \in [expiresAt : Nat, targets : SUBSET Instances]
    /\ at \in [Requests -> Positions]
    /\ asked \in [Requests -> 0 .. MaxTime]
    /\ found \in [Requests -> SUBSET Instances]
    /\ target \in [Requests -> Instances \union {None, Fallback}]
    /\ reply \in [Requests -> Replies]
    /\ http \in [Requests -> {"none", "sent", "cut", "over"}]
    /\ work \in [Requests -> {"none", "doing", "done", "lost"}]
    /\ served \in [Requests -> Nat]
    /\ failures \in 0 .. MaxFailures

Init ==
    /\ now = 0
    /\ up = Instances
    /\ consul = [i \in Instances |-> IF i \in Registering THEN "passing" ELSE "absent"]
    /\ lastListed = [i \in Instances |-> 0]
    /\ cache = [expiresAt |-> 0, targets |-> {}]
    /\ at = [r \in Requests |-> "new"]
    /\ asked = [r \in Requests |-> 0]
    /\ found = [r \in Requests |-> {}]
    /\ target = [r \in Requests |-> None]
    /\ reply = [r \in Requests |-> "none"]
    /\ http = [r \in Requests |-> "none"]
    /\ work = [r \in Requests |-> "none"]
    /\ served = [r \in Requests |-> 0]
    /\ failures = 0

Passing == {i \in Instances : consul[i] = "passing"}
Go(r, from, to) == at[r] = from /\ at' = [at EXCEPT ![r] = to]
Http(r, from, to) == http[r] = from /\ http' = [http EXCEPT ![r] = to]
Work(r, from, to) == work[r] = from /\ work' = [work EXCEPT ![r] = to]

-----------------------------------------------------------------------------
(* resolveBaseUrl and forward.                                             *)

(* axios is called for the address, without a timeout and without a retry; *)
(* what the lookup knew is gone.                                           *)
Send(r, from, t) ==
    /\ Go(r, from, "waiting")
    /\ target' = [target EXCEPT ![r] = t]
    /\ asked' = [asked EXCEPT ![r] = 0]
    /\ found' = [found EXCEPT ![r] = {}]
    /\ http' = [http EXCEPT ![r] = "sent"]
    /\ UNCHANGED <<work, reply, served>>

Answer(r, from, a) ==
    /\ Go(r, from, "answered")
    /\ reply' = [reply EXCEPT ![r] = a]

(* 400: a body or a query that zod rejects, an id that is no uuid.         *)
Invalid(r) ==
    /\ Answer(r, "new", "invalid")
    /\ UNCHANGED <<now, cluster, cache, asked, found, target, host>>

Fresh == cache.expiresAt > now /\ cache.targets # {}

CacheHit(r) ==
    /\ Fresh
    /\ \E i \in cache.targets : Send(r, "new", i)
    /\ UNCHANGED <<now, cluster, cache>>

(* Every request that misses asks Consul for itself.                       *)
Lookup(r) ==
    /\ ~Fresh
    /\ Go(r, "new", "looking")
    /\ asked' = [asked EXCEPT ![r] = now]
    /\ UNCHANGED <<now, cluster, cache, found, target, reply, host>>

(* Consul answers with what it lists now; the answer takes its time.       *)
ConsulAnswers(r) ==
    /\ Go(r, "looking", "found")
    /\ found' = [found EXCEPT ![r] = Passing]
    /\ UNCHANGED <<now, cluster, cache, asked, target, reply, host>>

(* Mutant: the entry's life begins when the answer arrives.                *)
ExpiryOnArrival(r) == now + TTL

(* The entry's life began when the question was asked.                     *)
Expiry(r) == asked[r] + TTL

(* The answer is cached, an empty one too, whatever was cached meanwhile.  *)
Discovered(r) ==
    /\ cache' = [expiresAt |-> Expiry(r), targets |-> found[r]]
    /\ \/ \E i \in found[r] : Send(r, "found", i)
       \/ found[r] = {} /\ Send(r, "found", Fallback)
    /\ UNCHANGED <<now, cluster>>

(* Mutant: the lookup has no timeout.                                      *)
BadAnswerFails(r) ==
    /\ Send(r, "found", Fallback)
    /\ UNCHANGED <<now, cluster, cache>>

(* Consul is away, or does not answer in time.                             *)
LookupFails(r) ==
    /\ \E from \in {"looking", "found"} : Send(r, from, Fallback)
    /\ UNCHANGED <<now, cluster, cache>>

Host(r) == IF target[r] = Fallback THEN Static ELSE target[r]

(* The instance accepts the request and begins to handle it.  If the       *)
(* connection has broken since, the request may have reached it before.    *)
Serve(r) ==
    /\ http[r] \in {"sent", "cut"} /\ Host(r) \in up
    /\ Work(r, "none", "doing")
    /\ served' = [served EXCEPT ![r] = @ + 1]
    /\ UNCHANGED <<now, cluster, proxy, http>>

(* The connection breaks with both its ends alive.                         *)
Break(r) ==
    /\ Http(r, "sent", "cut") /\ Host(r) \in up
    /\ failures < MaxFailures /\ failures' = failures + 1
    /\ UNCHANGED <<now, up, consul, lastListed, proxy, work, served>>

(* A handler that can no longer respond goes on to its end.                *)
Complete(r) ==
    /\ http[r] = "cut" /\ Work(r, "doing", "done")
    /\ UNCHANGED <<now, cluster, proxy, http, served>>

(* axios returns or throws, and the gateway answers.                       *)
Finish(r, a) ==
    /\ Answer(r, "waiting", a)
    /\ UNCHANGED <<now, cluster, cache, asked, found, target, served>>

(* Mutant: forward gives up on a request that takes long.                  *)
RespondOrTimeOut(r) ==
    /\ Http(r, "sent", "over")
    /\ \/ Work(r, "doing", "done") /\ \E a \in {"ok", "failed"} : Finish(r, a)
       \/ Finish(r, "unavailable") /\ UNCHANGED work

(* A response of the order service: 2xx is passed on, any other becomes a  *)
(* 500 with its message.                                                   *)
Respond(r) ==
    /\ Http(r, "sent", "over") /\ Work(r, "doing", "done")
    /\ \E a \in {"ok", "failed"} : Finish(r, a)

(* There is no error.response: nobody listens, or the connection broke.    *)
ConnectionRefused(r) ==
    /\ Http(r, "sent", "over") /\ work[r] = "none" /\ Host(r) \notin up
    /\ Finish(r, "unavailable")
    /\ UNCHANGED work

(* Mutant: what broke off is tried again at the static URL.                *)
RetryAtFallback(r) ==
    /\ Http(r, "cut", "sent")
    /\ work' = [work EXCEPT ![r] = "none"]
    /\ target' = [target EXCEPT ![r] = Fallback]
    /\ UNCHANGED <<now, cluster, cache, at, asked, found, reply, served>>

ConnectionLost(r) ==
    /\ http[r] = "cut" /\ Finish(r, "unavailable")
    /\ UNCHANGED <<http, work>>

-----------------------------------------------------------------------------
(* The instances of the order service, and Consul.                         *)

Rest == <<now, proxy, served>>

(* What Consul knows of i becomes c.                                       *)
Know(i, c) ==
    /\ consul' = [consul EXCEPT ![i] = c]
    /\ lastListed' = IF consul[i] = "passing" THEN [lastListed EXCEPT ![i] = now]
                                              ELSE lastListed

(* start: the server listens and registers.  If it cannot, the process     *)
(* ends, as if it had not been started.                                    *)
Start(i) ==
    /\ i \notin up
    /\ up' = up \union {i}
    /\ \/ i \in Registering /\ Know(i, "critical")
       \/ i \notin Registering /\ UNCHANGED <<consul, lastListed>>
    /\ UNCHANGED <<failures, http, work, Rest>>

(* Consul's health check, and DeregisterCriticalServiceAfter: an instance  *)
(* that is forgotten does not register again.                              *)
HealthCheck(i) ==
    /\ \/ consul[i] = "critical" /\ i \in up /\ Know(i, "passing")
       \/ consul[i] = "passing" /\ Know(i, "critical")
       \/ consul[i] = "critical" /\ Know(i, "absent")
    /\ UNCHANGED <<up, failures, http, work, Rest>>

(* shutdown: Consul is told, unless it cannot be, and the process ends.    *)
Deregister(i) ==
    /\ i \in up
    /\ consul[i] # "absent" /\ Know(i, "absent")
    /\ UNCHANGED <<up, failures, http, work, Rest>>

(* The process ends, by a crash or by shutdown's process.exit, which waits *)
(* for no request: what it was doing is lost, what had not reached it yet  *)
(* over a broken connection never will.                                    *)
Die(i) ==
    /\ failures < MaxFailures /\ failures' = failures + 1
    /\ i \in up /\ up' = up \ {i}
    /\ LET lost == {r \in Requests : Host(r) = i /\ \/ work[r] = "doing"
                                                    \/ work[r] = "none" /\ http[r] = "cut"}
       IN  /\ work' = [r \in Requests |-> IF r \in lost THEN "lost" ELSE work[r]]
           /\ http' = [r \in Requests |-> IF r \in lost THEN "cut" ELSE http[r]]
    /\ UNCHANGED <<consul, lastListed, Rest>>

(* A lookup is over when its timeout is.                                   *)
Tick ==
    /\ now < MaxTime
    /\ \A r \in Requests : at[r] \in {"looking", "found"} => now < asked[r] + LookupTimeout
    /\ now' = now + 1
    /\ UNCHANGED <<cluster, proxy, host>>

Next ==
    \/ \E r \in Requests :
          \/ Invalid(r) \/ CacheHit(r) \/ Lookup(r)
          \/ ConsulAnswers(r) \/ Discovered(r) \/ LookupFails(r)
          \/ Serve(r) \/ Break(r) \/ Complete(r)
          \/ Respond(r) \/ ConnectionRefused(r) \/ ConnectionLost(r)
    \/ \E i \in Instances :
          Start(i) \/ HealthCheck(i) \/ Deregister(i) \/ Die(i)
    \/ Tick

Spec == Init /\ [][Next]_vars

(* A lookup has a timeout; a connection is accepted, refused or reset; an  *)
(* instance answers what it accepts or dies over it.  Consul and the clock *)
(* owe nothing.                                                            *)
FairSpec ==
    /\ Spec
    /\ \A r \in Requests :
          /\ WF_vars(LookupFails(r))
          /\ WF_vars(http[r] = "sent" /\ (Serve(r) \/ ConnectionRefused(r)))
          /\ WF_vars(Respond(r)) /\ WF_vars(ConnectionLost(r))

-----------------------------------------------------------------------------
(* Properties.                                                             *)

LastListed(i) == IF consul[i] = "passing" THEN now ELSE lastListed[i]

Staleness == IF TTL > LookupTimeout THEN TTL ELSE LookupTimeout

(* A request is not sent to a discovered instance that Consul has not      *)
(* listed for longer than the cache's life or a lookup's timeout, although *)
(* answers are slow, overtake each other and overwrite newer ones.         *)
TargetsAreRecent ==
    [][\A r \in Requests : \A i \in Instances :
          at[r] # "waiting" /\ at'[r] = "waiting" /\ target'[r] = i
             => now - LastListed(i) <= Staleness]_vars

(* An order is not made twice, and one that is reported made was made:     *)
(* unlike the RPCs, a request is handled by one instance, once.            *)
AtMostOnce ==
    \A r \in Requests : served[r] <= 1 /\ (reply[r] \in {"ok", "failed"} => served[r] = 1)

(* What the client is told is what became of its request: it is answered   *)
(* as the order service answered, which has come to its end; or it was not *)
(* begun and never will be.  Only a connection that broke, by itself or    *)
(* with the instance, leaves a client in doubt: told "unavailable", it     *)
(* cannot know whether the order is being made, made, lost or not begun.   *)
AnswerIsTruthful ==
    \A r \in Requests : at[r] = "answered" =>
       \/ reply[r] \in {"ok", "failed"} /\ work[r] = "done"
       \/ reply[r] \in {"unavailable", "invalid"} /\ served[r] = 0
       \/ reply[r] = "unavailable" /\ http[r] = "cut"

(* Every request is answered, whatever Consul does and whoever dies.       *)
EveryRequestAnswered ==
    \A r \in Requests : at[r] \in {"looking", "waiting"} ~> at[r] = "answered"
=============================================================================
