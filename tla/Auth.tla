-------------------------------- MODULE Auth --------------------------------
(***************************************************************************)
(* The gateway's accounts: the workers of a cluster, which see to the      *)
(* default users before they serve, and the requests of auth.routes that   *)
(* they serve over one database: register, login, refresh and the two      *)
(* halves of a Google login.  Every await is a step.                       *)
(***************************************************************************)
EXTENDS Integers, Sequences

CONSTANTS
    Workers,      \* the processes that cluster.fork keeps running
    MaxRequests,  \* bound on the requests
    States,       \* the OAuth states that are drawn
    Emails,
    Defaults,     \* the emails ensureUser is called with, in order
    TokenLife,    \* JWT_REFRESH_EXPIRY
    RowLife,      \* how long a row of refresh_tokens is good for
    StateLife,    \* OAUTH_STATE_TTL_MS
    MaxTime,      \* bound on the clock
    MaxFailures,  \* bound on failed statements, starts and processes
    None          \* no account, no row, no answer

Requests == 1..MaxRequests

VARIABLES
    password,  \* table users: each account's password, if there is one
    tokens,    \* table refresh_tokens: when the row of a token expires
    now,       \* the clock
    phase,     \* how far each worker has come
    seed,      \* the default user it is at
    states,    \* each worker's oauthStateStore
    failures,  \* how often something has failed
    req,       \* what each request asks, and which worker it reached
    at,        \* where its handler stands
    answer,    \* what it was answered
    expiry,    \* when the refresh token it was given expires
    lapses     \* when an OAuth state expires

db    == <<password, tokens>>
procs == <<phase, seed, states, lapses>>
vars  == <<db, now, procs, failures, req, at, answer, expiry>>

(* A refresh token carries a random jti: it is named by the request that   *)
(* signed it.  A password is named by the request that chose it.           *)
Seeded == 0         \* the password of a default user
Wrong  == -1        \* one that is nobody's
NoHash == -2        \* the account was made by Google: there is no password

Served  == {"register", "create", "login", "sign", "purge", "refresh", "lookup",
            "user", "callback", "exchange", "upsert", "store"}
Issuing == {"register", "login", "callback"}
Answers == {"ok", "created", "bad request", "unauthorized", "conflict",
            "server error", "lost"}
Inputs  == [kind : Issuing \union {"refresh"}, worker : Workers, email : Emails,
            arg : Int \union States]

Names(i)   == i \in DOMAIN Defaults
Default(e) == \E i \in DOMAIN Defaults : Defaults[i] = e

ASSUME AuthAssumption ==
    /\ MaxRequests \in Nat \ {0} /\ MaxTime \in Nat /\ MaxFailures \in Nat
    /\ TokenLife \in Nat /\ RowLife \in Nat /\ StateLife \in Nat
    /\ TokenLife <= RowLife
    /\ Workers # {} /\ Defaults \in Seq(Emails) /\ Defaults # <<>>
    /\ None \notin Int \union Answers

TypeOK ==
    /\ password \in [Emails -> Requests \union {Seeded, NoHash, None}]
    /\ tokens \in [Requests -> Nat \union {None}]
    /\ now \in 0..MaxTime
    /\ phase \in [Workers -> {"find", "create", "connect", "serving", "down"}]
    /\ seed \in [Workers -> Nat]
    /\ \A w \in Workers : phase[w] \in {"find", "create"} => Names(seed[w])
    /\ states \in [Workers -> SUBSET States]
    /\ failures \in 0..MaxFailures
    /\ req \in [Requests -> Inputs \union {None}]
    /\ at \in [Requests -> Served \union {"idle", "done"}]
    /\ answer \in [Requests -> Answers \union {None}]
    /\ expiry \in [Requests -> Nat]
    /\ lapses \in [States -> Nat \union {None}]

(* The cluster starts, on an empty database or on one that a registration  *)
(* (request 1) and its token have been in since a time before.             *)
Init ==
    /\ \/ /\ password = [e \in Emails |-> None]
          /\ tokens = [r \in Requests |-> None]
          /\ req = [r \in Requests |-> None]
          /\ answer = [r \in Requests |-> None]
          /\ expiry = [r \in Requests |-> 0]
       \/ \E e \in {f \in Emails : ~Default(f)}, age \in 0..TokenLife :
             /\ password = [f \in Emails |-> IF f = e THEN 1 ELSE IF Default(f) THEN Seeded ELSE None]
             /\ tokens = [r \in Requests |-> IF r = 1 THEN RowLife - age ELSE None]
             /\ req = [r \in Requests |->
                         IF r # 1 THEN None
                         ELSE [kind |-> "register", worker |-> CHOOSE w \in Workers : TRUE,
                               email |-> e, arg |-> Wrong]]
             /\ answer = [r \in Requests |-> IF r = 1 THEN "created" ELSE None]
             /\ expiry = [r \in Requests |-> IF r = 1 THEN TokenLife - age ELSE 0]
    /\ now = 0
    /\ phase = [w \in Workers |-> "find"]
    /\ seed = [w \in Workers |-> 1]
    /\ states = [w \in Workers |-> {}]
    /\ failures = 0
    /\ at = [r \in Requests |-> IF r = 1 THEN "done" ELSE "idle"]
    /\ lapses = [s \in States |-> None]

Fail == failures < MaxFailures /\ failures' = failures + 1

-----------------------------------------------------------------------------
(* The start of a worker: ensureUser for each default user, then listen.   *)

Advance(w) ==
    /\ phase' = [phase EXCEPT ![w] = IF Names(seed[w] + 1) THEN "find" ELSE "connect"]
    /\ seed' = [seed EXCEPT ![w] = @ + 1]

Become(w, p) == phase' = [phase EXCEPT ![w] = p] /\ UNCHANGED seed

FindDefault(w) ==
    /\ phase[w] = "find"
    /\ IF password[Defaults[seed[w]]] # None THEN Advance(w) ELSE Become(w, "create")
    /\ UNCHANGED <<db, now, states, lapses, failures, req, at, answer, expiry>>

(* Another worker may have been faster: create throws, and start exits.    *)
CreateDefault(w) ==
    /\ phase[w] = "create"
    /\ LET e == Defaults[seed[w]]
       IN  IF password[e] # None
           THEN Become(w, "down") /\ UNCHANGED password
           ELSE Advance(w) /\ password' = [password EXCEPT ![e] = Seeded]
    /\ UNCHANGED <<tokens, now, states, lapses, failures, req, at, answer, expiry>>

Listen(w) ==
    /\ phase[w] = "connect"
    /\ Become(w, "serving")
    /\ UNCHANGED <<db, now, states, lapses, failures, req, at, answer, expiry>>

(* The process ends, in its start or later: what it was serving is never   *)
(* answered, and its states are gone.                                      *)
Exit(w) ==
    /\ phase[w] # "down"
    /\ Fail /\ Become(w, "down")
    /\ states' = [states EXCEPT ![w] = {}]
    /\ LET mine == {r \in Requests : at[r] \in Served /\ req[r].worker = w}
       IN  /\ at' = [r \in Requests |-> IF r \in mine THEN "done" ELSE at[r]]
           /\ answer' = [r \in Requests |-> IF r \in mine THEN "lost" ELSE answer[r]]
    /\ UNCHANGED <<db, now, lapses, req, expiry>>

(* Mutant: the primary only logs that a worker has exited.                 *)
ForksNothing(w) == phase[w] = "down" /\ UNCHANGED vars

(* cluster.on('exit'): the primary forks another worker.                   *)
Fork(w) ==
    /\ phase[w] = "down"
    /\ phase' = [phase EXCEPT ![w] = "find"]
    /\ seed' = [seed EXCEPT ![w] = 1]
    /\ UNCHANGED <<db, now, states, lapses, failures, req, at, answer, expiry>>

Tick ==
    /\ now < MaxTime
    /\ now' = now + 1
    /\ UNCHANGED <<db, procs, failures, req, at, answer, expiry>>

-----------------------------------------------------------------------------
(* The handlers.                                                           *)

Go(r, from, to)  == at[r] = from /\ at' = [at EXCEPT ![r] = to] /\ UNCHANGED answer
Reply(r, from, a) ==
    /\ at[r] = from
    /\ at' = [at EXCEPT ![r] = "done"]
    /\ answer' = [answer EXCEPT ![r] = a]

Granted(r) == answer[r] \in {"ok", "created"} /\ req[r].kind \in Issuing

(* What clients can send: a password that was accepted for the address or  *)
(* a wrong one, a token or a state they were given.                        *)
Asks(kind, e) ==
    CASE kind = "login" ->
            {r \in Requests : answer[r] = "created" /\ req[r].email = e}
                \union (IF Default(e) THEN {Seeded, Wrong} ELSE {Wrong})
      [] kind = "refresh"  -> {r \in Requests : Granted(r) /\ req[r].email = e}
      [] kind = "callback" -> {s \in States : lapses[s] # None}
      [] OTHER             -> {Wrong}

(* A request reaches one of the workers that listen.                       *)
Begin(r) ==
    /\ at[r] = "idle" /\ \A q \in Requests : q < r => at[q] # "idle"
    /\ \E kind \in Issuing \union {"refresh"}, w \in Workers, e \in Emails :
          \E arg \in Asks(kind, e) :
             /\ phase[w] = "serving"
             /\ req' = [req EXCEPT ![r] = [kind |-> kind, worker |-> w, email |-> e, arg |-> arg]]
             /\ at' = [at EXCEPT ![r] = kind]
    /\ UNCHANGED <<db, now, procs, failures, answer, expiry>>

(* A statement, or a call of Google, throws.                               *)
Throws(r) ==
    /\ at[r] \in Served \ {"sign"}
    /\ Fail /\ Reply(r, at[r], "server error")
    /\ UNCHANGED <<db, now, procs, req, expiry>>

Register(r) ==
    /\ at[r] = "register"
    /\ IF password[req[r].email] # None
       THEN Reply(r, "register", "conflict")
       ELSE Go(r, "register", "create")
    /\ UNCHANGED <<db, now, procs, failures, req, expiry>>

Sign(r) == expiry' = [expiry EXCEPT ![r] = now + TokenLife]

(* Mutant: users.email is not unique to the statement (an upsert).         *)
CreatesAnyway(r) ==
    /\ Go(r, "create", "store") /\ Sign(r)
    /\ password' = [password EXCEPT ![req[r].email] = r]
    /\ UNCHANGED <<tokens, now, procs, failures, req>>

(* The address may have been taken meanwhile: create throws.               *)
Create(r) ==
    /\ at[r] = "create"
    /\ IF password[req[r].email] # None
       THEN Reply(r, "create", "server error") /\ UNCHANGED <<password, expiry>>
       ELSE /\ Go(r, "create", "store") /\ Sign(r)
            /\ password' = [password EXCEPT ![req[r].email] = r]
    /\ UNCHANGED <<tokens, now, procs, failures, req>>

Login(r) ==
    /\ at[r] = "login"
    /\ IF password[req[r].email] \in {None, NoHash}
       THEN Reply(r, "login", "unauthorized")
       ELSE Go(r, "login", "sign")
    /\ UNCHANGED <<db, now, procs, failures, req, expiry>>

(* verifyPassword has compared; a hash never changes once it is there.     *)
Verify(r) ==
    /\ at[r] = "sign"
    /\ IF password[req[r].email] # req[r].arg
       THEN Reply(r, "sign", "unauthorized") /\ UNCHANGED expiry
       ELSE Go(r, "sign", "purge") /\ Sign(r)
    /\ UNCHANGED <<db, now, procs, failures, req>>

Row(t, e) == tokens[t] # None /\ req[t].email = e

(* Mutant: every token of the user is deleted.                             *)
PurgesAll(r) ==
    /\ Go(r, "purge", "store")
    /\ tokens' = [t \in Requests |-> IF Row(t, req[r].email) THEN None ELSE tokens[t]]
    /\ UNCHANGED <<password, now, procs, failures, req, expiry>>

(* deleteMany of the rows that had expired when the token was signed.      *)
Purge(r) ==
    /\ Go(r, "purge", "store")
    /\ tokens' = [t \in Requests |->
                    IF Row(t, req[r].email) /\ tokens[t] < expiry[r] - TokenLife
                    THEN None ELSE tokens[t]]
    /\ UNCHANGED <<password, now, procs, failures, req, expiry>>

(* The row's time was taken when the statement was sent, after the token   *)
(* had been signed.                                                        *)
Store(r) ==
    /\ Reply(r, "store", IF req[r].kind = "register" THEN "created" ELSE "ok")
    /\ \E sent \in (expiry[r] - TokenLife)..now :
          tokens' = [tokens EXCEPT ![r] = sent + RowLife]
    /\ UNCHANGED <<password, now, procs, failures, req, expiry>>

(* verifyRefreshToken.                                                     *)
Refresh(r) ==
    /\ at[r] = "refresh"
    /\ IF now >= expiry[req[r].arg]
       THEN Reply(r, "refresh", "unauthorized")
       ELSE Go(r, "refresh", "lookup")
    /\ UNCHANGED <<db, now, procs, failures, req, expiry>>

Lookup(r) ==
    /\ at[r] = "lookup"
    /\ LET row == tokens[req[r].arg]
       IN  IF row = None \/ (row # None /\ row < now)
           THEN Reply(r, "lookup", "unauthorized")
           ELSE Go(r, "lookup", "user")
    /\ UNCHANGED <<db, now, procs, failures, req, expiry>>

FindUser(r) ==
    /\ at[r] = "user"
    /\ Reply(r, "user", IF password[req[r].email] = None THEN "unauthorized" ELSE "ok")
    /\ UNCHANGED <<db, now, procs, failures, req, expiry>>

(* GET /google: the browser is sent to Google with a new state.            *)
Google(w, s) ==
    /\ phase[w] = "serving" /\ lapses[s] = None
    /\ states' = [states EXCEPT ![w] = @ \union {s}]
    /\ lapses' = [lapses EXCEPT ![s] = now + StateLife]
    /\ UNCHANGED <<db, now, phase, seed, failures, req, at, answer, expiry>>

(* Mutant: the state is deleted only when it is refused.                   *)
KeepsState(r) ==
    at[r] = "callback" /\
    LET s == req[r].arg IN
    LET w == req[r].worker IN
    /\ IF s \in states[w] /\ lapses[s] >= now
       THEN Go(r, "callback", "exchange") /\ UNCHANGED states
       ELSE Reply(r, "callback", "bad request") /\ states' = [states EXCEPT ![w] = @ \ {s}]
    /\ UNCHANGED <<db, now, phase, seed, lapses, failures, req, expiry>>

Callback(r) ==
    at[r] = "callback" /\
    LET s == req[r].arg IN
    LET w == req[r].worker IN
    /\ IF s \in states[w] /\ lapses[s] >= now
       THEN Go(r, "callback", "exchange")
       ELSE Reply(r, "callback", "bad request")
    /\ states' = [states EXCEPT ![w] = @ \ {s}]
    /\ UNCHANGED <<db, now, phase, seed, lapses, failures, req, expiry>>

(* The code for a token and the token for a profile.                       *)
Exchange(r) ==
    /\ Go(r, "exchange", "upsert") \/ Reply(r, "exchange", "unauthorized")
    /\ UNCHANGED <<db, now, procs, failures, req, expiry>>

(* Mutant: the update clears the password, as the create does.             *)
UpsertClears(r) ==
    /\ Go(r, "upsert", "store") /\ Sign(r)
    /\ password' = [password EXCEPT ![req[r].email] = NoHash]
    /\ UNCHANGED <<tokens, now, procs, failures, req>>

Upsert(r) ==
    /\ Go(r, "upsert", "store") /\ Sign(r)
    /\ password' = [password EXCEPT ![req[r].email] = IF @ = None THEN NoHash ELSE @]
    /\ UNCHANGED <<tokens, now, procs, failures, req>>

Handle(r) ==
    \/ Register(r) \/ Create(r) \/ Login(r) \/ Verify(r) \/ Purge(r) \/ Store(r)
    \/ Refresh(r) \/ Lookup(r) \/ FindUser(r)
    \/ Callback(r) \/ Exchange(r) \/ Upsert(r)

Boot(w) == FindDefault(w) \/ CreateDefault(w) \/ Listen(w) \/ Fork(w)

Done ==
    /\ \A r \in Requests : at[r] = "done"
    /\ UNCHANGED vars

Next ==
    \/ \E w \in Workers : FindDefault(w) \/ CreateDefault(w) \/ Listen(w) \/ Fork(w) \/ Exit(w)
    \/ \E w \in Workers, s \in States : Google(w, s)
    \/ \E r \in Requests : Begin(r) \/ Throws(r) \/ Handle(r)
    \/ Tick \/ Done

Spec == Init /\ [][Next]_vars

(* A start goes on until it serves or exits, and the primary forks.        *)
FairSpec == Spec /\ \A w \in Workers : WF_vars(Boot(w))

-----------------------------------------------------------------------------
(* Properties.                                                             *)

(* What a client who was answered 201 has registered stands: the account's *)
(* password stays the one it chose, whoever registers the same address at  *)
(* the same time or later, logs in with Google or starts a worker.         *)
RegistrationStands ==
    \A r \in Requests :
        req[r] # None => (answer[r] = "created" => password[req[r].email] = r)

(* A client with a password that was accepted is never told it is wrong:   *)
(* the one it registered with, or, as no worker serves before the default  *)
(* users exist, the one of a default user.                                 *)
LoginHonoured ==
    \A r \in Requests :
        answer[r] = "unauthorized" /\ req[r].kind = "login" => req[r].arg = Wrong

(* A refresh token that was handed out is honoured for as long as it says: *)
(* no login's purge, on any worker, takes it away before.                  *)
RefreshHonoured ==
    \A r \in Requests : answer[r] = "unauthorized" /\ req[r].kind = "refresh" =>
        now >= expiry[req[r].arg]

(* A state lets one callback through, however often it comes back.         *)
LetThrough(r) ==
    \/ at[r] \in {"exchange", "upsert"}
    \/ req[r] # None /\ req[r].kind = "callback"
          /\ (at[r] = "store" \/ answer[r] \in {"ok", "unauthorized"})
StateUsedOnce ==
    \A q, r \in Requests :
        q # r /\ LetThrough(q) /\ LetThrough(r) => req[q].arg # req[r].arg

(* Every worker gets to serve, though workers that start together get in   *)
(* each other's way: the one that loses exits and is forked again.         *)
EveryWorkerServes == \A w \in Workers : phase[w] # "serving" ~> phase[w] = "serving"
=============================================================================
