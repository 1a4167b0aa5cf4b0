----------------------------- MODULE Auth_proofs -----------------------------
(***************************************************************************)
(* Auth for every number of workers, requests, users and failures: its     *)
(* types, and what it owes a client that it has answered.                  *)
(***************************************************************************)
EXTENDS Auth, TLAPS

(* The default users, and what each stage of a start has seen to.          *)
AllSeeded == \A i \in DOMAIN Defaults : password[Defaults[i]] = Seeded
SeededAt(i) == password[Defaults[i]] \in {None, Seeded}
Booted(w) ==
    /\ phase[w] \in {"connect", "serving"} => AllSeeded
    /\ phase[w] \in {"find", "create"} =>
          \A i \in DOMAIN Defaults : i < seed[w] => password[Defaults[i]] = Seeded

(* Where a handler can stand, and what it has answered.                    *)
Shape(r) ==
    /\ at[r] \in Served => answer[r] = None /\ req[r] \in Inputs /\ AllSeeded
    /\ at[r] = "idle" => answer[r] = None /\ req[r] = None
    /\ answer[r] # None => at[r] = "done" /\ req[r] \in Inputs
    /\ at[r] \in {"register", "create"} => req[r].kind = "register"
    /\ at[r] \in {"login", "sign", "purge"} => req[r].kind = "login"
    /\ at[r] \in {"refresh", "lookup", "user"} => req[r].kind = "refresh"
    /\ at[r] \in {"callback", "exchange", "upsert"} => req[r].kind = "callback"
    /\ at[r] = "store" => req[r].kind \in Issuing

Signed(r) == at[r] \in {"purge", "store"} => TokenLife <= expiry[r] /\ expiry[r] <= now + TokenLife

(* A registration's password, and the account behind a token.              *)
Owned(r) ==
    /\ (at[r] = "store" /\ req[r].kind = "register") \/ answer[r] = "created"
          => password[req[r].email] = r
    /\ at[r] \in {"sign", "purge", "store"} \/ Granted(r) => password[req[r].email] # None

(* A granted token's row outlives it.                                      *)
Kept(r) == Granted(r) => now > expiry[r] \/ (tokens[r] \in Nat /\ expiry[r] <= tokens[r])

Asked(r) == at[r] \in Served \/ answer[r] # None
Refreshes(r) ==
    Asked(r) /\ req[r].kind = "refresh" =>
        /\ req[r].arg \in Requests /\ Granted(req[r].arg)
        /\ req[req[r].arg].email = req[r].email
        /\ answer[r] = "unauthorized" => now >= expiry[req[r].arg]

Accepted(p, e) ==
    \/ p = Seeded /\ Default(e)
    \/ p \in Requests /\ answer[p] = "created" /\ req[p].email = e
LogsIn(r) ==
    Asked(r) /\ req[r].kind = "login" =>
        /\ req[r].arg = Wrong \/ Accepted(req[r].arg, req[r].email)
        /\ answer[r] = "unauthorized" => req[r].arg = Wrong

Local(r) == Shape(r) /\ Signed(r) /\ Owned(r) /\ Kept(r) /\ Refreshes(r) /\ LogsIn(r)

IInv ==
    /\ TypeOK
    /\ \A i \in DOMAIN Defaults : SeededAt(i)
    /\ \A w \in Workers : Booted(w)
    /\ \A r \in Requests : Local(r)

-----------------------------------------------------------------------------
(* The bounds as the provers use them.                                     *)
LEMMA Bounds ==
    /\ Requests \subseteq Nat \ {0} /\ None \notin Int
    /\ DOMAIN Defaults = 1..Len(Defaults) /\ Len(Defaults) \in Nat \ {0}
    /\ \A i \in DOMAIN Defaults : Defaults[i] \in Emails
    /\ Seeded \notin Requests /\ NoHash \notin Requests /\ Wrong \notin Requests
    /\ None # Seeded /\ None # NoHash /\ Seeded # NoHash /\ Seeded # Wrong
<1>1. Requests \subseteq Nat \ {0}
  BY AuthAssumption DEF Requests
<1>2. DOMAIN Defaults = 1..Len(Defaults) /\ Len(Defaults) \in Nat
      /\ \A i \in DOMAIN Defaults : Defaults[i] \in Emails
  BY AuthAssumption
<1>3. Len(Defaults) # 0
  BY AuthAssumption
<1>4. None # Seeded /\ None # NoHash /\ None \notin Int
  BY AuthAssumption DEF Seeded, NoHash
<1>5. Seeded \notin Requests /\ NoHash \notin Requests /\ Wrong \notin Requests
      /\ Seeded # NoHash /\ Seeded # Wrong
  BY <1>1 DEF Seeded, NoHash, Wrong
<1> QED
  BY <1>1, <1>2, <1>3, <1>4, <1>5

(* A step that takes no account away, turns no clock back and revokes no   *)
(* answer.                                                                 *)
Steady ==
    /\ \A e \in Emails : password[e] # None => password'[e] = password[e]
    /\ \A e \in Emails : Default(e) /\ password[e] = None => password'[e] \in {None, Seeded}
    /\ now' \in Nat /\ now <= now'
    /\ \A q \in Requests : answer[q] # None =>
          answer'[q] = answer[q] /\ req'[q] = req[q] /\ expiry'[q] = expiry[q]

(* What such a step leaves in place: the seeding, and the invariant of     *)
(* every request that it does not touch itself.                            *)
LEMMA SeedingStays ==
    ASSUME IInv, Steady
    PROVE  /\ AllSeeded => AllSeeded'
           /\ (\A i \in DOMAIN Defaults : SeededAt(i))'
           /\ \A i \in DOMAIN Defaults :
                 password[Defaults[i]] = Seeded => password'[Defaults[i]] = Seeded
<1>1. \A i \in DOMAIN Defaults : Defaults[i] \in Emails /\ Default(Defaults[i])
  BY Bounds DEF Default
<1>2. \A i \in DOMAIN Defaults :
         password[Defaults[i]] = Seeded => password'[Defaults[i]] = Seeded
  BY <1>1, Bounds DEF Steady
<1>3. \A i \in DOMAIN Defaults : password'[Defaults[i]] \in {None, Seeded}
  BY <1>1, <1>2, Bounds DEF Steady, IInv, SeededAt
<1> QED
  BY <1>2, <1>3 DEF AllSeeded, SeededAt

LEMMA BootStays ==
    ASSUME IInv, Steady, NEW w \in Workers, phase'[w] = phase[w], seed'[w] = seed[w]
    PROVE  Booted(w)'
  BY SeedingStays DEF Booted, IInv, AllSeeded

LEMMA GrantStays ==
    ASSUME IInv, Steady
    PROVE  /\ \A q \in Requests : Granted(q) =>
                 Granted(q)' /\ req'[q] = req[q] /\ expiry'[q] = expiry[q]
           /\ \A p, e : Accepted(p, e) => Accepted(p, e)'
<1>1. \A q \in Requests : Granted(q) => answer[q] # None
  BY AuthAssumption DEF Granted, Answers
<1>2. \A q \in Requests : answer[q] = "created" => answer[q] # None
  BY AuthAssumption DEF Answers
<1> QED
  BY <1>1, <1>2 DEF Steady, Granted, Accepted

LEMMA OthersStay ==
    ASSUME IInv, Steady, NEW q \in Requests,
           at'[q] = at[q], answer'[q] = answer[q], req'[q] = req[q], expiry'[q] = expiry[q],
           tokens'[q] = tokens[q] \/ (tokens[q] \in Nat /\ tokens[q] < now')
    PROVE  Local(q)'
<1> USE DEF IInv
<1>1. Local(q) /\ Shape(q) /\ Signed(q) /\ Owned(q) /\ Kept(q) /\ Refreshes(q) /\ LogsIn(q)
  BY DEF Local
<1>2. Shape(q)'
  BY <1>1, SeedingStays DEF Shape
<1>3. Granted(q)' <=> Granted(q)
  BY DEF Granted
<1>4. Signed(q)'
  <2>1. expiry[q] \in Nat /\ now \in Nat /\ now' \in Nat /\ now <= now'
    BY DEF TypeOK, Steady
  <2> QED
    BY <1>1, <2>1, AuthAssumption DEF Signed
<1>5. at[q] \in Served \/ answer[q] # None => req[q] \in Inputs
  BY <1>1 DEF Shape
<1>6. (at[q] = "store" \/ answer[q] = "created" \/ at[q] \in {"sign", "purge", "store"} \/ Granted(q))
         => req[q].email \in Emails
  BY <1>5, AuthAssumption DEF Served, Inputs, Granted, Answers
<1>7. Owned(q)'
  BY <1>1, <1>3, <1>6, Bounds DEF Owned, Steady
<1>8. Kept(q)'
  <2>1. expiry[q] \in Nat /\ now \in Nat /\ now' \in Nat /\ now <= now'
    BY DEF TypeOK, Steady
  <2> QED
    BY <1>1, <1>3, <2>1 DEF Kept
<1>9. Refreshes(q)'
  <2> SUFFICES ASSUME Asked(q), req[q].kind = "refresh" PROVE Refreshes(q)'
    BY DEF Refreshes, Asked
  <2> DEFINE t == req[q].arg
  <2>1. t \in Requests /\ Granted(t) /\ req[t].email = req[q].email
        /\ (answer[q] = "unauthorized" => now >= expiry[t])
    BY <1>1 DEF Refreshes
  <2>2. Granted(t)' /\ req'[t] = req[t] /\ expiry'[t] = expiry[t]
    BY <2>1, GrantStays
  <2>3. expiry[t] \in Nat /\ now \in Nat /\ now' \in Nat /\ now <= now'
    BY <2>1 DEF TypeOK, Steady
  <2>4. answer[q] = "unauthorized" => now' >= expiry'[t]
    BY <2>1, <2>2, <2>3
  <2> HIDE DEF t
  <2> QED
    BY <2>1, <2>2, <2>4 DEF Refreshes, t
<1>10. LogsIn(q)'
  BY <1>1, GrantStays DEF LogsIn, Asked
<1> QED
  BY <1>2, <1>4, <1>7, <1>8, <1>9, <1>10 DEF Local

(* A step of a worker that concerns no request.                            *)
LEMMA BootStep ==
    ASSUME IInv, NEW w \in Workers,
           UNCHANGED <<tokens, now, failures, req, at, answer, expiry>>,
           TypeOK', Booted(w)',
           \A v \in Workers : v # w => phase'[v] = phase[v] /\ seed'[v] = seed[v],
           \A e \in Emails : password[e] # None => password'[e] = password[e],
           \A e \in Emails : password[e] = None => password'[e] \in {None, Seeded}
    PROVE  IInv'
<1>1. Steady
  BY DEF Steady, IInv, TypeOK
<1>2. \A v \in Workers : Booted(v)'
  BY <1>1, BootStays
<1>3. \A r \in Requests : Local(r)'
  BY <1>1, OthersStay
<1> QED
  BY <1>1, <1>2, <1>3, SeedingStays DEF IInv

(* A step of the handler of r.                                             *)
LEMMA HandlerStep ==
    ASSUME IInv, Steady, NEW r \in Requests,
           UNCHANGED <<phase, seed>>, TypeOK', Local(r)',
           \A q \in Requests : q # r =>
              /\ at'[q] = at[q] /\ answer'[q] = answer[q] /\ req'[q] = req[q]
              /\ expiry'[q] = expiry[q]
              /\ tokens'[q] = tokens[q] \/ (tokens[q] \in Nat /\ tokens[q] < now')
    PROVE  IInv'
<1>1. \A v \in Workers : Booted(v)'
  BY BootStays
<1>2. \A q \in Requests : Local(q)'
  BY OthersStay
<1> QED
  BY <1>1, <1>2, SeedingStays DEF IInv

-----------------------------------------------------------------------------
(* The start of a worker.                                                  *)
LEMMA AdvanceBoots ==
    ASSUME TypeOK, NEW w \in Workers, Booted(w), phase[w] \in {"find", "create"}, Advance(w),
           password'[Defaults[seed[w]]] = Seeded,
           \A i \in DOMAIN Defaults :
              password[Defaults[i]] = Seeded => password'[Defaults[i]] = Seeded
    PROVE  /\ phase' \in [Workers -> {"find", "create", "connect", "serving", "down"}]
           /\ seed' \in [Workers -> Nat]
           /\ \A v \in Workers : phase'[v] \in {"find", "create"} => Names(seed'[v])
           /\ Booted(w)'
<1>1. /\ seed[w] \in DOMAIN Defaults /\ seed[w] \in Nat
      /\ \A i \in DOMAIN Defaults : i < seed[w] => password[Defaults[i]] = Seeded
  BY DEF TypeOK, Booted, Names
<1>2. /\ phase' = [phase EXCEPT ![w] = IF Names(seed[w] + 1) THEN "find" ELSE "connect"]
      /\ seed' = [seed EXCEPT ![w] = seed[w] + 1]
  BY DEF Advance
<1>3. seed'[w] = seed[w] + 1 /\ seed' \in [Workers -> Nat]
  BY <1>1, <1>2 DEF TypeOK
<1>4. \/ phase'[w] = "find" /\ Names(seed'[w])
      \/ phase'[w] = "connect" /\ ~Names(seed'[w])
  BY <1>2, <1>3 DEF TypeOK
<1>5. \A i \in DOMAIN Defaults : i < seed'[w] => password'[Defaults[i]] = Seeded
  <2>1. \A i \in DOMAIN Defaults : i < seed'[w] => i < seed[w] \/ i = seed[w]
    BY <1>1, <1>3, Bounds
  <2> QED
    BY <1>1, <2>1
<1>6. ~Names(seed'[w]) => \A i \in DOMAIN Defaults : i < seed'[w]
  BY <1>1, <1>3, Bounds DEF Names
<1>7. Booted(w)'
  BY <1>4, <1>5, <1>6 DEF Booted, AllSeeded
<1>8. phase' \in [Workers -> {"find", "create", "connect", "serving", "down"}]
  BY <1>2 DEF TypeOK
<1>9. \A v \in Workers : phase'[v] \in {"find", "create"} => Names(seed'[v])
  BY <1>2, <1>4 DEF TypeOK
<1> QED
  BY <1>3, <1>7, <1>8, <1>9

LEMMA FindDefaultStep == ASSUME IInv, NEW w \in Workers, FindDefault(w) PROVE IInv'
<1> USE DEF IInv
<1>1. /\ phase[w] = "find" /\ UNCHANGED <<db, now, states, lapses, failures, req, at, answer, expiry>>
      /\ \/ password[Defaults[seed[w]]] # None /\ Advance(w)
         \/ phase' = [phase EXCEPT ![w] = "create"] /\ UNCHANGED seed
  BY DEF FindDefault, Become
<1>2. \A v \in Workers : v # w => phase'[v] = phase[v] /\ seed'[v] = seed[v]
  BY <1>1 DEF TypeOK, Advance
<1>3. seed[w] \in DOMAIN Defaults
  BY <1>1 DEF TypeOK, Names
<1>4. /\ phase' \in [Workers -> {"find", "create", "connect", "serving", "down"}]
      /\ seed' \in [Workers -> Nat]
      /\ \A v \in Workers : phase'[v] \in {"find", "create"} => Names(seed'[v])
      /\ Booted(w)'
  <2>1. CASE password[Defaults[seed[w]]] # None /\ Advance(w)
    <3>1. password'[Defaults[seed[w]]] = Seeded
      BY <1>1, <1>3, <2>1 DEF SeededAt, db
    <3> QED
      BY <1>1, <2>1, <3>1, AdvanceBoots DEF db
  <2>2. CASE phase' = [phase EXCEPT ![w] = "create"] /\ UNCHANGED seed
    BY <1>1, <2>2 DEF TypeOK, Booted, AllSeeded, db
  <2> QED
    BY <1>1, <2>1, <2>2
<1>5. TypeOK'
  BY <1>1, <1>4 DEF TypeOK, db
<1> QED
  BY <1>1, <1>2, <1>4, <1>5, BootStep DEF db

LEMMA CreateDefaultStep == ASSUME IInv, NEW w \in Workers, CreateDefault(w) PROVE IInv'
<1> USE DEF IInv
<1> DEFINE e == Defaults[seed[w]]
<1>1. /\ phase[w] = "create"
      /\ UNCHANGED <<tokens, now, states, lapses, failures, req, at, answer, expiry>>
      /\ \/ phase' = [phase EXCEPT ![w] = "down"] /\ UNCHANGED <<seed, password>>
         \/ /\ password[e] = None /\ Advance(w)
            /\ password' = [password EXCEPT ![e] = Seeded]
  BY DEF CreateDefault, Become
<1>2. \A v \in Workers : v # w => phase'[v] = phase[v] /\ seed'[v] = seed[v]
  BY <1>1 DEF TypeOK, Advance
<1>3. seed[w] \in DOMAIN Defaults /\ e \in Emails
  BY <1>1, Bounds DEF TypeOK, Names
<1> HIDE DEF e
<1>4. /\ \A f \in Emails : password'[f] = password[f]
            \/ (f = e /\ password[e] = None /\ password'[f] = Seeded)
      /\ password' \in [Emails -> Requests \union {Seeded, NoHash, None}]
  BY <1>1, <1>3 DEF TypeOK
<1>5. /\ phase' \in [Workers -> {"find", "create", "connect", "serving", "down"}]
      /\ seed' \in [Workers -> Nat]
      /\ \A v \in Workers : phase'[v] \in {"find", "create"} => Names(seed'[v])
      /\ Booted(w)'
  <2>1. CASE phase' = [phase EXCEPT ![w] = "down"] /\ UNCHANGED <<seed, password>>
    BY <1>1, <2>1 DEF TypeOK, Booted
  <2>2. CASE password[e] = None /\ Advance(w) /\ password' = [password EXCEPT ![e] = Seeded]
    <3>1. password'[Defaults[seed[w]]] = Seeded
      BY <1>3, <2>2 DEF TypeOK, e
    <3>2. \A i \in DOMAIN Defaults :
             password[Defaults[i]] = Seeded => password'[Defaults[i]] = Seeded
      BY <1>4, Bounds
    <3> QED
      BY <1>1, <2>2, <3>1, <3>2, AdvanceBoots
  <2> QED
    BY <1>1, <2>1, <2>2
<1>6. TypeOK'
  BY <1>1, <1>4, <1>5 DEF TypeOK
<1>7. /\ \A f \in Emails : password[f] # None => password'[f] = password[f]
      /\ \A f \in Emails : password[f] = None => password'[f] \in {None, Seeded}
  BY <1>4
<1> QED
  BY <1>1, <1>2, <1>5, <1>6, <1>7, BootStep

LEMMA ListenStep == ASSUME IInv, NEW w \in Workers, Listen(w) PROVE IInv'
<1> USE DEF IInv
<1>1. /\ phase[w] = "connect" /\ phase' = [phase EXCEPT ![w] = "serving"]
      /\ UNCHANGED <<seed, db, now, states, lapses, failures, req, at, answer, expiry>>
  BY DEF Listen, Become
<1>2. TypeOK'
  BY <1>1 DEF TypeOK, db
<1>3. Booted(w)'
  BY <1>1 DEF Booted, AllSeeded, db, TypeOK
<1>4. \A v \in Workers : v # w => phase'[v] = phase[v] /\ seed'[v] = seed[v]
  BY <1>1 DEF TypeOK
<1> QED
  BY <1>1, <1>2, <1>3, <1>4, BootStep DEF db

LEMMA ForkStep == ASSUME IInv, NEW w \in Workers, Fork(w) PROVE IInv'
<1> USE DEF IInv
<1>1. /\ phase' = [phase EXCEPT ![w] = "find"] /\ seed' = [seed EXCEPT ![w] = 1]
      /\ UNCHANGED <<db, now, states, lapses, failures, req, at, answer, expiry>>
  BY DEF Fork
<1>2. Names(1) /\ \A i \in DOMAIN Defaults : ~(i < 1)
  BY Bounds DEF Names
<1>3. TypeOK'
  BY <1>1, <1>2 DEF TypeOK, db
<1>4. Booted(w)'
  <2>1. phase'[w] = "find" /\ seed'[w] = 1
    BY <1>1 DEF TypeOK
  <2> QED
    BY <1>2, <2>1 DEF Booted
<1>5. \A v \in Workers : v # w => phase'[v] = phase[v] /\ seed'[v] = seed[v]
  BY <1>1 DEF TypeOK
<1> QED
  BY <1>1, <1>3, <1>4, <1>5, BootStep DEF db

-----------------------------------------------------------------------------
(* A handler that goes on, and one that ends without having granted a      *)
(* token.                                                                  *)
LEMMA GoesOn ==
    ASSUME IInv, Steady, NEW r \in Requests,
           at[r] \in Served, at'[r] \in Served, answer'[r] = answer[r], req'[r] = req[r],
           at'[r] \in {"register", "create"} => req[r].kind = "register",
           at'[r] \in {"login", "sign", "purge"} => req[r].kind = "login",
           at'[r] \in {"refresh", "lookup", "user"} => req[r].kind = "refresh",
           at'[r] \in {"callback", "exchange", "upsert"} => req[r].kind = "callback",
           at'[r] = "store" => req[r].kind \in Issuing,
           Signed(r)',
           at'[r] = "store" /\ req[r].kind = "register" => password'[req[r].email] = r,
           at'[r] \in {"sign", "purge", "store"} => password'[req[r].email] # None
    PROVE  Local(r)'
<1> USE DEF IInv
<1>1. answer[r] = None /\ req[r] \in Inputs /\ AllSeeded
  BY DEF Local, Shape
<1>2. answer'[r] = None /\ answer'[r] \notin Answers
  BY <1>1, AuthAssumption
<1>3. ~Granted(r)' /\ answer'[r] # "created" /\ answer'[r] # "unauthorized"
  BY <1>2 DEF Granted, Answers
<1>4. Shape(r)'
  BY <1>1, <1>2, SeedingStays DEF Shape, Served
<1>5. Owned(r)'
  BY <1>3 DEF Owned
<1>6. Kept(r)'
  BY <1>3 DEF Kept
<1>7. Refreshes(r)'
  BY <1>3, GrantStays DEF Refreshes, Local, Asked
<1>8. LogsIn(r)'
  BY <1>3, GrantStays DEF LogsIn, Local, Asked
<1> QED
  BY <1>4, <1>5, <1>6, <1>7, <1>8 DEF Local

LEMMA Ends ==
    ASSUME IInv, Steady, NEW r \in Requests,
           at[r] \in Served, at'[r] = "done", answer'[r] \in Answers, req'[r] = req[r],
           answer'[r] # "created",
           answer'[r] = "ok" => req[r].kind = "refresh",
           answer'[r] = "unauthorized" /\ req[r].kind = "refresh" => now' >= expiry'[req[r].arg],
           answer'[r] = "unauthorized" /\ req[r].kind = "login" => req[r].arg = Wrong
    PROVE  Local(r)'
<1> USE DEF IInv
<1>1. answer[r] = None /\ req[r] \in Inputs
  BY DEF Local, Shape
<1>2. ~Granted(r)'
  BY DEF Granted, Issuing
<1>3. Shape(r)'
  BY <1>1 DEF Shape, Served
<1>4. Signed(r)' /\ Owned(r)' /\ Kept(r)'
  BY <1>2 DEF Signed, Owned, Kept
<1>5. Refreshes(r)'
  BY GrantStays DEF Refreshes, Local, Asked
<1>6. LogsIn(r)'
  BY GrantStays DEF LogsIn, Local, Asked
<1> QED
  BY <1>3, <1>4, <1>5, <1>6 DEF Local

-----------------------------------------------------------------------------
(* Exits, the clock, and the first half of a Google login.                 *)
LEMMA ExitStep == ASSUME IInv, NEW w \in Workers, Exit(w) PROVE IInv'
<1> USE DEF IInv
<1> DEFINE mine == {r \in Requests : at[r] \in Served /\ req[r].worker = w}
<1>1. /\ failures < MaxFailures /\ failures' = failures + 1
      /\ phase' = [phase EXCEPT ![w] = "down"] /\ states' = [states EXCEPT ![w] = {}]
      /\ at' = [r \in Requests |-> IF r \in mine THEN "done" ELSE at[r]]
      /\ answer' = [r \in Requests |-> IF r \in mine THEN "lost" ELSE answer[r]]
      /\ UNCHANGED <<seed, db, now, lapses, req, expiry>>
  BY DEF Exit, Fail, Become
<1>2. \A r \in mine : r \in Requests /\ at[r] \in Served /\ answer[r] = None
  BY DEF Local, Shape
<1> HIDE DEF mine
<1>3. \A r \in Requests :
         \/ r \in mine /\ at'[r] = "done" /\ answer'[r] = "lost"
         \/ r \notin mine /\ at'[r] = at[r] /\ answer'[r] = answer[r]
  BY <1>1
<1>4. failures' \in 0..MaxFailures
  BY <1>1, AuthAssumption DEF TypeOK
<1>5. TypeOK'
  <2>1. at' \in [Requests -> Served \union {"idle", "done"}]
        /\ answer' \in [Requests -> Answers \union {None}]
    BY <1>1 DEF TypeOK, Answers
  <2>2. phase' \in [Workers -> {"find", "create", "connect", "serving", "down"}]
        /\ \A v \in Workers : phase'[v] \in {"find", "create"} => Names(seed'[v])
        /\ states' \in [Workers -> SUBSET States]
    BY <1>1 DEF TypeOK
  <2> QED
    BY <1>1, <1>4, <2>1, <2>2 DEF TypeOK, db
<1>6. Steady
  BY <1>1, <1>2, <1>3 DEF Steady, db, TypeOK
<1>7. \A v \in Workers : Booted(v)'
  <2>1. \A v \in Workers : v # w => phase'[v] = phase[v] /\ seed'[v] = seed[v]
    BY <1>1 DEF TypeOK
  <2>2. Booted(w)'
    BY <1>1 DEF Booted, TypeOK
  <2> QED
    BY <1>6, <2>1, <2>2, BootStays
<1>8. ASSUME NEW r \in Requests PROVE Local(r)'
  <2>1. CASE r \in mine
    BY <1>1, <1>2, <1>3, <1>6, <2>1, Ends DEF Answers
  <2>2. CASE r \notin mine
    BY <1>1, <1>3, <1>6, <2>2, OthersStay DEF db
  <2> QED
    BY <2>1, <2>2
<1> QED
  BY <1>5, <1>6, <1>7, <1>8, SeedingStays

LEMMA TickStep == ASSUME IInv, Tick PROVE IInv'
<1> USE DEF IInv
<1>1. now \in Nat /\ now' = now + 1 /\ now' \in 0..MaxTime /\ now <= now' /\ now' \in Nat
  BY AuthAssumption DEF Tick, TypeOK
<1>2. UNCHANGED <<db, procs, failures, req, at, answer, expiry>>
  BY DEF Tick
<1>3. TypeOK'
  BY <1>1, <1>2 DEF TypeOK, db, procs
<1>4. Steady
  BY <1>1, <1>2 DEF Steady, db
<1> QED
  BY <1>2, <1>3, <1>4, BootStays, OthersStay, SeedingStays DEF db, procs

LEMMA GoogleStep == ASSUME IInv, NEW w \in Workers, NEW s \in States, Google(w, s) PROVE IInv'
<1> USE DEF IInv
<1>1. /\ states' = [states EXCEPT ![w] = states[w] \union {s}]
      /\ lapses' = [lapses EXCEPT ![s] = now + StateLife]
      /\ UNCHANGED <<db, now, phase, seed, failures, req, at, answer, expiry>>
  BY DEF Google
<1>2. now + StateLife \in Nat
  BY AuthAssumption DEF TypeOK
<1>3. TypeOK'
  BY <1>1, <1>2 DEF TypeOK, db
<1>4. Booted(w)'
  BY <1>1 DEF Booted, AllSeeded, db
<1> QED
  BY <1>1, <1>3, <1>4, BootStep DEF db

-----------------------------------------------------------------------------
(* Steps of a handler that change no table.                                *)
Quiet == /\ UNCHANGED <<db, now, phase, seed, lapses, req, expiry>>
         /\ states' \in [Workers -> SUBSET States]
         /\ failures' \in 0..MaxFailures

LEMMA QuietIsSteady ==
    ASSUME IInv, NEW r \in Requests, Quiet, at[r] \in Served,
           \A q \in Requests : q # r => answer'[q] = answer[q]
    PROVE  Steady
<1>1. answer[r] = None
  BY DEF IInv, Local, Shape
<1> QED
  BY <1>1 DEF Quiet, Steady, db, IInv, TypeOK

LEMMA RepliesQuietly ==
    ASSUME IInv, NEW r \in Requests, NEW from \in Served, NEW a \in Answers, Reply(r, from, a),
           Quiet, a # "created",
           a = "ok" => req[r].kind = "refresh",
           a = "unauthorized" /\ req[r].kind = "refresh" => now >= expiry[req[r].arg],
           a = "unauthorized" /\ req[r].kind = "login" => req[r].arg = Wrong
    PROVE  IInv'
<1>1. at[r] = from /\ at' = [at EXCEPT ![r] = "done"] /\ answer' = [answer EXCEPT ![r] = a]
  BY DEF Reply
<1>2. /\ at'[r] = "done" /\ answer'[r] = a
      /\ \A q \in Requests : q # r => at'[q] = at[q] /\ answer'[q] = answer[q]
      /\ at' \in [Requests -> Served \union {"idle", "done"}]
      /\ answer' \in [Requests -> Answers \union {None}]
  BY <1>1 DEF IInv, TypeOK
<1>3. TypeOK'
  BY <1>2 DEF IInv, TypeOK, Quiet, db
<1>4. Steady
  BY <1>1, <1>2, QuietIsSteady
<1>5. Local(r)'
  BY <1>1, <1>2, <1>4, Ends DEF Quiet
<1> QED
  BY <1>2, <1>3, <1>4, <1>5, HandlerStep DEF Quiet, db

LEMMA GoesQuietly ==
    ASSUME IInv, NEW r \in Requests, NEW from \in Served, NEW to \in Served, Go(r, from, to),
           Quiet, to \notin {"purge", "store"},
           to \in {"register", "create"} => req[r].kind = "register",
           to \in {"login", "sign"} => req[r].kind = "login",
           to \in {"refresh", "lookup", "user"} => req[r].kind = "refresh",
           to \in {"callback", "exchange", "upsert"} => req[r].kind = "callback",
           to = "sign" => password[req[r].email] # None
    PROVE  IInv'
<1>1. at[r] = from /\ at' = [at EXCEPT ![r] = to] /\ answer' = answer
  BY DEF Go
<1>2. /\ at'[r] = to /\ answer'[r] = answer[r]
      /\ \A q \in Requests : q # r => at'[q] = at[q] /\ answer'[q] = answer[q]
      /\ at' \in [Requests -> Served \union {"idle", "done"}]
  BY <1>1 DEF IInv, TypeOK
<1>3. TypeOK'
  BY <1>1, <1>2 DEF IInv, TypeOK, Quiet, db
<1>4. Steady
  BY <1>1, <1>2, QuietIsSteady
<1>5. Signed(r)'
  BY <1>2 DEF Signed
<1>6. req'[r] = req[r] /\ password'[req[r].email] = password[req[r].email]
  BY DEF Quiet, db
<1>7. Local(r)'
  BY <1>1, <1>2, <1>4, <1>5, <1>6, GoesOn
<1> QED
  BY <1>2, <1>3, <1>4, <1>7, HandlerStep DEF Quiet, db

LEMMA ThrowsStep == ASSUME IInv, NEW r \in Requests, Throws(r) PROVE IInv'
<1>1. /\ at[r] \in Served /\ Reply(r, at[r], "server error")
      /\ failures < MaxFailures /\ failures' = failures + 1
      /\ UNCHANGED <<db, now, procs, req, expiry>>
  BY DEF Throws, Fail
<1>2. failures' \in 0..MaxFailures
  <2>1. failures \in 0..MaxFailures /\ MaxFailures \in Nat
    BY AuthAssumption DEF IInv, TypeOK
  <2>2. failures < MaxFailures /\ failures' = failures + 1
    BY <1>1
  <2> QED
    BY <2>1, <2>2
<1>3. Quiet
  BY <1>1, <1>2 DEF Quiet, procs, IInv, TypeOK
<1> QED
  BY <1>1, <1>3, RepliesQuietly DEF Answers

(* The handlers' unguarded part.                                           *)
LEMMA Unmoved ==
    ASSUME IInv, UNCHANGED <<db, now, procs, failures, req, expiry>>
    PROVE  Quiet
  BY DEF Quiet, procs, IInv, TypeOK

LEMMA At == ASSUME IInv, NEW r \in Requests, at[r] \in Served
            PROVE  /\ Local(r) /\ Shape(r) /\ Signed(r) /\ Owned(r) /\ Kept(r)
                   /\ Refreshes(r) /\ LogsIn(r) /\ AllSeeded /\ answer[r] = None /\ Asked(r)
                   /\ req[r] \in Inputs /\ req[r].email \in Emails
  BY DEF IInv, Local, Shape, Inputs, Asked

LEMMA BeginStep == ASSUME IInv, NEW r \in Requests, Begin(r) PROVE IInv'
<1> USE DEF IInv
<1>0. PICK kind \in Issuing \union {"refresh"}, w \in Workers, e \in Emails :
         \E arg \in Asks(kind, e) :
            /\ phase[w] = "serving"
            /\ req' = [req EXCEPT ![r] = [kind |-> kind, worker |-> w, email |-> e, arg |-> arg]]
            /\ at' = [at EXCEPT ![r] = kind]
  BY Zenon DEF Begin
<1>1. PICK arg \in Asks(kind, e) :
         /\ phase[w] = "serving"
         /\ req' = [req EXCEPT ![r] = [kind |-> kind, worker |-> w, email |-> e, arg |-> arg]]
         /\ at' = [at EXCEPT ![r] = kind]
  BY <1>0
<1>2. at[r] = "idle" /\ UNCHANGED <<db, now, procs, failures, answer, expiry>>
  BY DEF Begin
<1>3. /\ kind = "login" => arg = Wrong \/ Accepted(arg, e)
      /\ kind = "refresh" => arg \in Requests /\ Granted(arg) /\ req[arg].email = e
      /\ arg \in Int \union States
  BY Bounds DEF Asks, Accepted, Issuing, Wrong, Seeded
<1>4. answer[r] = None
  BY <1>2 DEF Local, Shape
<1>5. /\ req'[r] = [kind |-> kind, worker |-> w, email |-> e, arg |-> arg]
      /\ req'[r] \in Inputs /\ at'[r] = kind /\ kind \in Served
      /\ \A q \in Requests : q # r => req'[q] = req[q] /\ at'[q] = at[q]
  BY <1>1, <1>3 DEF TypeOK, Inputs, Issuing, Served
<1>6. TypeOK'
  <2>1. req' \in [Requests -> Inputs \union {None}]
    BY <1>1, <1>5 DEF TypeOK
  <2>2. at' \in [Requests -> Served \union {"idle", "done"}]
    BY <1>1, <1>5 DEF TypeOK
  <2> QED
    BY <1>2, <2>1, <2>2 DEF TypeOK, db, procs
<1>7. Steady
  BY <1>2, <1>4, <1>5 DEF Steady, db, TypeOK
<1>8. Local(r)'
  <2>1. ~Granted(r)' /\ answer'[r] = None /\ answer'[r] # "created" /\ answer'[r] # "unauthorized"
    BY <1>2, <1>4, AuthAssumption DEF Granted, Answers
  <2>2. AllSeeded'
    BY <1>1, <1>7, SeedingStays DEF Booted
  <2>3. Shape(r)'
    BY <1>5, <2>1, <2>2 DEF Shape, Issuing
  <2>4. Signed(r)' /\ Owned(r)' /\ Kept(r)'
    BY <1>5, <2>1 DEF Signed, Owned, Kept, Issuing
  <2>5. Refreshes(r)'
    <3>1. kind = "refresh" => arg \in Requests /\ Granted(arg)' /\ arg # r /\ req'[arg] = req[arg]
      BY <1>3, <1>7, <2>1, GrantStays
    <3> QED
      BY <1>3, <1>5, <2>1, <3>1 DEF Refreshes
  <2>6. LogsIn(r)'
    <3>1. kind = "login" => arg = Wrong \/ Accepted(arg, e)'
      BY <1>3, <1>7, GrantStays
    <3> QED
      BY <1>5, <2>1, <3>1 DEF LogsIn
  <2> QED
    BY <2>3, <2>4, <2>5, <2>6 DEF Local
<1> QED
  BY <1>2, <1>5, <1>6, <1>7, <1>8, HandlerStep DEF db, procs

LEMMA RegisterStep == ASSUME IInv, NEW r \in Requests, Register(r) PROVE IInv'
<1>1. at[r] = "register" /\ Quiet
  BY Unmoved DEF Register
<1>2. req[r].kind = "register"
  BY <1>1, At DEF Shape, Served
<1>3. CASE Reply(r, "register", "conflict")
  BY <1>1, <1>3, RepliesQuietly DEF Served, Answers
<1>4. CASE Go(r, "register", "create")
  BY <1>1, <1>2, <1>4, GoesQuietly DEF Served
<1> QED
  BY <1>3, <1>4 DEF Register

(* An accepted password is the account's, once the defaults are seeded.    *)
LEMMA AcceptedIsRight ==
    ASSUME IInv, AllSeeded, NEW p, NEW e \in Emails, Accepted(p, e)
    PROVE  password[e] = p /\ p # NoHash /\ p # None
<1>1. CASE p = Seeded /\ Default(e)
  BY <1>1, Bounds DEF AllSeeded, Default
<1>2. CASE p \in Requests /\ answer[p] = "created" /\ req[p].email = e
  <2>1. Owned(p)
    BY <1>2 DEF IInv, Local
  <2> QED
    BY <1>2, <2>1, Bounds DEF Owned
<1> QED
  BY <1>1, <1>2 DEF Accepted

LEMMA LoginStep == ASSUME IInv, NEW r \in Requests, Login(r) PROVE IInv'
<1>1. at[r] = "login" /\ Quiet /\ at[r] \in Served
  BY Unmoved DEF Login, Served
<1>2. /\ req[r].kind = "login" /\ req[r].email \in Emails
      /\ req[r].arg = Wrong \/ Accepted(req[r].arg, req[r].email)
      /\ AllSeeded
  BY <1>1, At DEF Shape, LogsIn
<1>3. CASE password[req[r].email] \in {None, NoHash} /\ Reply(r, "login", "unauthorized")
  <2>1. req[r].arg = Wrong
    BY <1>2, <1>3, AcceptedIsRight
  <2> QED
    BY <1>1, <1>2, <1>3, <2>1, RepliesQuietly DEF Served, Answers
<1>4. CASE password[req[r].email] # None /\ Go(r, "login", "sign")
  BY <1>1, <1>2, <1>4, GoesQuietly DEF Served
<1> QED
  BY <1>3, <1>4 DEF Login

-----------------------------------------------------------------------------
(* A step that signs a token: the handler goes on to store it.             *)
LEMMA SignsStep ==
    ASSUME IInv, NEW r \in Requests, NEW from \in Served, NEW to \in {"purge", "store"},
           Go(r, from, to), Sign(r), UNCHANGED <<tokens, now, procs, failures, req>>,
           to = "purge" => req[r].kind = "login",
           to = "store" => req[r].kind \in Issuing,
           password' \in [Emails -> Requests \union {Seeded, NoHash, None}],
           \A e \in Emails : password[e] # None => password'[e] = password[e],
           \A e \in Emails : Default(e) /\ password[e] = None => password'[e] \in {None, Seeded},
           to = "store" /\ req[r].kind = "register" => password'[req[r].email] = r,
           password'[req[r].email] # None
    PROVE  IInv'
<1>1. /\ at[r] = from /\ at' = [at EXCEPT ![r] = to] /\ answer' = answer
      /\ expiry' = [expiry EXCEPT ![r] = now + TokenLife]
  BY DEF Go, Sign
<1>2. now + TokenLife \in Nat /\ now \in Nat
  <2>1. now \in Nat /\ TokenLife \in Nat
    BY AuthAssumption DEF IInv, TypeOK
  <2> QED
    BY <2>1
<1>3. /\ at'[r] = to /\ answer'[r] = answer[r] /\ to \in Served
      /\ \A q \in Requests : q # r => at'[q] = at[q] /\ answer'[q] = answer[q]
      /\ at' \in [Requests -> Served \union {"idle", "done"}]
  BY <1>1 DEF IInv, TypeOK, Served
<1>4. /\ expiry'[r] = now + TokenLife /\ expiry' \in [Requests -> Nat]
      /\ \A q \in Requests : q # r => expiry'[q] = expiry[q]
  BY <1>1, <1>2 DEF IInv, TypeOK
<1>5. TypeOK'
  BY <1>1, <1>3, <1>4 DEF IInv, TypeOK, procs
<1>6. answer[r] = None
  BY <1>1, At
<1>7. Steady
  BY <1>1, <1>2, <1>4, <1>6 DEF Steady
<1>8. Signed(r)'
  <2>1. TokenLife \in Nat /\ now \in Nat
    BY AuthAssumption DEF IInv, TypeOK
  <2>2. TokenLife <= expiry'[r] /\ expiry'[r] <= now' + TokenLife
    BY <1>2, <1>4, <2>1
  <2> QED
    BY <2>2 DEF Signed
<1>9. Local(r)'
  BY <1>1, <1>3, <1>7, <1>8, GoesOn
<1> QED
  BY <1>3, <1>4, <1>5, <1>7, <1>9, HandlerStep DEF procs

LEMMA CreateStep == ASSUME IInv, NEW r \in Requests, Create(r) PROVE IInv'
<1> DEFINE e == req[r].email
<1>1. at[r] = "create" /\ at[r] \in Served /\ UNCHANGED <<tokens, now, procs, failures, req>>
  BY DEF Create, Served
<1>2. req[r].kind = "register" /\ e \in Emails /\ AllSeeded
  BY <1>1, At DEF Shape
<1>3. CASE password[e] # None /\ Reply(r, "create", "server error") /\ UNCHANGED <<password, expiry>>
  <2>1. Quiet
    BY <1>1, <1>3, Unmoved DEF db
  <2> QED
    BY <1>1, <1>3, <2>1, RepliesQuietly DEF Answers
<1>4. CASE /\ password[e] = None /\ Go(r, "create", "store") /\ Sign(r)
           /\ password' = [password EXCEPT ![e] = r]
  <2>1. ~Default(e)
    BY <1>2, <1>4, Bounds DEF AllSeeded, Default
  <2> HIDE DEF e
  <2>2. /\ password' \in [Emails -> Requests \union {Seeded, NoHash, None}]
        /\ password'[e] = r /\ \A f \in Emails : f # e => password'[f] = password[f]
    BY <1>2, <1>4 DEF IInv, TypeOK
  <2>3. r # None
    BY Bounds
  <2>4. /\ \A f \in Emails : password[f] # None => password'[f] = password[f]
        /\ \A f \in Emails : Default(f) /\ password[f] = None => password'[f] \in {None, Seeded}
    BY <1>4, <2>1, <2>2
  <2> QED
    BY <1>1, <1>2, <1>4, <2>2, <2>3, <2>4, SignsStep DEF Issuing, e
<1> QED
  BY <1>3, <1>4 DEF Create

LEMMA VerifyStep == ASSUME IInv, NEW r \in Requests, Verify(r) PROVE IInv'
<1>1. at[r] = "sign" /\ at[r] \in Served /\ UNCHANGED <<db, now, procs, failures, req>>
  BY DEF Verify, Served
<1>2. /\ req[r].kind = "login" /\ req[r].email \in Emails /\ AllSeeded
      /\ req[r].arg = Wrong \/ Accepted(req[r].arg, req[r].email)
      /\ password[req[r].email] # None
  BY <1>1, At DEF Shape, LogsIn, Owned
<1>3. CASE password[req[r].email] # req[r].arg /\ Reply(r, "sign", "unauthorized") /\ UNCHANGED expiry
  <2>1. req[r].arg = Wrong
    BY <1>2, <1>3, AcceptedIsRight
  <2>2. Quiet
    BY <1>1, <1>3, Unmoved
  <2> QED
    BY <1>1, <1>2, <1>3, <2>1, <2>2, RepliesQuietly DEF Answers
<1>4. CASE Go(r, "sign", "purge") /\ Sign(r)
  <2>1. password' = password /\ password \in [Emails -> Requests \union {Seeded, NoHash, None}]
    BY <1>1 DEF db, IInv, TypeOK
  <2> QED
    BY <1>1, <1>2, <1>4, <2>1, SignsStep DEF db
<1> QED
  BY <1>3, <1>4 DEF Verify

LEMMA UpsertStep == ASSUME IInv, NEW r \in Requests, Upsert(r) PROVE IInv'
<1> DEFINE e == req[r].email
<1>1. /\ at[r] = "upsert" /\ at[r] \in Served /\ UNCHANGED <<tokens, now, procs, failures, req>>
      /\ Go(r, "upsert", "store") /\ Sign(r)
      /\ password' = [password EXCEPT ![e] = IF password[e] = None THEN NoHash ELSE password[e]]
  BY DEF Upsert, Go, Served
<1>2. req[r].kind = "callback" /\ e \in Emails /\ AllSeeded
  BY <1>1, At DEF Shape
<1>3. password[e] = None => ~Default(e)
  BY <1>2, Bounds DEF AllSeeded, Default
<1> HIDE DEF e
<1>4. /\ password' \in [Emails -> Requests \union {Seeded, NoHash, None}]
      /\ password'[e] # None
      /\ \A f \in Emails : password'[f] = password[f] \/ (f = e /\ password[f] = None)
  BY <1>1, <1>2, Bounds DEF IInv, TypeOK
<1>5. /\ \A f \in Emails : password[f] # None => password'[f] = password[f]
      /\ \A f \in Emails : Default(f) /\ password[f] = None => password'[f] \in {None, Seeded}
  BY <1>3, <1>4
<1> QED
  BY <1>1, <1>2, <1>4, <1>5, SignsStep DEF Issuing, e

-----------------------------------------------------------------------------
(* The rows of refresh_tokens: none is purged before its token expires.    *)
LEMMA PurgeStep == ASSUME IInv, NEW r \in Requests, Purge(r) PROVE IInv'
<1>1. /\ at[r] = "purge" /\ at[r] \in Served /\ Go(r, "purge", "store")
      /\ tokens' = [t \in Requests |->
                      IF Row(t, req[r].email) /\ tokens[t] < expiry[r] - TokenLife
                      THEN None ELSE tokens[t]]
      /\ UNCHANGED <<password, now, procs, failures, req, expiry>>
  BY DEF Purge, Go, Served
<1>2. /\ req[r].kind = "login" /\ Signed(r) /\ answer[r] = None
      /\ password[req[r].email] # None
  BY <1>1, At DEF Shape, Owned
<1>3. /\ at' = [at EXCEPT ![r] = "store"] /\ answer' = answer
  BY <1>1 DEF Go
<1>4. /\ at'[r] = "store" /\ answer'[r] = answer[r] /\ at'[r] \in Served
      /\ \A q \in Requests : q # r => at'[q] = at[q] /\ answer'[q] = answer[q]
      /\ at' \in [Requests -> Served \union {"idle", "done"}]
  BY <1>3 DEF IInv, TypeOK, Served
<1>5. expiry[r] - TokenLife <= now /\ expiry[r] - TokenLife \in Int /\ now \in Nat
  <2>1. expiry[r] \in Nat /\ now \in Nat /\ TokenLife \in Nat
    BY AuthAssumption DEF IInv, TypeOK
  <2>2. expiry[r] <= now + TokenLife
    BY <1>1, <1>2 DEF Signed
  <2> QED
    BY <2>1, <2>2
<1>6. \A q \in Requests : tokens'[q] = tokens[q] \/ (tokens[q] \in Nat /\ tokens[q] < now)
  <2> TAKE q \in Requests
  <2>1. tokens[q] \in Nat \union {None}
    BY DEF IInv, TypeOK
  <2>2. CASE Row(q, req[r].email) /\ tokens[q] < expiry[r] - TokenLife
    <3>1. tokens[q] \in Nat /\ tokens[q] < expiry[r] - TokenLife
      BY <2>1, <2>2 DEF Row
    <3> QED
      BY <1>5, <3>1
  <2>3. CASE ~(Row(q, req[r].email) /\ tokens[q] < expiry[r] - TokenLife)
    BY <1>1, <2>3
  <2> QED
    BY <2>2, <2>3
<1>7. tokens' \in [Requests -> Nat \union {None}]
  BY <1>1 DEF IInv, TypeOK
<1>8. TypeOK'
  BY <1>1, <1>3, <1>4, <1>7 DEF IInv, TypeOK, procs
<1>9. Steady
  BY <1>1, <1>3, <1>5 DEF Steady, IInv, TypeOK
<1>10. Signed(r)'
  BY <1>1, <1>2 DEF Signed
<1>11. Local(r)'
  BY <1>1, <1>2, <1>4, <1>9, <1>10, GoesOn DEF Issuing
<1> QED
  BY <1>1, <1>4, <1>6, <1>8, <1>9, <1>11, HandlerStep DEF procs

LEMMA StoreStep == ASSUME IInv, NEW r \in Requests, Store(r) PROVE IInv'
<1> DEFINE a == IF req[r].kind = "register" THEN "created" ELSE "ok"
<1> PICK sent \in (expiry[r] - TokenLife)..now : tokens' = [tokens EXCEPT ![r] = sent + RowLife]
  BY DEF Store
<1>1. /\ at[r] = "store" /\ at[r] \in Served
      /\ at' = [at EXCEPT ![r] = "done"] /\ answer' = [answer EXCEPT ![r] = a]
      /\ tokens' = [tokens EXCEPT ![r] = sent + RowLife]
      /\ UNCHANGED <<password, now, procs, failures, req, expiry>>
  BY DEF Store, Reply, Served
<1>2. /\ req[r].kind \in Issuing /\ req[r] \in Inputs /\ Signed(r) /\ Owned(r) /\ LogsIn(r)
      /\ answer[r] = None /\ Asked(r)
  BY <1>1, At DEF Shape
<1>3. a \in {"ok", "created"} /\ (a = "created" => req[r].kind = "register")
  OBVIOUS
<1> HIDE DEF a
<1>4. /\ at'[r] = "done" /\ answer'[r] = a
      /\ \A q \in Requests : q # r => at'[q] = at[q] /\ answer'[q] = answer[q]
      /\ at' \in [Requests -> Served \union {"idle", "done"}]
      /\ answer' \in [Requests -> Answers \union {None}]
  BY <1>1, <1>3 DEF IInv, TypeOK, Answers
<1>5. /\ expiry[r] \in Nat /\ now \in Nat /\ sent + RowLife \in Nat
      /\ expiry[r] <= sent + RowLife
  <2>1. expiry[r] \in Nat /\ now \in Nat /\ TokenLife \in Nat /\ RowLife \in Nat /\ TokenLife <= RowLife
    BY AuthAssumption DEF IInv, TypeOK
  <2>2. TokenLife <= expiry[r] /\ expiry[r] <= now + TokenLife
    BY <1>1, <1>2 DEF Signed
  <2> QED
    BY <2>1, <2>2
<1>6. /\ tokens' \in [Requests -> Nat \union {None}] /\ tokens'[r] = sent + RowLife
      /\ \A q \in Requests : q # r => tokens'[q] = tokens[q]
  BY <1>1, <1>5 DEF IInv, TypeOK
<1>7. TypeOK'
  BY <1>1, <1>4, <1>6 DEF IInv, TypeOK, procs
<1>8. Steady
  BY <1>1, <1>2, <1>4, <1>5 DEF Steady
<1>9. Local(r)'
  <2>1. Shape(r)'
    BY <1>1, <1>2, <1>4 DEF Shape, Served
  <2>2. Signed(r)'
    BY <1>4 DEF Signed
  <2>3. Owned(r)'
    BY <1>1, <1>2, <1>3, <1>4 DEF Owned
  <2>4. Kept(r)'
    <3>1. tokens'[r] \in Nat /\ expiry'[r] <= tokens'[r]
      BY <1>1, <1>5, <1>6
    <3> QED
      BY <3>1 DEF Kept
  <2>5. Refreshes(r)'
    BY <1>1, <1>2 DEF Refreshes, Issuing
  <2>6. LogsIn(r)'
    BY <1>1, <1>2, <1>3, <1>4, <1>8, GrantStays DEF LogsIn
  <2> QED
    BY <2>1, <2>2, <2>3, <2>4, <2>5, <2>6 DEF Local
<1> QED
  BY <1>1, <1>4, <1>6, <1>7, <1>8, <1>9, HandlerStep DEF procs

-----------------------------------------------------------------------------
(* Refresh, and the callback of a Google login.                            *)
LEMMA RefreshStep == ASSUME IInv, NEW r \in Requests, Refresh(r) PROVE IInv'
<1>1. at[r] = "refresh" /\ at[r] \in Served /\ Quiet
  BY Unmoved DEF Refresh, Served
<1>2. req[r].kind = "refresh"
  BY <1>1, At DEF Shape
<1>3. CASE now >= expiry[req[r].arg] /\ Reply(r, "refresh", "unauthorized")
  BY <1>1, <1>2, <1>3, RepliesQuietly DEF Answers
<1>4. CASE Go(r, "refresh", "lookup")
  BY <1>1, <1>2, <1>4, GoesQuietly DEF Served
<1> QED
  BY <1>3, <1>4 DEF Refresh

LEMMA LookupStep == ASSUME IInv, NEW r \in Requests, Lookup(r) PROVE IInv'
<1> DEFINE t == req[r].arg
<1>1. at[r] = "lookup" /\ at[r] \in Served /\ Quiet
  BY Unmoved DEF Lookup, Served
<1>2. req[r].kind = "refresh" /\ t \in Requests /\ Granted(t)
  BY <1>1, At DEF Shape, Refreshes
<1>3. CASE /\ tokens[t] = None \/ (tokens[t] # None /\ tokens[t] < now)
           /\ Reply(r, "lookup", "unauthorized")
  <2>1. Kept(t) /\ expiry[t] \in Nat /\ now \in Nat /\ tokens[t] \in Nat \union {None}
    BY <1>2 DEF IInv, Local, TypeOK
  <2>2. now >= expiry[t]
    <3>1. now > expiry[t] \/ (tokens[t] \in Nat /\ expiry[t] <= tokens[t])
      BY <1>2, <2>1 DEF Kept
    <3>2. tokens[t] \in Nat => tokens[t] < now
      BY <1>3, Bounds
    <3> QED
      BY <2>1, <3>1, <3>2
  <2> QED
    BY <1>1, <1>2, <1>3, <2>2, RepliesQuietly DEF Answers
<1>4. CASE Go(r, "lookup", "user")
  BY <1>1, <1>2, <1>4, GoesQuietly DEF Served
<1> QED
  BY <1>3, <1>4 DEF Lookup

LEMMA FindUserStep == ASSUME IInv, NEW r \in Requests, FindUser(r) PROVE IInv'
<1>1. at[r] = "user" /\ at[r] \in Served /\ Quiet
  BY Unmoved DEF FindUser, Served
<1>2. /\ req[r].kind = "refresh" /\ req[r].arg \in Requests /\ Granted(req[r].arg)
      /\ req[req[r].arg].email = req[r].email
  BY <1>1, At DEF Shape, Refreshes
<1>3. Owned(req[r].arg)
  BY <1>2 DEF IInv, Local
<1>4. password[req[r].email] # None
  BY <1>2, <1>3 DEF Owned
<1>5. Reply(r, "user", "ok")
  BY <1>4 DEF FindUser
<1> QED
  BY <1>1, <1>2, <1>5, RepliesQuietly DEF Answers

LEMMA CallbackStep == ASSUME IInv, NEW r \in Requests, Callback(r) PROVE IInv'
<1>1. /\ at[r] = "callback" /\ at[r] \in Served
      /\ UNCHANGED <<db, now, phase, seed, lapses, failures, req, expiry>>
      /\ states' = [states EXCEPT ![req[r].worker] = states[req[r].worker] \ {req[r].arg}]
      /\ Go(r, "callback", "exchange") \/ Reply(r, "callback", "bad request")
  BY DEF Callback, Served
<1>2. Quiet
  BY <1>1 DEF Quiet, IInv, TypeOK
<1>3. req[r].kind = "callback"
  BY <1>1, At DEF Shape
<1>4. CASE Go(r, "callback", "exchange")
  BY <1>1, <1>2, <1>3, <1>4, GoesQuietly DEF Served
<1>5. CASE Reply(r, "callback", "bad request")
  BY <1>1, <1>2, <1>3, <1>5, RepliesQuietly DEF Answers
<1> QED
  BY <1>1, <1>4, <1>5

LEMMA ExchangeStep == ASSUME IInv, NEW r \in Requests, Exchange(r) PROVE IInv'
<1>1. /\ at[r] = "exchange" /\ at[r] \in Served /\ Quiet
      /\ Go(r, "exchange", "upsert") \/ Reply(r, "exchange", "unauthorized")
  BY Unmoved DEF Exchange, Go, Reply, Served
<1>2. req[r].kind = "callback"
  BY <1>1, At DEF Shape
<1>3. CASE Go(r, "exchange", "upsert")
  BY <1>1, <1>2, <1>3, GoesQuietly DEF Served
<1>4. CASE Reply(r, "exchange", "unauthorized")
  BY <1>1, <1>2, <1>4, RepliesQuietly DEF Answers
<1> QED
  BY <1>1, <1>3, <1>4

-----------------------------------------------------------------------------
(* The invariant holds initially, and every step preserves it.             *)
LEMMA InitIInv == Init => IInv
<1> SUFFICES ASSUME Init PROVE IInv
  OBVIOUS
<1>1. /\ now = 0 /\ failures = 0
      /\ phase = [w \in Workers |-> "find"] /\ seed = [w \in Workers |-> 1]
      /\ states = [w \in Workers |-> {}] /\ lapses = [s \in States |-> None]
      /\ at = [r \in Requests |-> IF r = 1 THEN "done" ELSE "idle"]
  BY DEF Init
<1>2. 1 \in Nat /\ Names(1) /\ \A i \in DOMAIN Defaults : ~(i < 1)
  BY Bounds DEF Names
<1>3. 0 \in 0..MaxTime /\ 0 \in 0..MaxFailures
  BY AuthAssumption
<1>4. ASSUME password \in [Emails -> Requests \union {Seeded, NoHash, None}],
             tokens \in [Requests -> Nat \union {None}],
             req \in [Requests -> Inputs \union {None}],
             answer \in [Requests -> Answers \union {None}],
             expiry \in [Requests -> Nat]
      PROVE  TypeOK
  BY <1>1, <1>2, <1>3, <1>4 DEF TypeOK, Served
<1>5. \A w \in Workers : Booted(w)
  BY <1>1, <1>2 DEF Booted
<1>6. CASE /\ password = [e \in Emails |-> None] /\ tokens = [r \in Requests |-> None]
           /\ req = [r \in Requests |-> None] /\ answer = [r \in Requests |-> None]
           /\ expiry = [r \in Requests |-> 0]
  <2>1. TypeOK
    BY <1>4, <1>6
  <2>2. \A i \in DOMAIN Defaults : SeededAt(i)
    BY <1>6, Bounds DEF SeededAt
  <2>3. ASSUME NEW r \in Requests PROVE Local(r)
    <3>1. at[r] \in {"done", "idle"} /\ answer[r] = None /\ None \notin Answers /\ req[r] = None
      BY <1>1, <1>6, AuthAssumption
    <3>2. ~Granted(r) /\ ~Asked(r) /\ answer[r] # "created"
      BY <3>1 DEF Granted, Asked, Answers, Served
    <3>3. Shape(r)
      BY <3>1 DEF Shape, Served
    <3> QED
      BY <3>1, <3>2, <3>3 DEF Local, Signed, Owned, Kept, Refreshes, LogsIn
  <2> QED
    BY <1>5, <2>1, <2>2, <2>3 DEF IInv
<1>7. ASSUME NEW e \in Emails, ~Default(e), NEW age \in 0..TokenLife,
             password = [f \in Emails |-> IF f = e THEN 1 ELSE IF Default(f) THEN Seeded ELSE None],
             tokens = [r \in Requests |-> IF r = 1 THEN RowLife - age ELSE None],
             req = [r \in Requests |->
                      IF r # 1 THEN None
                      ELSE [kind |-> "register", worker |-> CHOOSE w \in Workers : TRUE,
                            email |-> e, arg |-> Wrong]],
             answer = [r \in Requests |-> IF r = 1 THEN "created" ELSE None],
             expiry = [r \in Requests |-> IF r = 1 THEN TokenLife - age ELSE 0]
      PROVE  IInv
  <2>1. RowLife - age \in Nat /\ TokenLife - age \in Nat /\ TokenLife - age <= RowLife - age
    BY AuthAssumption
  <2>2. \A r \in Requests : /\ r = 1 => req[r].kind = "register" /\ req[r].email = e
                            /\ r = 1 => req[r] \in Inputs
                            /\ r # 1 => req[r] = None
    <3>1. (CHOOSE w \in Workers : TRUE) \in Workers
      BY AuthAssumption
    <3>2. Wrong \in Int \union States
      BY DEF Wrong
    <3> QED
      BY <1>7, <3>1, <3>2 DEF Inputs, Issuing
  <2>3. TypeOK
    <3>1. req \in [Requests -> Inputs \union {None}]
      BY <1>7, <2>2
    <3>2. password \in [Emails -> Requests \union {Seeded, NoHash, None}]
      <4>1. 1 \in Requests
        BY AuthAssumption DEF Requests
      <4> QED
        BY <1>7, <4>1
    <3> QED
      BY <1>4, <1>7, <2>1, <3>1, <3>2 DEF Answers
  <2>4. \A i \in DOMAIN Defaults : password[Defaults[i]] = Seeded
    BY <1>7, Bounds DEF Default
  <2>5. ASSUME NEW r \in Requests PROVE Local(r)
    <3>1. CASE r = 1
      <4>1. /\ at[r] = "done" /\ answer[r] = "created" /\ req[r] \in Inputs
            /\ req[r].kind = "register" /\ req[r].email = e /\ password[e] = r
            /\ tokens[r] \in Nat /\ expiry[r] <= tokens[r]
        BY <1>1, <1>7, <2>1, <2>2, <3>1
      <4>2. Shape(r) /\ Signed(r)
        BY <4>1 DEF Shape, Signed, Served
      <4>3. Owned(r) /\ Kept(r) /\ Refreshes(r) /\ LogsIn(r)
        BY <4>1, Bounds DEF Owned, Kept, Refreshes, LogsIn
      <4> QED
        BY <4>2, <4>3 DEF Local
    <3>2. CASE r # 1
      <4>1. at[r] = "idle" /\ answer[r] = None /\ None \notin Answers /\ req[r] = None
        BY <1>1, <1>7, <2>2, <3>2, AuthAssumption
      <4>2. ~Granted(r) /\ ~Asked(r) /\ answer[r] # "created"
        BY <4>1 DEF Granted, Asked, Answers, Served
      <4>3. Shape(r)
        BY <4>1 DEF Shape, Served
      <4> QED
        BY <4>1, <4>2, <4>3 DEF Local, Signed, Owned, Kept, Refreshes, LogsIn
    <3> QED
      BY <3>1, <3>2
  <2> QED
    BY <1>5, <2>3, <2>4, <2>5 DEF IInv, SeededAt
<1> QED
  BY <1>6, <1>7 DEF Init

LEMMA Inductive == IInv /\ [Next]_vars => IInv'
<1> SUFFICES ASSUME IInv, [Next]_vars PROVE IInv'
  OBVIOUS
<1>1. ASSUME NEW w \in Workers,
             FindDefault(w) \/ CreateDefault(w) \/ Listen(w) \/ Fork(w) \/ Exit(w)
      PROVE  IInv'
  BY <1>1, FindDefaultStep, CreateDefaultStep, ListenStep, ForkStep, ExitStep
<1>2. ASSUME NEW w \in Workers, NEW s \in States, Google(w, s) PROVE IInv'
  BY <1>2, GoogleStep
<1>3. ASSUME NEW r \in Requests, Begin(r) \/ Throws(r) PROVE IInv'
  BY <1>3, BeginStep, ThrowsStep
<1>4. ASSUME NEW r \in Requests, Handle(r) PROVE IInv'
  BY <1>4, RegisterStep, CreateStep, LoginStep, VerifyStep, PurgeStep, StoreStep, RefreshStep,
     LookupStep, FindUserStep, CallbackStep, ExchangeStep, UpsertStep DEF Handle
<1>5. CASE Tick
  BY <1>5, TickStep
<1>6. CASE UNCHANGED vars
  <2>1. TypeOK'
    BY <1>6 DEF vars, db, procs, IInv, TypeOK
  <2>2. Steady
    BY <1>6 DEF vars, db, procs, IInv, TypeOK, Steady
  <2> QED
    BY <1>6, <2>1, <2>2, BootStays, OthersStay, SeedingStays DEF vars, db, procs, IInv
<1> QED
  BY <1>1, <1>2, <1>3, <1>4, <1>5, <1>6 DEF Next, Done

LEMMA Invariance == Spec => []IInv
BY InitIInv, Inductive, PTL DEF Spec

-----------------------------------------------------------------------------
(* The variables of the gateway keep their types.                          *)
THEOREM TypeCorrect == Spec => []TypeOK
<1>1. IInv => TypeOK
  BY DEF IInv
<1> QED
  BY <1>1, Invariance, PTL

(* An account that a client has registered keeps the password the client   *)
(* chose: nothing that auth.routes or a starting worker does replaces it.  *)
THEOREM RegistrationsStand == Spec => []RegistrationStands
<1>1. IInv => RegistrationStands
  BY DEF IInv, Local, Owned, RegistrationStands
<1> QED
  BY <1>1, Invariance, PTL

(* An accepted password is never refused, on any worker.                   *)
THEOREM LoginsAreHonoured == Spec => []LoginHonoured
<1>1. IInv => LoginHonoured
  BY AuthAssumption DEF IInv, Local, LogsIn, Asked, LoginHonoured, Answers
<1> QED
  BY <1>1, Invariance, PTL

(* A refresh is refused only once its token has expired: no purge deletes  *)
(* a row early, and the row's user is there.                               *)
THEOREM RefreshesAreHonoured == Spec => []RefreshHonoured
<1>1. IInv => RefreshHonoured
  BY AuthAssumption DEF IInv, Local, Refreshes, Asked, RefreshHonoured, Answers
<1> QED
  BY <1>1, Invariance, PTL

-----------------------------------------------------------------------------
(* Where a Google state is: with one worker until a callback takes it, and *)
(* with none from then on, since a state is drawn once.                    *)
Once ==
    /\ \A w \in Workers : \A s \in states[w] : lapses[s] # None
    /\ \A v, w \in Workers : v # w => states[v] \intersect states[w] = {}
    /\ \A r \in Requests : Asked(r) /\ req[r].kind = "callback" =>
          req[r].arg \in States /\ lapses[req[r].arg] # None
    /\ \A r \in Requests : LetThrough(r) => \A w \in Workers : req[r].arg \notin states[w]
    /\ StateUsedOnce

(* Who was let through had asked, by a callback.                           *)
LEMMA LetThroughAsked ==
    ASSUME IInv, NEW r \in Requests, LetThrough(r)
    PROVE  Asked(r) /\ req[r].kind = "callback"
<1>1. CASE at[r] \in {"exchange", "upsert"}
  BY <1>1 DEF IInv, Local, Shape, Asked, Served
<1>2. CASE at[r] \notin {"exchange", "upsert"}
  BY <1>2, AuthAssumption DEF LetThrough, Asked, Served, Answers
<1> QED
  BY <1>1, <1>2

(* A step that draws no state and lets nobody through who was not.         *)
LEMMA OnceStays ==
    ASSUME Once, lapses' = lapses,
           \A w \in Workers : states'[w] \subseteq states[w],
           \A q \in Requests : LetThrough(q)' => LetThrough(q) /\ req'[q] = req[q],
           \A q \in Requests : Asked(q)' /\ req'[q].kind = "callback" =>
              \/ Asked(q) /\ req'[q] = req[q]
              \/ req'[q].arg \in States /\ lapses[req'[q].arg] # None
    PROVE  Once'
<1>1. \A w \in Workers : \A s \in states'[w] : lapses'[s] # None
  BY DEF Once
<1>2. \A v, w \in Workers : v # w => states'[v] \intersect states'[w] = {}
  BY DEF Once
<1>3. \A r \in Requests : Asked(r)' /\ req'[r].kind = "callback" =>
         req'[r].arg \in States /\ lapses'[req'[r].arg] # None
  BY DEF Once
<1>4. \A r \in Requests : LetThrough(r)' => \A w \in Workers : req'[r].arg \notin states'[w]
  BY DEF Once
<1>5. StateUsedOnce'
  BY DEF Once, StateUsedOnce
<1> QED
  BY <1>1, <1>2, <1>3, <1>4, <1>5 DEF Once

(* A new state is nobody's.                                                *)
LEMMA GoogleOnce ==
    ASSUME IInv, Once, NEW w \in Workers, NEW s \in States, Google(w, s)
    PROVE  Once'
<1>1. /\ lapses[s] = None /\ states' = [states EXCEPT ![w] = @ \union {s}]
      /\ lapses' = [lapses EXCEPT ![s] = now + StateLife]
      /\ UNCHANGED <<req, at, answer>>
  BY DEF Google
<1>2. now + StateLife # None
  BY AuthAssumption DEF IInv, TypeOK
<1>3. \A t \in States : lapses[t] # None => lapses'[t] # None /\ t # s
  BY <1>1, <1>2 DEF IInv, TypeOK
<1>4. \A v \in Workers : \A t \in states'[v] :
         t \in States /\ ((t \in states[v] /\ t # s) \/ (v = w /\ t = s))
  <2>1. \A v \in Workers : states[v] \subseteq States
        /\ states'[v] = IF v = w THEN states[v] \union {s} ELSE states[v]
    BY <1>1 DEF IInv, TypeOK
  <2>2. \A v \in Workers : s \notin states[v]
    BY <1>1 DEF Once
  <2> QED
    BY <2>1, <2>2
<1>5. lapses'[s] # None
  BY <1>1, <1>2 DEF IInv, TypeOK
<1>6. \A v \in Workers : \A t \in states'[v] : lapses'[t] # None
  BY <1>3, <1>4, <1>5 DEF Once
<1>7. \A u, v \in Workers : u # v => states'[u] \intersect states'[v] = {}
  BY <1>4 DEF Once
<1>8. \A r \in Requests : LetThrough(r)' = LetThrough(r) /\ Asked(r)' = Asked(r)
  BY <1>1 DEF LetThrough, Asked
<1>9. \A r \in Requests : Asked(r)' /\ req'[r].kind = "callback" =>
         req'[r].arg \in States /\ lapses'[req'[r].arg] # None /\ req'[r].arg # s
  BY <1>1, <1>3, <1>8 DEF Once
<1>10. \A r \in Requests : LetThrough(r)' =>
          \A v \in Workers : req'[r].arg \notin states'[v]
  BY <1>1, <1>4, <1>8, <1>9, LetThroughAsked DEF Once
<1>11. StateUsedOnce'
  BY <1>1, <1>8 DEF Once, StateUsedOnce
<1> QED
  BY <1>6, <1>7, <1>9, <1>10, <1>11 DEF Once

(* A callback that is let through takes its state with it.                 *)
LEMMA CallbackOnce ==
    ASSUME IInv, Once, NEW r \in Requests, Callback(r)
    PROVE  Once'
<1> DEFINE s == req[r].arg
           w == req[r].worker
<1>1. /\ at[r] = "callback" /\ UNCHANGED <<lapses, req>>
      /\ states' = [states EXCEPT ![w] = @ \ {s}]
      /\ \/ s \in states[w] /\ Go(r, "callback", "exchange")
         \/ Reply(r, "callback", "bad request")
  BY DEF Callback
<1>2. at[r] \in Served /\ req[r].kind = "callback" /\ w \in Workers /\ Asked(r)
      /\ answer[r] = None
  BY <1>1, At DEF Shape, Served, Inputs
<1>3. \A v \in Workers : states'[v] \subseteq states[v]
  BY <1>1 DEF IInv, TypeOK
<1>4. \A q \in Requests : q # r => at'[q] = at[q] /\ answer'[q] = answer[q]
  BY <1>1 DEF Go, Reply, IInv, TypeOK
<1>5. \A q \in Requests : q # r => LetThrough(q)' = LetThrough(q) /\ Asked(q)' = Asked(q)
  BY <1>1, <1>4 DEF LetThrough, Asked
<1>6. CASE Reply(r, "callback", "bad request")
  <2>1. ~LetThrough(r)'
    BY <1>6 DEF Reply, LetThrough, IInv, TypeOK
  <2> QED
    BY <1>1, <1>2, <1>3, <1>5, <2>1, OnceStays
<1>7. CASE s \in states[w] /\ Go(r, "callback", "exchange")
  <2>1. \A v \in Workers : s \notin states'[v]
    BY <1>1, <1>2, <1>7 DEF Once, IInv, TypeOK
  <2>2. \A q \in Requests : q # r /\ LetThrough(q)' => req'[q].arg # s
    BY <1>1, <1>2, <1>5, <1>7 DEF Once
  <2>3. \A v \in Workers : \A t \in states'[v] : lapses'[t] # None
    BY <1>1, <1>3 DEF Once
  <2>4. \A u, v \in Workers : u # v => states'[u] \intersect states'[v] = {}
    BY <1>3 DEF Once
  <2>5. \A q \in Requests : Asked(q)' /\ req'[q].kind = "callback" =>
           req'[q].arg \in States /\ lapses'[req'[q].arg] # None
    BY <1>1, <1>2, <1>5 DEF Once
  <2>6. \A q \in Requests : LetThrough(q)' => \A v \in Workers : req'[q].arg \notin states'[v]
    BY <1>1, <1>3, <1>5, <2>1 DEF Once
  <2>7. StateUsedOnce'
    <3> SUFFICES ASSUME NEW p \in Requests, NEW q \in Requests, p # q,
                        LetThrough(p)', LetThrough(q)'
                 PROVE  req'[p].arg # req'[q].arg
      BY DEF StateUsedOnce
    <3>1. CASE p = r \/ q = r
      BY <1>1, <2>2, <3>1
    <3>2. CASE p # r /\ q # r
      BY <1>1, <1>5, <3>2 DEF Once, StateUsedOnce
    <3> QED
      BY <3>1, <3>2
  <2> QED
    BY <2>3, <2>4, <2>5, <2>6, <2>7 DEF Once
<1> QED
  BY <1>1, <1>6, <1>7

(* Every other step of a handler leaves states alone, and lets through     *)
(* only what a callback let through before.                                *)
LEMMA HandlerOnce ==
    ASSUME IInv, Once, NEW r \in Requests, Handle(r) \/ Throws(r), ~Callback(r)
    PROVE  Once'
<1>1. at[r] \in Served /\ UNCHANGED <<states, lapses, req>>
  BY DEF Handle, Throws, Register, Create, Login, Verify, Purge, Store, Refresh, Lookup,
         FindUser, Exchange, Upsert, Go, Reply, procs, Served
<1>2. /\ \A q \in Requests : q # r => at'[q] = at[q] /\ answer'[q] = answer[q]
      /\ answer[r] = None /\ Asked(r)
  <2>1. \E p \in Served \union {"done"} : at' = [at EXCEPT ![r] = p]
    BY DEF Handle, Throws, Register, Create, Login, Verify, Purge, Store, Refresh, Lookup,
           FindUser, Exchange, Upsert, Go, Reply, Served
  <2>2. answer' = answer \/ \E a \in Answers : answer' = [answer EXCEPT ![r] = a]
    BY DEF Handle, Throws, Register, Create, Login, Verify, Purge, Store, Refresh, Lookup,
           FindUser, Exchange, Upsert, Go, Reply, Answers
  <2> QED
    BY <1>1, <2>1, <2>2, At DEF IInv, TypeOK
<1>3. \A q \in Requests : q # r => LetThrough(q)' = LetThrough(q) /\ Asked(q)' = Asked(q)
  BY <1>1, <1>2 DEF LetThrough, Asked
<1>4. LetThrough(r)' => LetThrough(r)
  <2>1. Shape(r) /\ answer[r] \notin Answers
    BY <1>1, <1>2, At, AuthAssumption
  <2>2. CASE Exchange(r) \/ Upsert(r) \/ Store(r)
    BY <1>1, <2>1, <2>2 DEF Exchange, Upsert, Store, Go, Reply, LetThrough, IInv, TypeOK, Shape
  <2>3. CASE Register(r) \/ Create(r) \/ Login(r) \/ Verify(r) \/ Purge(r)
    BY <1>1, <2>1, <2>3 DEF Register, Create, Login, Verify, Purge, Go, Reply, LetThrough, IInv,
       TypeOK, Shape
  <2>4. CASE Refresh(r) \/ Lookup(r) \/ FindUser(r)
    BY <1>1, <2>1, <2>4 DEF Refresh, Lookup, FindUser, Go, Reply, LetThrough, IInv, TypeOK, Shape
  <2>5. CASE Throws(r)
    BY <1>1, <2>1, <2>5 DEF Throws, Reply, LetThrough, IInv, TypeOK
  <2> QED
    BY <2>2, <2>3, <2>4, <2>5 DEF Handle
<1> QED
  BY <1>1, <1>2, <1>3, <1>4, OnceStays

(* So every step keeps Once: a request that arrives brings a drawn state,  *)
(* and an exit only forgets states and callers.                            *)
LEMMA OnceInductive ==
    ASSUME IInv, Once, [Next]_vars
    PROVE  Once'
<1>1. ASSUME NEW w \in Workers, FindDefault(w) \/ CreateDefault(w) \/ Listen(w) \/ Fork(w)
      PROVE  Once'
  <2>1. UNCHANGED <<states, lapses, req, at, answer>>
    BY <1>1 DEF FindDefault, CreateDefault, Listen, Fork
  <2>2. \A q \in Requests : LetThrough(q)' = LetThrough(q) /\ Asked(q)' = Asked(q)
    BY <2>1 DEF LetThrough, Asked
  <2> QED
    BY <2>1, <2>2, OnceStays
<1>2. ASSUME NEW w \in Workers, Exit(w) PROVE Once'
  <2>1. /\ UNCHANGED <<lapses, req>> /\ \A v \in Workers : states'[v] \subseteq states[v]
        /\ \A q \in Requests : \/ at'[q] = at[q] /\ answer'[q] = answer[q]
                               \/ at[q] \in Served /\ at'[q] = "done" /\ answer'[q] = "lost"
    BY <1>2 DEF Exit, IInv, TypeOK
  <2>2. \A q \in Requests : (LetThrough(q)' => LetThrough(q)) /\ (Asked(q)' => Asked(q))
    BY <2>1 DEF LetThrough, Asked
  <2> QED
    BY <2>1, <2>2, OnceStays
<1>3. ASSUME NEW w \in Workers, NEW s \in States, Google(w, s) PROVE Once'
  BY <1>3, GoogleOnce
<1>4. ASSUME NEW r \in Requests, Begin(r) PROVE Once'
  <2>1. PICK kind \in Issuing \union {"refresh"}, w \in Workers, e \in Emails :
           \E arg \in Asks(kind, e) :
              /\ req' = [req EXCEPT ![r] = [kind |-> kind, worker |-> w, email |-> e, arg |-> arg]]
              /\ at' = [at EXCEPT ![r] = kind]
    BY <1>4, Zenon DEF Begin
  <2>2. PICK arg \in Asks(kind, e) :
           /\ req' = [req EXCEPT ![r] = [kind |-> kind, worker |-> w, email |-> e, arg |-> arg]]
           /\ at' = [at EXCEPT ![r] = kind]
    BY <2>1
  <2>3. at[r] = "idle" /\ answer[r] = None /\ UNCHANGED <<states, lapses, answer>>
    BY <1>4 DEF Begin, procs, IInv, Local, Shape
  <2>4. /\ at'[r] = kind /\ req'[r].kind = kind /\ req'[r].arg = arg
        /\ \A q \in Requests : q # r => at'[q] = at[q] /\ req'[q] = req[q]
    BY <2>2 DEF IInv, TypeOK
  <2>5. kind = "callback" => arg \in States /\ lapses[arg] # None
    BY DEF Asks
  <2>6. ~LetThrough(r)'
    BY <2>3, <2>4, AuthAssumption DEF LetThrough, Issuing, Answers
  <2>7. \A q \in Requests : q # r => LetThrough(q)' = LetThrough(q) /\ Asked(q)' = Asked(q)
    BY <2>3, <2>4 DEF LetThrough, Asked
  <2> QED
    BY <2>3, <2>4, <2>5, <2>6, <2>7, OnceStays
<1>5. ASSUME NEW r \in Requests, Throws(r) \/ Handle(r) PROVE Once'
  BY <1>5, HandlerOnce, CallbackOnce
<1>6. CASE Tick \/ UNCHANGED vars
  <2>1. UNCHANGED <<states, lapses, req, at, answer>>
    BY <1>6 DEF Tick, vars, procs
  <2>2. \A q \in Requests : LetThrough(q)' = LetThrough(q) /\ Asked(q)' = Asked(q)
    BY <2>1 DEF LetThrough, Asked
  <2> QED
    BY <2>1, <2>2, OnceStays
<1> QED
  BY <1>1, <1>2, <1>3, <1>4, <1>5, <1>6 DEF Next, Done

(* A state lets one callback through, on whatever worker and however often *)
(* the callback comes back.                                                *)
THEOREM StatesAreUsedOnce == Spec => []StateUsedOnce
<1>1. Init => Once
  <2> SUFFICES ASSUME Init PROVE Once
    OBVIOUS
  <2>1. /\ states = [w \in Workers |-> {}]
        /\ \A r \in Requests : at[r] \in {"done", "idle"}
        /\ \A r \in Requests : answer[r] = None \/ (answer[r] = "created" /\ req[r].kind = "register")
    BY DEF Init
  <2>2. \A r \in Requests : ~LetThrough(r) /\ ~(Asked(r) /\ req[r].kind = "callback")
    BY <2>1, AuthAssumption DEF LetThrough, Asked, Served, Answers
  <2> QED
    BY <2>1, <2>2 DEF Once, StateUsedOnce
<1>2. IInv /\ Once /\ [Next]_vars => Once'
  BY OnceInductive
<1>3. Once => StateUsedOnce
  BY DEF Once
<1> QED
  BY <1>1, <1>2, <1>3, Invariance, PTL DEF Spec
=============================================================================
