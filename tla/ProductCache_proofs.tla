------------------------- MODULE ProductCache_proofs -------------------------
(***************************************************************************)
(* ProductCache for every set of products, queries, reads and writes: its  *)
(* types and StaleOnlyIfLapsed.                                            *)
(***************************************************************************)
EXTENDS ProductCache, TLAPS

(* What the steps depend on: a read that is under way has a key, one that  *)
(* has not begun has found nothing, and a write that still owes the        *)
(* deletion of its product's key is about a product.                       *)
Underway ==
    /\ cache = [k \in Keys |-> cache[k]]
    /\ got = [r \in Readers |-> got[r]]
    /\ \A r \in Readers : at[r] \in {"get", "query", "fill"} => key[r] \in Keys
    /\ \A r \in Readers : at[r] = "idle" => got[r] = Absent
    /\ \A w \in Writers : at[w] = "own" => key[w] \in Products

(* An entry of other products than the database holds is owed or lapsed.   *)
Missed == \A k \in Keys : Stale(k) => Covered(k) \/ k \in lapsed

(* An entry that is not overtaken shows the joined rows as they are.       *)
Agrees(k, v) == v.joined = (IF k \in Products THEN joined[k] ELSE [p \in DOMAIN v.fields |-> joined[p]])
Uptodate == \A k \in Keys : cache[k] # Absent => k \in overtaken \/ Agrees(k, cache[k])

IInv == TypeOK /\ Underway /\ Missed /\ Uptodate

-----------------------------------------------------------------------------
(* What the database holds under a key is a value of that key's type.      *)
LEMMA ViewType == ASSUME TypeOK, NEW k \in Keys PROVE IsView(k, View(k))
<1>1. CASE k \in Products
  BY <1>1 DEF TypeOK, IsView, View, Missing, FieldsOf, JoinedOf
<1>2. CASE k \notin Products
  <2>1. View(k) = [fields |-> [p \in rows |-> version[p]], joined |-> [p \in rows |-> joined[p]]]
    BY <1>2 DEF View, Missing, FieldsOf, JoinedOf
  <2>2. [p \in rows |-> version[p]] \in [rows -> Nat] /\ [p \in rows |-> joined[p]] \in [rows -> Nat]
    BY DEF TypeOK
  <2>3. View(k) \in [fields : [rows -> Nat], joined : [rows -> Nat]] /\ rows \in SUBSET Products
    BY <2>1, <2>2 DEF TypeOK
  <2> QED
    BY <1>2, <2>3 DEF IsView, Keys
<1> QED
  BY <1>1, <1>2

(* A step that leaves products and versions alone makes no entry stale     *)
(* that it does not write itself.                                          *)
LEMMA SameFields ==
    ASSUME UNCHANGED <<rows, version>>
    PROVE  \A k : FieldsOf(k)' = FieldsOf(k) /\ (Missing(k)' <=> Missing(k))
  BY DEF FieldsOf, Missing

(* IsView is a predicate of a key and a value alone: it says of the values *)
(* after a step what it says of the same values before.                    *)
LEMMA ViewsPrimed ==
    /\ (\A r \in Readers : IsView(key'[r], got'[r])) <=> (\A r \in Readers : IsView(key[r], got[r]))'
    /\ (\A k \in Keys : IsView(k, cache'[k])) <=> (\A k \in Keys : IsView(k, cache[k]))'
BY DEF IsView

(* Steps that touch no joined row and no entry.                            *)
LEMMA SameJoined ==
    ASSUME Uptodate, UNCHANGED <<joined, cache, overtaken>> PROVE Uptodate'
  BY DEF Uptodate, Agrees

-----------------------------------------------------------------------------
(* The invariant holds initially.                                          *)
LEMMA InitIInv == Init => IInv
<1> SUFFICES ASSUME Init PROVE IInv
  OBVIOUS
<1>1. TypeOK
  BY DEF Init, TypeOK, Positions, IsView
<1>2. Underway
  BY CacheAssumption DEF Init, Underway
<1>3. Missed
  BY DEF Init, Missed, Stale
<1>4. Uptodate
  BY DEF Init, Uptodate
<1> QED
  BY <1>1, <1>2, <1>3, <1>4 DEF IInv

(* The steps of a read.                                                    *)
LEMMA BeginReadStep == ASSUME IInv, NEW r \in Readers, BeginRead(r) PROVE IInv'
<1> USE DEF IInv
<1>1. PICK k \in Keys : key' = [key EXCEPT ![r] = k]
  BY DEF BeginRead
<1>2. /\ at[r] = "idle" /\ at' = [at EXCEPT ![r] = "get"]
      /\ UNCHANGED <<table, cache, got, found, history>>
  BY DEF BeginRead, Go
<1>3. got[r] = Absent
  BY <1>2 DEF Underway
<1>4. \A q \in Readers : IsView(key[q], got[q])'
  BY <1>1, <1>2, <1>3, ViewsPrimed DEF TypeOK, IsView
<1>5. \A j \in Keys : IsView(j, cache[j])'
  BY <1>2, ViewsPrimed DEF TypeOK
<1>6. TypeOK'
  BY <1>1, <1>2, <1>4, <1>5 DEF TypeOK, table, history, Positions
<1>7. Underway'
  BY <1>1, <1>2, CacheAssumption DEF TypeOK, Underway
<1>8. \A w \in Writers : Owes(w)' = Owes(w)
  BY <1>1, <1>2, CacheAssumption DEF Owes, TypeOK
<1>9. Missed'
  BY <1>2, <1>8, SameFields DEF table, history, Missed, Stale, Covered
<1>10. Uptodate'
  BY <1>2, SameJoined DEF table, history
<1> QED
  BY <1>6, <1>7, <1>9, <1>10

LEMMA GetStep == ASSUME IInv, NEW r \in Readers, Get(r) PROVE IInv'
<1> USE DEF IInv
<1>1. /\ at[r] = "get" /\ UNCHANGED <<table, cache, key, found, history>>
      /\ at' = [at EXCEPT ![r] = "done"] \/ at' = [at EXCEPT ![r] = "query"]
      /\ got' = [got EXCEPT ![r] = cache[key[r]]] \/ got' = got
  BY DEF Get, Go
<1>2. key[r] \in Keys
  BY <1>1 DEF Underway
<1>3. IsView(key[r], cache[key[r]])
  BY <1>2 DEF TypeOK
<1>4. \A q \in Readers : got'[q] = got[q] \/ (q = r /\ got'[q] = cache[key[r]])
  BY <1>1 DEF Underway
<1>5. \A q \in Readers : IsView(key[q], got'[q])
  BY <1>3, <1>4 DEF TypeOK
<1>6. TypeOK'
  <2>1. \A q \in Readers : IsView(key[q], got[q])'
    BY <1>1, <1>5, ViewsPrimed
  <2>2. \A k \in Keys : IsView(k, cache[k])'
    BY <1>1, ViewsPrimed DEF TypeOK
  <2>3. at' \in [Readers \union Writers -> Positions]
    BY <1>1 DEF TypeOK, Positions
  <2> QED
    BY <1>1, <2>1, <2>2, <2>3 DEF TypeOK, table, history
<1>7. Underway'
  BY <1>1, CacheAssumption DEF TypeOK, Underway
<1>8. \A w \in Writers : Owes(w)' = Owes(w)
  BY <1>1, CacheAssumption DEF Owes, TypeOK
<1>9. Missed'
  BY <1>1, <1>8, SameFields DEF table, history, Missed, Stale, Covered
<1>10. Uptodate'
  BY <1>1, SameJoined DEF table, history
<1> QED
  BY <1>6, <1>7, <1>9, <1>10

LEMMA QueryStep == ASSUME IInv, NEW r \in Readers, Query(r) PROVE IInv'
<1> USE DEF IInv
<1>1. /\ at[r] = "query" /\ UNCHANGED <<table, cache, key, found, history>>
      /\ at' = [at EXCEPT ![r] = "done"] \/ at' = [at EXCEPT ![r] = "fill"]
      /\ got' = [got EXCEPT ![r] = View(key[r])] \/ got' = got
  BY DEF Query, Go
<1>2. key[r] \in Keys
  BY <1>1 DEF Underway
<1>3. IsView(key[r], View(key[r]))
  BY <1>2, ViewType
<1>4. \A q \in Readers : got'[q] = got[q] \/ (q = r /\ got'[q] = View(key[r]))
  BY <1>1 DEF Underway
<1>5. \A q \in Readers : IsView(key[q], got'[q])
  BY <1>3, <1>4 DEF TypeOK
<1>6. TypeOK'
  <2>1. \A q \in Readers : IsView(key[q], got[q])'
    BY <1>1, <1>5, ViewsPrimed
  <2>2. \A k \in Keys : IsView(k, cache[k])'
    BY <1>1, ViewsPrimed DEF TypeOK
  <2>3. at' \in [Readers \union Writers -> Positions]
    BY <1>1 DEF TypeOK, Positions
  <2> QED
    BY <1>1, <2>1, <2>2, <2>3 DEF TypeOK, table, history
<1>7. Underway'
  BY <1>1, CacheAssumption DEF TypeOK, Underway
<1>8. \A w \in Writers : Owes(w)' = Owes(w)
  BY <1>1, CacheAssumption DEF Owes, TypeOK
<1>9. Missed'
  BY <1>1, <1>8, SameFields DEF table, history, Missed, Stale, Covered
<1>10. Uptodate'
  BY <1>1, SameJoined DEF table, history
<1> QED
  BY <1>6, <1>7, <1>9, <1>10

LEMMA FillStep == ASSUME IInv, NEW r \in Readers, Fill(r) PROVE IInv'
<1> USE DEF IInv
<1>1. /\ at[r] = "fill" /\ at' = [at EXCEPT ![r] = "done"]
      /\ UNCHANGED <<table, key, got, found>>
  BY DEF Fill, Go
<1> DEFINE k == key[r]
<1>2. k \in Keys
  BY <1>1 DEF Underway
<1>3. IsView(k, got[r])
  BY DEF TypeOK
<1>4. \/ /\ cache' = [cache EXCEPT ![k] = got[r]]
         /\ lapsed' = IF ~Missing(k) /\ got[r].fields = FieldsOf(k)
                      THEN lapsed \ {k} ELSE lapsed \union {k}
         /\ overtaken' = IF got[r].joined = JoinedOf(k)
                         THEN overtaken \ {k} ELSE overtaken \union {k}
      \/ UNCHANGED <<cache, lapsed, overtaken>>
  BY DEF Fill, history
<1> HIDE DEF k
<1>5. \A j \in Keys : cache'[j] = cache[j] \/ (j = k /\ cache'[j] = got[r])
  BY <1>4 DEF Underway
<1>6. \A j \in Keys : IsView(j, cache'[j])
  BY <1>3, <1>5 DEF TypeOK
<1>7. TypeOK'
  <2>1. \A q \in Readers : IsView(key[q], got[q])'
    BY <1>1, ViewsPrimed DEF TypeOK
  <2>2. \A j \in Keys : IsView(j, cache[j])'
    BY <1>6, ViewsPrimed
  <2>3. at' \in [Readers \union Writers -> Positions] /\ lapsed' \subseteq Keys /\ overtaken' \subseteq Keys
    BY <1>1, <1>2, <1>4 DEF TypeOK, Positions
  <2> QED
    BY <1>1, <2>1, <2>2, <2>3 DEF TypeOK, table
<1>8. Underway'
  BY <1>1, <1>4, CacheAssumption DEF TypeOK, Underway
<1>9. \A w \in Writers : Owes(w)' = Owes(w)
  BY <1>1, CacheAssumption DEF Owes, TypeOK
<1>10. \A j \in Keys : Covered(j)' <=> Covered(j)
  BY <1>9 DEF Covered
<1>11. \A j : FieldsOf(j)' = FieldsOf(j) /\ (Missing(j)' <=> Missing(j))
  BY <1>1, SameFields DEF table
<1>12. ASSUME NEW j \in Keys, Stale(j)' PROVE Covered(j)' \/ j \in lapsed'
  <2>1. CASE UNCHANGED <<cache, lapsed>>
    BY <1>10, <1>11, <1>12, <2>1 DEF Missed, Stale
  <2>2. CASE /\ cache' = [cache EXCEPT ![k] = got[r]]
             /\ lapsed' = IF ~Missing(k) /\ got[r].fields = FieldsOf(k)
                          THEN lapsed \ {k} ELSE lapsed \union {k}
    <3>1. CASE j = k
      BY <1>2, <1>11, <1>12, <2>2, <3>1 DEF Stale, Underway
    <3>2. CASE j # k
      BY <1>10, <1>11, <1>12, <2>2, <3>2 DEF Missed, Stale, Underway
    <3> QED
      BY <3>1, <3>2
  <2> QED
    BY <1>4, <2>1, <2>2
<1>13. UNCHANGED <<rows, joined>>
  BY <1>1 DEF table
<1>14. ASSUME NEW j \in Keys, cache'[j] # Absent, j \notin overtaken' PROVE Agrees(j, cache[j])'
  <2>1. CASE j # k \/ UNCHANGED <<cache, lapsed, overtaken>>
    <3>1. cache'[j] = cache[j] /\ j \notin overtaken
      BY <1>4, <1>5, <1>14, <2>1
    <3> QED
      BY <1>13, <1>14, <3>1 DEF Uptodate, Agrees
  <2>2. CASE j = k /\ ~UNCHANGED <<cache, lapsed, overtaken>>
    <3>1. cache'[k] = got[r] /\ got[r].joined = JoinedOf(k)
      BY <1>2, <1>4, <1>14, <2>2 DEF Underway
    <3>2. k \notin Products => DOMAIN got[r].fields = rows
      BY <1>3, <1>14, <2>2, <3>1 DEF IsView, JoinedOf
    <3> QED
      BY <1>13, <2>2, <3>1, <3>2 DEF Agrees, JoinedOf
  <2> QED
    BY <2>1, <2>2
<1> QED
  BY <1>7, <1>8, <1>12, <1>14 DEF Missed, Uptodate

-----------------------------------------------------------------------------
(* The statement of a write: the keys whose entries it makes stale are     *)
(* those it now owes; a created product has none of its own.               *)
LEMMA WriteStep ==
    ASSUME IInv, NEW w \in Writers, NEW p \in Products, NEW next \in {"own", "list", "done"},
           Write(w, p, next),
           rows' \subseteq Products,
           version' \in [Products -> Nat],
           category' \in [Products -> Categories],
           \A q \in Products : q # p => version'[q] = version[q] /\ (q \in rows' <=> q \in rows),
           \/ next = "own"
           \/ next = "list" /\ p \notin rows
           \/ next = "done" /\ UNCHANGED <<rows, version>>
    PROVE  IInv'
<1> USE DEF IInv
<1>1. /\ at[w] = "idle" /\ at' = [at EXCEPT ![w] = next]
      /\ key' = [key EXCEPT ![w] = p]
      /\ UNCHANGED <<joined, cache, got, found, history>>
  BY DEF Write, Go
<1>2. \A r \in Readers : at'[r] = at[r] /\ key'[r] = key[r]
  BY <1>1, CacheAssumption DEF TypeOK
<1>3. /\ \A r \in Readers : IsView(key'[r], got'[r])
      /\ \A k \in Keys : IsView(k, cache'[k])
  BY <1>1, <1>2 DEF TypeOK
<1>4. /\ at' \in [Readers \union Writers -> Positions]
      /\ key' \in [Readers \union Writers -> Keys \union {Absent}]
  BY <1>1 DEF TypeOK, Positions, Keys
<1>5. TypeOK'
  BY <1>1, <1>3, <1>4, ViewsPrimed DEF TypeOK, history
<1>6. Underway'
  BY <1>1, <1>2 DEF TypeOK, Underway
<1>7. /\ Owes(w) = {} /\ \A v \in Writers : v # w => Owes(v)' = Owes(v)
      /\ next = "own" => Owes(w)' = {p} \union Queries
      /\ next = "list" => Owes(w)' = Queries
  BY <1>1 DEF Owes, TypeOK
<1>8. \A k : Covered(k) => Covered(k)'
  BY <1>7 DEF Covered
<1>9. ASSUME NEW k \in Keys, Stale(k)' PROVE Covered(k)' \/ k \in lapsed'
  <2>1. CASE UNCHANGED <<rows, version>>
    BY <1>1, <1>8, <1>9, <2>1, SameFields DEF history, Missed, Stale
  <2>2. CASE next # "done" /\ k \in Queries
    BY <1>7, <2>2 DEF Covered
  <2>3. CASE next = "own" /\ k = p
    BY <1>7, <2>3 DEF Covered
  <2>4. CASE next = "list" /\ p \notin rows /\ k = p
    BY <1>1, <1>8, <1>9, <2>4 DEF history, Missed, Stale, Missing
  <2>5. CASE k \in Products \ {p}
    BY <1>1, <1>8, <1>9, <2>5 DEF history, Missed, Stale, Missing, FieldsOf
  <2> QED
    BY <2>1, <2>2, <2>3, <2>4, <2>5 DEF Keys
<1>10. Uptodate'
  BY <1>1, SameJoined DEF history
<1> QED
  BY <1>5, <1>6, <1>9, <1>10 DEF Missed

(* The counter of a product's writes stays a natural number.               *)
LEMMA Counted ==
    ASSUME version \in [Products -> Nat], NEW p \in Products,
           version' = [version EXCEPT ![p] = @ + 1]
    PROVE  version' \in [Products -> Nat] /\ \A q \in Products : q # p => version'[q] = version[q]
  OBVIOUS

LEMMA StatementStep ==
    ASSUME IInv, NEW w \in Writers, NEW p \in Products,
           Create(w, p) \/ Update(w, p) \/ Delete(w, p) \/ WriteFails(w, p)
    PROVE  IInv'
<1>0. /\ rows \subseteq Products /\ version \in [Products -> Nat]
      /\ category \in [Products -> Categories]
  BY DEF IInv, TypeOK
<1>1. CASE Create(w, p)
  <2>1. /\ Write(w, p, "list") /\ p \notin rows
        /\ rows' = rows \union {p} /\ version' = [version EXCEPT ![p] = 1]
        /\ category' \in [Products -> Categories]
    BY <1>0, <1>1 DEF Create
  <2> QED
    BY <1>0, <2>1, WriteStep
<1>2. CASE Update(w, p)
  <2>1. /\ Write(w, p, "own") /\ rows' = rows /\ version' = [version EXCEPT ![p] = @ + 1]
        /\ category' \in [Products -> Categories]
    BY <1>0, <1>2 DEF Update
  <2>2. version' \in [Products -> Nat] /\ \A q \in Products : q # p => version'[q] = version[q]
    BY <1>0, <2>1, Counted
  <2> QED
    BY <1>0, <2>1, <2>2, WriteStep
<1>3. CASE Delete(w, p)
  <2>1. /\ Write(w, p, "own") /\ rows' = rows \ {p} /\ version' = [version EXCEPT ![p] = @ + 1]
        /\ category' = category
    BY <1>3 DEF Delete
  <2>2. version' \in [Products -> Nat] /\ \A q \in Products : q # p => version'[q] = version[q]
    BY <1>0, <2>1, Counted
  <2> QED
    BY <1>0, <2>1, <2>2, WriteStep
<1>4. CASE WriteFails(w, p)
  <2>1. Write(w, p, "done") /\ UNCHANGED <<rows, version, category>>
    BY <1>4 DEF WriteFails
  <2> QED
    BY <1>0, <2>1, WriteStep
<1> QED
  BY <1>1, <1>2, <1>3, <1>4

(* Invalidation.  A key that is dropped has no entry, or is lapsed; it is  *)
(* owed no more, and what else the write owes it owes still.               *)
LEMMA DropStep ==
    ASSUME IInv, NEW w \in Writers, NEW K \in SUBSET Keys, Drop(K),
           NEW to \in {"list", "done"}, at' = [at EXCEPT ![w] = to],
           at[w] # "idle",
           Owes(w) \subseteq Owes(w)' \union K,
           UNCHANGED <<table, key, got, found>>
    PROVE  IInv'
<1> USE DEF IInv
<1>1. \/ /\ cache' = [k \in Keys |-> IF k \in K THEN Absent ELSE cache[k]]
         /\ lapsed' = lapsed \ K /\ overtaken' = overtaken \ K
      \/ lapsed' = lapsed \union K /\ UNCHANGED <<cache, overtaken>>
  BY DEF Drop
<1>2. \A k \in Keys : cache'[k] = cache[k] \/ cache'[k] = Absent
  BY <1>1
<1>3. \A k \in Keys : IsView(k, cache'[k])
  BY <1>2 DEF TypeOK, IsView
<1>4. TypeOK'
  BY <1>1, <1>3, ViewsPrimed DEF TypeOK, table, Positions
<1>5. Underway'
  BY <1>1, CacheAssumption DEF TypeOK, Underway
<1>6. \A v \in Writers : v # w => Owes(v)' = Owes(v)
  BY DEF Owes, TypeOK
<1>7. \A k \in Keys : Covered(k) => Covered(k)' \/ k \in K
  BY <1>6 DEF Covered
<1>8. ASSUME NEW k \in Keys, Stale(k)' PROVE Covered(k)' \/ k \in lapsed'
  <2>1. CASE k \in K
    BY <1>1, <1>8, <2>1 DEF Stale
  <2>2. CASE k \notin K
    <3>1. cache'[k] = cache[k] /\ (k \in lapsed => k \in lapsed')
      BY <1>1, <2>2
    <3> QED
      BY <1>7, <1>8, <2>2, <3>1, SameFields DEF table, Missed, Stale
  <2> QED
    BY <2>1, <2>2
<1>9. Uptodate'
  <2>1. \A k \in Keys : cache'[k] # Absent => cache'[k] = cache[k] /\ (k \in overtaken => k \in overtaken')
    BY <1>1
  <2>2. UNCHANGED joined
    BY DEF table
  <2> QED
    BY <2>1, <2>2 DEF Uptodate, Agrees
<1> QED
  BY <1>4, <1>5, <1>8, <1>9 DEF Missed

LEMMA DropOwnStep == ASSUME IInv, NEW w \in Writers, DropOwn(w) PROVE IInv'
<1>1. /\ at[w] = "own" /\ at' = [at EXCEPT ![w] = "list"] /\ Drop({key[w]})
      /\ UNCHANGED <<table, key, got, found>>
  BY DEF DropOwn, Go
<1>2. {key[w]} \in SUBSET Keys
  BY <1>1 DEF IInv, Underway, Keys
<1>3. Owes(w) = {key[w]} \union Queries /\ Owes(w)' = Queries
  BY <1>1 DEF Owes, IInv, TypeOK
<1> QED
  BY <1>1, <1>2, <1>3, DropStep

LEMMA DropListsStep == ASSUME IInv, NEW w \in Writers, DropLists(w) PROVE IInv'
<1>1. /\ at[w] = "drop" /\ at' = [at EXCEPT ![w] = "done"] /\ Drop(found[w])
      /\ UNCHANGED <<table, key, got, found>>
  BY DEF DropLists, Go
<1>2. found[w] \in SUBSET Keys
  BY DEF IInv, TypeOK, Keys
<1>3. Owes(w) = found[w]
  BY <1>1 DEF Owes
<1> QED
  BY <1>1, <1>2, <1>3, DropStep

(* KEYS: what is not listed has no entry.                                  *)
LEMMA ListKeysStep == ASSUME IInv, NEW w \in Writers, ListKeys(w) PROVE IInv'
<1> USE DEF IInv
<1> DEFINE listed == {k \in Queries : cache[k] # Absent}
<1>1. /\ at[w] = "list" /\ UNCHANGED <<table, cache, key, got, overtaken>>
      /\ \/ /\ at' = [at EXCEPT ![w] = IF listed = {} THEN "done" ELSE "drop"]
            /\ found' = [found EXCEPT ![w] = listed] /\ UNCHANGED lapsed
         \/ /\ at' = [at EXCEPT ![w] = "done"]
            /\ lapsed' = lapsed \union Queries /\ UNCHANGED found
  BY DEF ListKeys, Go
<1>2. TypeOK'
  <2>1. found' \in [Writers -> SUBSET Queries] /\ lapsed' \subseteq Keys
    BY <1>1 DEF TypeOK, Keys
  <2>2. at' \in [Readers \union Writers -> Positions]
    BY <1>1 DEF TypeOK, Positions
  <2> QED
    BY <1>1, <2>1, <2>2, ViewsPrimed DEF TypeOK, table
<1>3. Underway'
  BY <1>1, CacheAssumption DEF TypeOK, Underway
<1>4. /\ \A v \in Writers : v # w => Owes(v)' = Owes(v)
      /\ Owes(w) = Queries
  BY <1>1 DEF Owes, TypeOK
<1>5. \/ listed \subseteq Owes(w)' /\ lapsed' = lapsed
      \/ lapsed' = lapsed \union Queries
  BY <1>1 DEF Owes, TypeOK
<1>6. ASSUME NEW k \in Keys, Stale(k)' PROVE Covered(k)' \/ k \in lapsed'
  <2>1. Stale(k)
    BY <1>1, <1>6, SameFields DEF table, Stale
  <2>2. CASE k \in Queries
    BY <1>5, <2>1, <2>2, <1>4 DEF Missed, Covered, Stale
  <2>3. CASE k \notin Queries
    BY <1>4, <1>5, <2>1, <2>3 DEF Missed, Covered
  <2> QED
    BY <2>2, <2>3
<1>7. Uptodate'
  BY <1>1, SameJoined DEF table
<1> QED
  BY <1>2, <1>3, <1>6, <1>7 DEF Missed

-----------------------------------------------------------------------------
(* The other steps.                                                        *)
LEMMA OvertakeStep == ASSUME IInv, NEW P \in SUBSET Products, Overtake(P) PROVE IInv'
<1> USE DEF IInv
<1>1. /\ joined' = [p \in Products |-> joined[p] + (IF p \in P THEN 1 ELSE 0)]
      /\ overtaken' =
           overtaken \union {k \in Keys : cache[k] # Absent /\ Shown(k) \intersect P # {}}
      /\ UNCHANGED <<rows, version, category, cache, at, key, got, found, lapsed>>
  BY DEF Overtake
<1>2. joined' \in [Products -> Nat]
  BY <1>1 DEF TypeOK
<1>3. TypeOK'
  BY <1>1, <1>2, ViewsPrimed DEF TypeOK
<1>4. Underway'
  BY <1>1 DEF Underway
<1>5. Missed'
  BY <1>1, SameFields DEF Missed, Stale, Covered, Owes
<1>6. ASSUME NEW k \in Keys, cache'[k] # Absent, k \notin overtaken' PROVE Agrees(k, cache[k])'
  <2>1. /\ cache'[k] = cache[k] /\ k \notin overtaken /\ Shown(k) \intersect P = {}
        /\ Agrees(k, cache[k])
    BY <1>1, <1>6 DEF Uptodate
  <2>2. CASE k \in Products
    BY <1>1, <2>1, <2>2 DEF Agrees, Shown, TypeOK
  <2>3. CASE k \notin Products
    <3>1. DOMAIN cache[k].fields \subseteq Products
      BY <1>1, <1>6, <2>3 DEF TypeOK, IsView
    <3>2. \A p \in DOMAIN cache[k].fields : joined'[p] = joined[p]
      BY <1>1, <2>1, <2>3, <3>1 DEF Shown, TypeOK
    <3> QED
      BY <2>1, <2>3, <3>2 DEF Agrees
  <2> QED
    BY <2>2, <2>3
<1> QED
  BY <1>3, <1>4, <1>5, <1>6 DEF Uptodate

LEMMA ExpireStep == ASSUME IInv, NEW k \in Keys, Expire(k) PROVE IInv'
<1> USE DEF IInv
<1>1. /\ cache' = [cache EXCEPT ![k] = Absent] /\ lapsed' = lapsed \ {k}
      /\ overtaken' = overtaken \ {k}
      /\ UNCHANGED <<table, at, key, got, found>>
  BY DEF Expire
<1>2. \A j \in Keys : (cache'[j] = cache[j] /\ j # k) \/ cache'[j] = Absent
  BY <1>1 DEF Underway
<1>3. \A j \in Keys : IsView(j, cache'[j])
  BY <1>2 DEF TypeOK, IsView
<1>4. TypeOK'
  BY <1>1, <1>3, ViewsPrimed DEF TypeOK, table
<1>5. Underway'
  BY <1>1 DEF Underway
<1>6. Missed'
  BY <1>1, <1>2, SameFields DEF table, Missed, Stale, Covered, Owes
<1>7. Uptodate'
  BY <1>1, <1>2 DEF table, Uptodate, Agrees
<1> QED
  BY <1>4, <1>5, <1>6, <1>7

LEMMA CrashStep == ASSUME IInv, Crash PROVE IInv'
<1> USE DEF IInv
<1>1. /\ at' = [x \in DOMAIN at |-> IF at[x] = "idle" THEN "idle" ELSE "done"]
      /\ lapsed' = lapsed \union UNION {Owes(w) : w \in Writers}
      /\ UNCHANGED <<table, cache, key, got, found, overtaken>>
  BY DEF Crash
<1>2. \A w \in Writers : Owes(w) \subseteq Keys
  BY DEF Owes, TypeOK, Underway, Keys
<1>3. TypeOK'
  <2>1. at' \in [Readers \union Writers -> Positions]
    BY <1>1 DEF TypeOK, Positions
  <2>2. lapsed' \subseteq Keys
    BY <1>1, <1>2 DEF TypeOK
  <2> QED
    BY <1>1, <2>1, <2>2, ViewsPrimed DEF TypeOK, table
<1>4. Underway'
  BY <1>1 DEF TypeOK, Underway
<1>5. Missed'
  BY <1>1, SameFields DEF table, Missed, Stale, Covered
<1>6. Uptodate'
  BY <1>1, SameJoined DEF table
<1> QED
  BY <1>3, <1>4, <1>5, <1>6

(* Every step keeps the invariant.                                         *)
LEMMA NextIInv == IInv /\ [Next]_vars => IInv'
<1> SUFFICES ASSUME IInv, [Next]_vars PROVE IInv'
  OBVIOUS
<1>1. CASE UNCHANGED vars
  <2>1. TypeOK' /\ Underway'
    BY <1>1, ViewsPrimed DEF IInv, vars, table, history, TypeOK, Underway
  <2>2. Missed'
    BY <1>1, SameFields DEF IInv, vars, table, history, Missed, Stale, Covered, Owes
  <2>3. Uptodate'
    BY <1>1, SameJoined DEF IInv, vars, table, history
  <2> QED
    BY <2>1, <2>2, <2>3 DEF IInv
<1>2. CASE \E p \in Products : StockChanges(p)
  <2>1. PICK p \in Products : Overtake({p} \intersect rows)
    BY <1>2 DEF StockChanges
  <2> QED
    BY <2>1, OvertakeStep
<1>3. CASE \E c \in Categories : CategoryChanges(c)
  <2>1. PICK c \in Categories : Overtake({p \in rows : category[p] = c})
    BY <1>3 DEF CategoryChanges
  <2>2. rows \subseteq Products
    BY DEF IInv, TypeOK
  <2> QED
    BY <2>1, <2>2, OvertakeStep
<1>4. CASE Next
  BY <1>1, <1>2, <1>3, <1>4, BeginReadStep, GetStep, QueryStep, FillStep, StatementStep,
     DropOwnStep, ListKeysStep, DropListsStep, ExpireStep, CrashStep DEF Next, Done
<1> QED
  BY <1>1, <1>4

(* What the invariant says of an entry that differs from the database.     *)
LEMMA Explained == IInv => StaleOnlyIfLapsed
<1> SUFFICES ASSUME IInv, NEW k \in Keys, Outdated(k)
             PROVE  Covered(k) \/ k \in lapsed \/ (k \in overtaken /\ ~Stale(k))
  BY DEF StaleOnlyIfLapsed
<1>1. CASE Stale(k)
  BY <1>1 DEF IInv, Missed
<1>2. CASE ~Stale(k)
  <2>1. cache[k] # Absent /\ ~Missing(k) /\ cache[k].fields = FieldsOf(k)
    BY <1>2 DEF Stale, Outdated
  <2>2. cache[k] = [fields |-> cache[k].fields, joined |-> cache[k].joined]
    BY <2>1 DEF IInv, TypeOK, IsView
  <2>3. cache[k].joined # JoinedOf(k)
    BY <2>1, <2>2 DEF Outdated, View
  <2>4. ~Agrees(k, cache[k])
    BY <2>1, <2>3 DEF Agrees, JoinedOf, FieldsOf
  <2> QED
    BY <1>2, <2>1, <2>4 DEF IInv, Uptodate
<1> QED
  BY <1>1, <1>2

(* The inductive invariant holds of every behaviour.                       *)
THEOREM Invariance == Spec => []IInv
  BY InitIInv, NextIInv, PTL DEF Spec

(* Types, for every value of the constants.                                *)
THEOREM TypeCorrect == Spec => []TypeOK
  BY Invariance, PTL DEF IInv

(* An entry differs from the database only while a write owes its          *)
(* deletion, after a late fill or a failure, or in an inventory or a       *)
(* category that has been written since.                                   *)
THEOREM StalenessIsExplained == Spec => []StaleOnlyIfLapsed
  BY Invariance, Explained, PTL
=============================================================================
