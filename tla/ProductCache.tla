---------------------------- MODULE ProductCache ----------------------------
(***************************************************************************)
(* The product catalog's read-through cache: ProductService over the       *)
(* product table and CacheService, which keeps products and lists of them  *)
(* in Redis, with the inventory and the category that the queries join.    *)
(* Every await is a step: a read that misses queries the database and      *)
(* fills the cache later, a write of a product changes the database and    *)
(* invalidates later; the writers of inventories and categories do not     *)
(* know of the cache.  CacheService swallows the errors of Redis.          *)
(***************************************************************************)
EXTENDS Integers

CONSTANTS
    Products,    \* product ids, each the key product:<id>
    Categories,  \* the categories that products belong to
    Queries,     \* list queries, each a key products:<query>
    Readers,     \* executions of getById or getAll
    Writers,     \* executions of create, update or delete
    Absent,      \* no entry, or no product
    MaxJoined,   \* bound on the writes of the rows joined to a product
    Faults       \* may Redis or the database throw, or the process die?

Keys == Products \union Queries

ASSUME CacheAssumption ==
    /\ Products \intersect Queries = {}
    /\ Readers \intersect Writers = {}
    /\ MaxJoined \in Nat
    /\ Faults \in BOOLEAN

VARIABLES
    rows,      \* the products in the table
    version,   \* how often a product's own columns have been written
    category,  \* the column that refers to the product's category
    joined,    \* how often a row that is read along with a product has been
               \* written since: its inventory or its category
    cache,     \* the keys of Redis
    at,        \* where each read and each write stands
    key,       \* what a read asks for, or the product a write is about
    got,       \* what a read has found
    found,     \* the keys deletePattern has listed
    lapsed,    \* history: entries that an invalidation has missed
    overtaken  \* history: entries that show a joined row as it was before a
               \* write of it

table   == <<rows, version, category, joined>>
history == <<lapsed, overtaken>>
vars    == <<table, cache, at, key, got, found, history>>

(* findById and findAll: the products' own columns and, by `include`, the  *)
(* rows of their categories and inventories.                               *)
FieldsOf(k) == IF k \in Products THEN version[k] ELSE [p \in rows |-> version[p]]
JoinedOf(k) == IF k \in Products THEN joined[k] ELSE [p \in rows |-> joined[p]]
Missing(k)  == k \in Products \ rows
View(k)     ==
    IF Missing(k) THEN Absent ELSE [fields |-> FieldsOf(k), joined |-> JoinedOf(k)]

IsView(k, v) ==
    \/ v = Absent
    \/ k \in Products /\ v \in [fields : Nat, joined : Nat]
    \/ k \in Queries /\ \E R \in SUBSET Products : v \in [fields : [R -> Nat], joined : [R -> Nat]]

Positions == {"idle", "get", "query", "fill", "own", "list", "drop", "done"}

TypeOK ==
    /\ rows \subseteq Products
    /\ version \in [Products -> Nat]
    /\ category \in [Products -> Categories]
    /\ joined \in [Products -> Nat]
    /\ \A k \in Keys : IsView(k, cache[k])
    /\ at \in [Readers \union Writers -> Positions]
    /\ key \in [Readers \union Writers -> Keys \union {Absent}]
    /\ \A r \in Readers : IsView(key[r], got[r])
    /\ found \in [Writers -> SUBSET Queries]
    /\ lapsed \subseteq Keys /\ overtaken \subseteq Keys

Init ==
    /\ rows \in SUBSET Products
    /\ version = [p \in Products |-> 0]
    /\ category \in [Products -> Categories]
    /\ joined = [p \in Products |-> 0]
    /\ cache = [k \in Keys |-> Absent]
    /\ at = [x \in Readers \union Writers |-> "idle"]
    /\ key = [x \in Readers \union Writers |-> Absent]
    /\ got = [r \in Readers |-> Absent]
    /\ found = [w \in Writers |-> {}]
    /\ lapsed = {} /\ overtaken = {}

Go(x, from, to) == at[x] = from /\ at' = [at EXCEPT ![x] = to]

-----------------------------------------------------------------------------
(* getById and getAll.                                                     *)

BeginRead(r) ==
    /\ Go(r, "idle", "get")
    /\ \E k \in Keys : key' = [key EXCEPT ![r] = k]
    /\ UNCHANGED <<table, cache, got, found, history>>

(* An error of Redis is a miss.                                            *)
Get(r) ==
    /\ \/ /\ Go(r, "get", "done")
          /\ cache[key[r]] # Absent
          /\ got' = [got EXCEPT ![r] = cache[key[r]]]
       \/ Go(r, "get", "query") /\ (cache[key[r]] = Absent \/ Faults) /\ UNCHANGED got
    /\ UNCHANGED <<table, cache, key, found, history>>

Query(r) ==
    /\ \/ /\ Go(r, "query", IF Missing(key[r]) THEN "done" ELSE "fill")
          /\ got' = [got EXCEPT ![r] = View(key[r])]
       \/ Faults /\ Go(r, "query", "done") /\ UNCHANGED got
    /\ UNCHANGED <<table, cache, key, found, history>>

(* setex, of what was read an await ago.                                   *)
Fill(r) ==
    /\ Go(r, "fill", "done")
    /\ \/ /\ cache' = [cache EXCEPT ![key[r]] = got[r]]
          /\ lapsed' = IF ~Missing(key[r]) /\ got[r].fields = FieldsOf(key[r])
                       THEN lapsed \ {key[r]} ELSE lapsed \union {key[r]}
          /\ overtaken' = IF got[r].joined = JoinedOf(key[r])
                          THEN overtaken \ {key[r]} ELSE overtaken \union {key[r]}
       \/ Faults /\ UNCHANGED <<cache, history>>
    /\ UNCHANGED <<table, key, got, found>>

-----------------------------------------------------------------------------
(* create, update and delete.                                              *)

Write(w, p, next) ==
    /\ Go(w, "idle", next)
    /\ key' = [key EXCEPT ![w] = p]
    /\ UNCHANGED <<joined, cache, got, found, history>>

(* A new product has a fresh id.                                           *)
Create(w, p) ==
    /\ p \notin rows /\ version[p] = 0
    /\ Write(w, p, "list")
    /\ rows' = rows \union {p}
    /\ version' = [version EXCEPT ![p] = 1]
    /\ \E c \in Categories : category' = [category EXCEPT ![p] = c]

Update(w, p) ==
    /\ p \in rows
    /\ Write(w, p, "own")
    /\ version' = [version EXCEPT ![p] = @ + 1]
    /\ \E c \in Categories : category' = [category EXCEPT ![p] = c]
    /\ UNCHANGED rows

Delete(w, p) ==
    /\ p \in rows
    /\ Write(w, p, "own")
    /\ rows' = rows \ {p}
    /\ version' = [version EXCEPT ![p] = @ + 1]
    /\ UNCHANGED category

(* There is no such product, or the statement throws.                      *)
WriteFails(w, p) ==
    /\ p \notin rows \/ Faults
    /\ Write(w, p, "done")
    /\ UNCHANGED <<rows, version, category>>

(* Redis deletes the keys K, or throws and the error is logged.            *)
Drop(K) ==
    \/ /\ cache' = [k \in Keys |-> IF k \in K THEN Absent ELSE cache[k]]
       /\ lapsed' = lapsed \ K
       /\ overtaken' = overtaken \ K
    \/ Faults /\ lapsed' = lapsed \union K /\ UNCHANGED <<cache, overtaken>>

(* Mutant: the lists are not invalidated.                                  *)
OwnKeyOnly(w) == Go(w, "own", "done") /\ Drop({key[w]}) /\ UNCHANGED <<table, key, got, found>>

DropOwn(w) == Go(w, "own", "list") /\ Drop({key[w]}) /\ UNCHANGED <<table, key, got, found>>

(* deletePattern: KEYS and then DEL.                                       *)
ListKeys(w) ==
    LET listed == {k \in Queries : cache[k] # Absent}
    IN  /\ \/ /\ Go(w, "list", IF listed = {} THEN "done" ELSE "drop")
              /\ found' = [found EXCEPT ![w] = listed]
              /\ UNCHANGED lapsed
           \/ /\ Faults /\ Go(w, "list", "done")
              /\ lapsed' = lapsed \union Queries /\ UNCHANGED found
        /\ UNCHANGED <<table, cache, key, got, overtaken>>

DropLists(w) == Go(w, "drop", "done") /\ Drop(found[w]) /\ UNCHANGED <<table, key, got, found>>

-----------------------------------------------------------------------------
(* What a write has still to invalidate.                                   *)
Owes(w) ==
    CASE at[w] = "own"  -> {key[w]} \union Queries
      [] at[w] = "list" -> Queries
      [] at[w] = "drop" -> found[w]
      [] OTHER          -> {}

(* The rows joined to the products P are written, and no key is            *)
(* invalidated: the entries that show a product of P are overtaken.        *)
Shown(k) == IF k \in Products THEN {k} ELSE DOMAIN cache[k].fields
Overtake(P) ==
    /\ P # {} /\ \A p \in P : joined[p] < MaxJoined
    /\ joined' = [p \in Products |-> joined[p] + (IF p \in P THEN 1 ELSE 0)]
    /\ overtaken' =
         overtaken \union {k \in Keys : cache[k] # Absent /\ Shown(k) \intersect P # {}}
    /\ UNCHANGED <<rows, version, category, cache, at, key, got, found, lapsed>>

(* The inventory service changes a stock row.                              *)
StockChanges(p) == Overtake({p} \intersect rows)

(* PUT of a category, or DELETE of its parent, whose children lose it.  A  *)
(* category with products cannot be deleted, one without is in no entry.   *)
CategoryChanges(c) == Overtake({p \in rows : category[p] = c})

(* Mutant: lists are set without an expiry.                                *)
OnlyProductsExpire(k) ==
    /\ k \in Products /\ cache[k] # Absent
    /\ cache' = [cache EXCEPT ![k] = Absent]
    /\ lapsed' = lapsed \ {k} /\ overtaken' = overtaken \ {k}
    /\ UNCHANGED <<table, at, key, got, found>>

(* The 300 s of setex are over, or Redis evicts the key.                   *)
Expire(k) ==
    /\ cache[k] # Absent
    /\ cache' = [cache EXCEPT ![k] = Absent]
    /\ lapsed' = lapsed \ {k} /\ overtaken' = overtaken \ {k}
    /\ UNCHANGED <<table, at, key, got, found>>

(* The process dies: nobody takes up what it was doing.                    *)
Crash ==
    /\ Faults
    /\ at' = [x \in DOMAIN at |-> IF at[x] = "idle" THEN "idle" ELSE "done"]
    /\ at' # at
    /\ lapsed' = lapsed \union UNION {Owes(w) : w \in Writers}
    /\ UNCHANGED <<table, cache, key, got, found, overtaken>>

Done ==
    /\ \A x \in Readers \union Writers : at[x] = "done"
    /\ UNCHANGED vars

Next ==
    \/ \E r \in Readers : BeginRead(r) \/ Get(r) \/ Query(r) \/ Fill(r)
    \/ \E w \in Writers, p \in Products :
          Create(w, p) \/ Update(w, p) \/ Delete(w, p) \/ WriteFails(w, p)
    \/ \E w \in Writers : DropOwn(w) \/ ListKeys(w) \/ DropLists(w)
    \/ \E p \in Products : StockChanges(p)
    \/ \E c \in Categories : CategoryChanges(c)
    \/ \E k \in Keys : Expire(k)
    \/ Crash \/ Done

Spec == Init /\ [][Next]_vars

(* A key set with an expiry expires.  No read or write need go on.         *)
FairSpec == Spec /\ \A k \in Keys : WF_vars(Expire(k))

-----------------------------------------------------------------------------
(* Properties.                                                             *)

Stale(k)    == cache[k] # Absent /\ (Missing(k) \/ cache[k].fields # FieldsOf(k))
Outdated(k) == cache[k] \notin {Absent, View(k)}
Covered(k)  == \E w \in Writers : k \in Owes(w)

(* An entry that differs from the database is one that a write of a        *)
(* product is about to invalidate, or one that an invalidation has missed: *)
(* it was filled with what had been read before the write, or Redis or the *)
(* process failed; or it shows its products as they are and is overtaken   *)
(* by a write of an inventory or a category, which invalidate nothing.  No *)
(* order of reads, fills, KEYS and DEL leaves any other.                   *)
StaleOnlyIfLapsed ==
    \A k \in Keys :
       Outdated(k) => Covered(k) \/ k \in lapsed \/ (k \in overtaken /\ ~Stale(k))

(* Whatever was missed or overtaken, an entry does not stay out of date.   *)
StalenessEnds == \A k \in Keys : Outdated(k) ~> ~Outdated(k)
=============================================================================
