--------------------------- MODULE Inventory_proofs ---------------------------
(***************************************************************************)
(* Inventory for every set of products, calls and item lists: its types,   *)
(* AllOrNothing, SettledInFull, Accounting, OversellOnlyWhenStale and, of  *)
(* what several stale checks together may do, OvercommitBound.             *)
(***************************************************************************)
EXTENDS Inventory, FiniteSetTheorems, TLAPS

-----------------------------------------------------------------------------
(* The inductive invariant.                                                *)

Settlers == {"release", "confirm"}

Phases ==
    \A c \in Calls :
        /\ op[c] = "none" <=> pc[c] = "idle"
        /\ result[c] = "none" <=> pc[c] # "done"
        /\ pc[c] \in {"check", "write", "rollback"} => op[c] = "reserve"
        /\ pc[c] = "apply" => op[c] \in Settlers

(* Only reservations hold anything.                                        *)
OpenOwned ==
    \A c \in Calls :
        /\ open[c] # {} => op[c] = "reserve"
        /\ open[c] \subseteq 1 .. Len(items[c])

(* A reservation in progress holds what it has been through.               *)
Growing ==
    \A c \in Calls : pc[c] \in {"check", "write"} =>
        /\ open[c] = 1 .. (idx[c] - 1)
        /\ idx[c] <= Len(items[c]) + 1
        /\ undone[c] = 0

(* Its last check has found enough.                                        *)
Checked ==
    \A c \in Calls : pc[c] = "write" =>
        idx[c] <= Len(items[c]) /\ QtyAt(c, idx[c]) <= seen[c]

(* A rollback holds what it has still to give back.                        *)
Shrinking ==
    \A c \in Calls : pc[c] = "rollback" =>
        /\ open[c] = (undone[c] + 1) .. (idx[c] - 1)
        /\ undone[c] < idx[c] /\ idx[c] <= Len(items[c])

(* A release or confirm works on a reservation that was granted, with its  *)
(* items, and what it has still to take is what is left of it.             *)
Settling ==
    \A c \in Calls : op[c] \in Settlers =>
        /\ op[target[c]] = "reserve" /\ result[target[c]] = "success"
        /\ items[target[c]] = items[c]
        /\ pc[c] = "apply" =>
              open[target[c]] = idx[c] .. Len(items[c]) /\ idx[c] <= Len(items[c]) + 1

OneSettler ==
    \A c, d \in Calls :
        op[c] \in Settlers /\ op[d] \in Settlers /\ target[c] = target[d] => c = d

Progress ==
    /\ Phases /\ OpenOwned /\ Growing /\ Checked /\ Shrinking /\ Settling /\ OneSettler
    /\ AllOrNothing /\ SettledInFull

(* The little of it that the types rest on, of each call by itself: the    *)
(* entry a statement works on is one of the list's.                        *)
InRange(c) == pc[c] \in {"write", "rollback"} => idx[c] \in 1 .. Len(items[c])

-----------------------------------------------------------------------------
(* Types.                                                                  *)
LEMMA TypeInit == Init => TypeOK
<1> SUFFICES ASSUME Init PROVE TypeOK
  OBVIOUS
<1>1. Stock \subseteq Int
  BY InventoryAssumption
<1>2. quantity \in [Products -> Int]
  BY <1>1 DEF Init
<1>3. reserved \in [Products -> Int]
  BY DEF Init
<1>4. items \in [Calls -> Seq(Item)]
  BY DEF Init
<1> QED
  BY <1>2, <1>3, <1>4 DEF Init, TypeOK, Steps, Methods, Results

(* The positions of a call's items are products and positive quantities.   *)
LEMMA ItemTypes ==
    ASSUME TypeOK, NEW c \in Calls, NEW i \in 1 .. Len(items[c])
    PROVE  ProductAt(c, i) \in Products /\ QtyAt(c, i) \in Nat \ {0}
<1>1. items[c][i] \in Item
  BY DEF TypeOK
<1> QED
  BY <1>1 DEF Item, ProductAt, QtyAt

(* The steps that start or end a call keep the types.                      *)
LEMMA TypeBegin ==
    ASSUME TypeOK, NEW c \in Calls, NEW m \in Methods, NEW l \in Seq(Item),
           NEW r \in Calls, Begin(c, m, l, r)
    PROVE  TypeOK'
  BY DEF TypeOK, Begin, table, Steps, Methods, Results

LEMMA TypeReturn ==
    ASSUME TypeOK, NEW c \in Calls, NEW v \in Results, Return(c, v), UNCHANGED <<table, history>>
    PROVE  TypeOK'
  BY DEF TypeOK, Return, table, history, Steps, Results

(* So do the database statements.                                          *)
LEMMA TypeCheck ==
    ASSUME TypeOK, NEW c \in Calls, ReserveCheck(c)
    PROVE  TypeOK'
<1>1. idx[c] \in 1 .. Len(items[c])
  BY DEF ReserveCheck, More, TypeOK
<1>2. ProductAt(c, idx[c]) \in Products
  BY <1>1, ItemTypes
<1>3. Available(ProductAt(c, idx[c])) \in Int
  BY <1>2 DEF Available, TypeOK
<1> QED
  BY <1>3 DEF ReserveCheck, TypeOK, table, history, Steps

LEMMA TypeTable ==
    ASSUME TypeOK, NEW c \in Calls, NEW i \in 1 .. Len(items[c]),
           NEW d \in Calls, NEW o \in SUBSET Nat,
           open' = [open EXCEPT ![d] = o],
           \/ reserved' = [reserved EXCEPT ![ProductAt(c, i)] = @ + QtyAt(c, i)]
           \/ reserved' = [reserved EXCEPT ![ProductAt(c, i)] = @ - QtyAt(c, i)]
    PROVE  reserved' \in [Products -> Int] /\ open' \in [Calls -> SUBSET Nat]
<1>1. ProductAt(c, i) \in Products /\ QtyAt(c, i) \in Nat
  BY ItemTypes
<1>2. reserved \in [Products -> Int] /\ open \in [Calls -> SUBSET Nat]
  BY DEF TypeOK
<1> QED
  BY <1>1, <1>2

LEMMA TypeWrite ==
    ASSUME TypeOK, NEW c \in Calls, InRange(c), ReserveWrite(c)
    PROVE  TypeOK'
<1>1. idx[c] \in 1 .. Len(items[c])
  BY DEF ReserveWrite, InRange
<1>2. CASE ProductAt(c, idx[c]) \in rows
  <2>1. open[c] \union {idx[c]} \in SUBSET Nat /\ idx[c] + 1 \in Nat \ {0}
    BY <1>1 DEF TypeOK
  <2>2. reserved' \in [Products -> Int] /\ open' \in [Calls -> SUBSET Nat]
    BY <1>1, <1>2, <2>1, TypeTable DEF ReserveWrite, Throw, Return
  <2>3. idx' = [idx EXCEPT ![c] = idx[c] + 1] /\ pc' = [pc EXCEPT ![c] = "check"]
        /\ UNCHANGED <<rows, quantity, op, items, undone, seen, result, target>>
    BY <1>2 DEF ReserveWrite
  <2> QED
    BY <2>1, <2>2, <2>3 DEF TypeOK, Steps
<1>3. CASE ProductAt(c, idx[c]) \notin rows
  BY <1>3, TypeReturn DEF ReserveWrite, Throw, Results
<1> QED
  BY <1>2, <1>3

LEMMA TypeRollback ==
    ASSUME TypeOK, NEW c \in Calls, InRange(c), Rollback(c)
    PROVE  TypeOK'
<1> DEFINE i == Undoing(c)
<1>1. i \in 1 .. Len(items[c])
  BY DEF Rollback, InRange, Undoing, TypeOK
<1>2. CASE ProductAt(c, i) \in rows
  <2>1. open[c] \ {i} \in SUBSET Nat /\ undone[c] + 1 \in Nat
    BY DEF TypeOK
  <2>2. reserved' \in [Products -> Int] /\ open' \in [Calls -> SUBSET Nat]
    BY <1>1, <1>2, <2>1, TypeTable DEF Rollback
  <2>3. undone' = [undone EXCEPT ![c] = undone[c] + 1]
        /\ UNCHANGED <<rows, quantity, pc, op, items, idx, seen, result, target>>
    BY <1>2 DEF Rollback
  <2> QED
    BY <2>1, <2>2, <2>3 DEF TypeOK
<1>3. CASE ProductAt(c, i) \notin rows
  BY <1>3, TypeReturn DEF Rollback, Throw, Results
<1> QED
  BY <1>2, <1>3

LEMMA TypeApply ==
    ASSUME TypeOK, NEW c \in Calls,
           Apply(c, 0) \/ Apply(c, QtyAt(c, idx[c]))
    PROVE  TypeOK'
<1>1. idx[c] \in 1 .. Len(items[c])
  BY DEF Apply, More, TypeOK
<1>2. ProductAt(c, idx[c]) \in Products /\ QtyAt(c, idx[c]) \in Nat
  BY <1>1, ItemTypes
<1>3. CASE ProductAt(c, idx[c]) \in rows
  <2>1. open[target[c]] \ {idx[c]} \in SUBSET Nat /\ idx[c] + 1 \in Nat \ {0}
        /\ target[c] \in Calls
    BY DEF TypeOK
  <2>2. reserved' \in [Products -> Int] /\ open' \in [Calls -> SUBSET Nat]
    BY <1>1, <1>3, <2>1, TypeTable DEF Apply
  <2>3. PICK t \in {0, QtyAt(c, idx[c])} :
          quantity' = [quantity EXCEPT ![ProductAt(c, idx[c])] = @ - t]
    BY <1>3 DEF Apply
  <2>4. t \in Int
    BY <1>2, <2>3
  <2>5. quantity' \in [Products -> Int]
    BY <1>2, <2>3, <2>4 DEF TypeOK
  <2>6. idx' = [idx EXCEPT ![c] = idx[c] + 1]
        /\ UNCHANGED <<rows, pc, op, items, undone, seen, result, target>>
    BY <1>3 DEF Apply
  <2> QED
    BY <2>1, <2>2, <2>5, <2>6 DEF TypeOK
<1>4. CASE ProductAt(c, idx[c]) \notin rows
  BY <1>4, TypeReturn DEF Apply, Throw, Results
<1> QED
  BY <1>3, <1>4

LEMMA TypeHandle ==
    ASSUME TypeOK, NEW c \in Calls, InRange(c), Handle(c)
    PROVE  TypeOK'
<1>1. CASE ReserveCheck(c)
  BY <1>1, TypeCheck
<1>2. CASE ReserveWrite(c)
  BY <1>2, TypeWrite
<1>3. CASE Rollback(c)
  BY <1>3, TypeRollback
<1>4. CASE ReleaseStep(c) \/ ConfirmStep(c)
  BY <1>4, TypeApply DEF ReleaseStep, ConfirmStep
<1>5. CASE Finish(c) \/ DbFails(c)
  BY <1>5, TypeReturn DEF Finish, DbFails, Throw, Results
<1> QED
  BY <1>1, <1>2, <1>3, <1>4, <1>5 DEF Handle

-----------------------------------------------------------------------------
(* What a statement does, call by call.                                    *)

(* It moves its own call only, and keeps it in its list.                   *)
LEMMA HandleFrame ==
    ASSUME TypeOK, NEW c \in Calls, InRange(c), Handle(c)
    PROVE  /\ Running(c) /\ InRange(c)'
           /\ \A d \in Calls : d # c =>
                 pc'[d] = pc[d] /\ idx'[d] = idx[d] /\ undone'[d] = undone[d] /\ result'[d] = result[d]
           /\ UNCHANGED <<op, items, target>>
<1>1. CASE ReserveCheck(c)
  BY <1>1 DEF ReserveCheck, More, InRange, Running, TypeOK, history
<1>2. CASE ReserveWrite(c)
  BY <1>2 DEF ReserveWrite, Throw, Return, InRange, Running, TypeOK, history
<1>3. CASE Rollback(c)
  BY <1>3 DEF Rollback, Throw, Return, InRange, Running, TypeOK, history
<1>4. CASE ReleaseStep(c) \/ ConfirmStep(c)
  BY <1>4 DEF ReleaseStep, ConfirmStep, Apply, Throw, Return, InRange, Running, TypeOK, history
<1>5. CASE Finish(c) \/ DbFails(c)
  BY <1>5 DEF Finish, DbFails, Throw, Return, InRange, Running, TypeOK, history
<1> QED
  BY <1>1, <1>2, <1>3, <1>4, <1>5 DEF Handle

Returns(c, value) ==
    /\ pc' = [pc EXCEPT ![c] = "done"] /\ result' = [result EXCEPT ![c] = value]
    /\ UNCHANGED <<open, idx, undone>>

(* A release or a confirm takes back its next position, or returns.        *)
LEMMA SettleEffect ==
    ASSUME TypeOK, NEW c \in Calls, pc[c] = "apply", Handle(c)
    PROVE  \/ /\ More(c) /\ open' = [open EXCEPT ![target[c]] = @ \ {idx[c]}]
              /\ idx' = [idx EXCEPT ![c] = @ + 1] /\ UNCHANGED <<pc, undone, result>>
           \/ ~More(c) /\ Returns(c, "success")
           \/ Returns(c, "error")
<1>1. CASE ReleaseStep(c) \/ ConfirmStep(c)
  BY <1>1 DEF ReleaseStep, ConfirmStep, Apply, Throw, Return, Returns, history
<1>2. CASE Finish(c) \/ DbFails(c)
  BY <1>2 DEF Finish, DbFails, Throw, Return, Returns, history
<1> QED
  BY <1>1, <1>2 DEF Handle, ReserveCheck, ReserveWrite, Rollback

(* A reservation goes from check to increment and back, or is undone from  *)
(* its first position on, or returns.                                      *)
LEMMA ReserveEffect ==
    ASSUME TypeOK, NEW c \in Calls, pc[c] # "apply", Handle(c)
    PROVE  \/ /\ pc[c] = "check" /\ More(c) /\ UNCHANGED <<open, idx, undone, result>>
              /\ \E s \in {"write", "rollback"} : pc' = [pc EXCEPT ![c] = s]
           \/ /\ pc[c] = "write" /\ pc' = [pc EXCEPT ![c] = "check"]
              /\ open' = [open EXCEPT ![c] = @ \union {idx[c]}]
              /\ idx' = [idx EXCEPT ![c] = @ + 1] /\ UNCHANGED <<undone, result>>
           \/ /\ pc[c] = "rollback" /\ open' = [open EXCEPT ![c] = @ \ {Undoing(c)}]
              /\ undone' = [undone EXCEPT ![c] = @ + 1] /\ UNCHANGED <<pc, idx, result>>
              /\ Undoing(c) < idx[c]
           \/ pc[c] = "check" /\ ~More(c) /\ Returns(c, "success")
           \/ pc[c] = "rollback" /\ Undoing(c) = idx[c] /\ Returns(c, "insufficient")
           \/ Returns(c, "error")
<1>1. CASE ReserveCheck(c)
  <2>1. PICK s \in {"write", "rollback"} : pc' = [pc EXCEPT ![c] = s]
    BY <1>1 DEF ReserveCheck
  <2> QED
    BY <1>1, <2>1 DEF ReserveCheck, history
<1>2. CASE ReserveWrite(c)
  BY <1>2 DEF ReserveWrite, Throw, Return, Returns, history
<1>3. CASE Rollback(c)
  BY <1>3 DEF Rollback, Throw, Return, Returns, history
<1>4. CASE Finish(c)
  BY <1>4 DEF Finish, Return, Returns, history
<1>5. CASE DbFails(c)
  BY <1>5 DEF DbFails, Throw, Return, Returns, history
<1> QED
  BY <1>1, <1>2, <1>3, <1>4, <1>5 DEF Handle, ReleaseStep, ConfirmStep, Apply

(* Every step keeps the types.                                             *)
LEMMA TypeNext == TypeOK /\ Progress /\ [Next]_vars => TypeOK'
<1> SUFFICES ASSUME TypeOK, Progress, [Next]_vars PROVE TypeOK'
  OBVIOUS
<1>1. CASE UNCHANGED vars
  BY <1>1 DEF vars, table, locals, history, TypeOK
<1>2. ASSUME NEW c \in Calls, BeginReserve(c) PROVE TypeOK'
  BY <1>2, TypeBegin, InventoryAssumption DEF BeginReserve, Methods
<1>3. ASSUME NEW c \in Calls, BeginRelease(c) \/ BeginConfirm(c) PROVE TypeOK'
  <2>1. PICK r \in Calls : Begin(c, "release", items[r], r) \/ Begin(c, "confirm", items[r], r)
    BY <1>3 DEF BeginRelease, BeginConfirm
  <2>2. items[r] \in Seq(Item)
    BY DEF TypeOK
  <2> QED
    BY <2>1, <2>2, TypeBegin DEF Methods
<1>4. ASSUME NEW c \in Calls, Handle(c) PROVE TypeOK'
  <2>1. InRange(c)
    BY DEF Progress, Checked, Shrinking, InRange, TypeOK
  <2> QED
    BY <1>4, <2>1, TypeHandle
<1>5. ASSUME NEW p \in Products, PutQuantity(p) PROVE TypeOK'
  <2>1. PICK q \in Updates : quantity' = [quantity EXCEPT ![p] = q]
    BY <1>5 DEF PutQuantity
  <2>2. q \in Int
    BY InventoryAssumption
  <2>3. quantity' \in [Products -> Int]
    BY <2>1, <2>2 DEF TypeOK
  <2> QED
    BY <1>5, <2>3 DEF PutQuantity, locals, history, TypeOK
<1>6. ASSUME NEW p \in Products, DeleteProduct(p) PROVE TypeOK'
  BY <1>6 DEF DeleteProduct, locals, history, TypeOK
<1> QED
  BY <1>1, <1>2, <1>3, <1>4, <1>5, <1>6 DEF Next, AllDone

-----------------------------------------------------------------------------
(* Progress.  First what the item loops do to the positions they hold.     *)

LEMMA Grow == ASSUME NEW i \in Nat \ {0} PROVE 1 .. ((i + 1) - 1) = (1 .. (i - 1)) \union {i}
  OBVIOUS

LEMMA Shrink ==
    ASSUME NEW i \in Nat, NEW n \in Int
    PROVE  (i .. n) \ {i} = (i + 1) .. n
  OBVIOUS

LEMMA ProgressInit == Init => Progress
<1> SUFFICES ASSUME Init PROVE Progress
  OBVIOUS
<1> USE DEF Init
<1>1. Phases /\ OpenOwned /\ Growing /\ Checked /\ Shrinking
  BY DEF Phases, OpenOwned, Growing, Checked, Shrinking
<1>2. Settling /\ OneSettler /\ AllOrNothing /\ SettledInFull
  BY DEF Settling, OneSettler, AllOrNothing, SettledInFull, Settlers
<1> QED
  BY <1>1, <1>2 DEF Progress

(* A reservation starts with nothing held.                                 *)
LEMMA ProgressReserve ==
    ASSUME TypeOK, Progress, NEW c \in Calls, NEW l \in Seq(Item), Begin(c, "reserve", l, c)
    PROVE  Progress'
<1> USE DEF Progress
<1>1. pc[c] = "idle" /\ op[c] = "none" /\ result[c] = "none" /\ open[c] = {}
  BY DEF Begin, Phases, OpenOwned
<1>2. /\ pc' = [pc EXCEPT ![c] = "check"] /\ op' = [op EXCEPT ![c] = "reserve"]
      /\ items' = [items EXCEPT ![c] = l] /\ idx' = [idx EXCEPT ![c] = 1]
      /\ undone' = [undone EXCEPT ![c] = 0] /\ target' = [target EXCEPT ![c] = c]
      /\ UNCHANGED <<table, seen, result, open>>
  BY DEF Begin
<1>3. 1 .. (1 - 1) = {} /\ 1 <= Len(l) + 1
  OBVIOUS
<1> USE DEF TypeOK
<1>4. Phases'
  BY <1>1, <1>2 DEF Phases
<1>5. OpenOwned'
  BY <1>1, <1>2 DEF OpenOwned
<1>6. Growing'
  BY <1>1, <1>2, <1>3 DEF Growing
<1>7. Checked' /\ Shrinking'
  BY <1>1, <1>2 DEF Checked, Shrinking, QtyAt
<1>8. \A d \in Calls : op'[d] \in Settlers => op[d] \in Settlers /\ target'[d] = target[d] /\ d # c
  BY <1>2 DEF Settlers
<1>9. \A d \in Calls : op[d] \in Settlers => target[d] # c
  BY <1>1 DEF Settling
<1>10. Settling'
  BY <1>2, <1>8, <1>9 DEF Settling
<1>11. OneSettler'
  BY <1>2, <1>8 DEF OneSettler
<1>12. AllOrNothing'
  BY <1>1, <1>2 DEF AllOrNothing, Unsettled
<1>13. SettledInFull'
  BY <1>1, <1>2 DEF SettledInFull
<1> QED
  BY <1>4, <1>5, <1>6, <1>7, <1>10, <1>11, <1>12, <1>13

(* A release or confirm starts with the whole of its reservation to take.  *)
LEMMA ProgressSettle ==
    ASSUME TypeOK, Progress, NEW c \in Calls, NEW r \in Calls, NEW m \in Settlers,
           Unsettled(r), Begin(c, m, items[r], r)
    PROVE  Progress'
<1> USE DEF Progress
<1>1. pc[c] = "idle" /\ op[c] = "none" /\ result[c] = "none" /\ open[c] = {}
  BY DEF Begin, Phases, OpenOwned
<1>2. /\ pc' = [pc EXCEPT ![c] = "apply"] /\ op' = [op EXCEPT ![c] = m]
      /\ items' = [items EXCEPT ![c] = items[r]] /\ idx' = [idx EXCEPT ![c] = 1]
      /\ undone' = [undone EXCEPT ![c] = 0] /\ target' = [target EXCEPT ![c] = r]
      /\ UNCHANGED <<table, seen, result, open>>
  BY DEF Begin, Settlers
<1>3. op[r] = "reserve" /\ result[r] = "success" /\ open[r] = 1 .. Len(items[r]) /\ r # c
  BY <1>1 DEF Unsettled, AllOrNothing
<1>4. \A d \in Calls : op[d] \in Settlers => target[d] # r /\ target[d] # c
  BY <1>1 DEF Unsettled, Settling, Settlers
<1>5. Len(items[r]) \in Nat
  BY DEF TypeOK
<1> USE DEF TypeOK
<1>6. Phases'
  BY <1>1, <1>2 DEF Phases, Settlers
<1>7. OpenOwned'
  BY <1>1, <1>2 DEF OpenOwned
<1>8. Growing'
  BY <1>1, <1>2 DEF Growing
<1>9. Checked' /\ Shrinking'
  BY <1>1, <1>2 DEF Checked, Shrinking, QtyAt
<1>10. Settling'
  BY <1>2, <1>3, <1>4, <1>5 DEF Settling, Settlers
<1>11. OneSettler'
  BY <1>2, <1>4 DEF OneSettler
<1>12. \A d \in Calls : Unsettled(d)' => Unsettled(d) /\ d # r
  BY <1>1, <1>2 DEF Unsettled, Settlers
<1>13. AllOrNothing'
  BY <1>1, <1>2, <1>12 DEF AllOrNothing, Settlers
<1>14. SettledInFull'
  BY <1>1, <1>2 DEF SettledInFull
<1> QED
  BY <1>6, <1>7, <1>8, <1>9, <1>10, <1>11, <1>13, <1>14

(* A check: the position is free to be written, or a rollback begins.      *)
LEMMA ProgressCheck ==
    ASSUME TypeOK, Progress, NEW c \in Calls, ReserveCheck(c)
    PROVE  Progress'
<1> USE DEF Progress
<1>1. /\ pc[c] = "check" /\ idx[c] <= Len(items[c])
      /\ UNCHANGED <<op, items, idx, undone, result, target, open>>
  BY DEF ReserveCheck, More, history
<1>2. PICK s \in {"write", "rollback"} :
        /\ pc' = [pc EXCEPT ![c] = s]
        /\ s = "write" => QtyAt(c, idx[c]) <= seen'[c]
        /\ \A d \in Calls : d # c => seen'[d] = seen[d]
  <2>1. CASE ProductAt(c, idx[c]) \in rows
             /\ Available(ProductAt(c, idx[c])) >= QtyAt(c, idx[c])
    BY <2>1 DEF ReserveCheck, TypeOK
  <2>2. CASE ~(ProductAt(c, idx[c]) \in rows
             /\ Available(ProductAt(c, idx[c])) >= QtyAt(c, idx[c]))
    BY <2>2 DEF ReserveCheck, TypeOK
  <2> QED
    BY <2>1, <2>2
<1>3. open[c] = 1 .. (idx[c] - 1) /\ undone[c] = 0
  BY <1>1 DEF Growing
<1> USE DEF TypeOK
<1>4. Phases'
  BY <1>1, <1>2 DEF Phases
<1>5. OpenOwned' /\ AllOrNothing' /\ SettledInFull' /\ OneSettler'
  BY <1>1 DEF OpenOwned, AllOrNothing, Unsettled, SettledInFull, OneSettler
<1>6. Growing'
  BY <1>1, <1>2 DEF Growing
<1>7. Checked'
  BY <1>1, <1>2 DEF Checked, QtyAt
<1>8. Shrinking'
  BY <1>1, <1>2, <1>3 DEF Shrinking
<1>9. Settling'
  BY <1>1, <1>2 DEF Settling
<1> QED
  BY <1>4, <1>5, <1>6, <1>7, <1>8, <1>9

(* An increment: one more position is held.                                *)
LEMMA ProgressWrite ==
    ASSUME TypeOK, Progress, NEW c \in Calls, ReserveWrite(c),
           ProductAt(c, idx[c]) \in rows
    PROVE  Progress'
<1> USE DEF Progress
<1>1. /\ pc[c] = "write" /\ pc' = [pc EXCEPT ![c] = "check"]
      /\ idx' = [idx EXCEPT ![c] = idx[c] + 1]
      /\ open' = [open EXCEPT ![c] = open[c] \union {idx[c]}]
      /\ UNCHANGED <<op, items, undone, seen, result, target>>
  BY DEF ReserveWrite
<1>2. /\ open[c] = 1 .. (idx[c] - 1) /\ idx[c] <= Len(items[c]) /\ undone[c] = 0
      /\ idx[c] \in Nat \ {0} /\ Len(items[c]) \in Nat
  BY <1>1 DEF Growing, Checked, TypeOK
<1>3. op[c] = "reserve" /\ result[c] = "none"
  BY <1>1 DEF Phases
<1>4. open'[c] = 1 .. ((idx[c] + 1) - 1) /\ open'[c] \subseteq 1 .. Len(items[c])
  BY <1>1, <1>2, Grow DEF TypeOK
<1>5. \A d \in Calls : op[d] \in Settlers => target[d] # c
  BY <1>3 DEF Settling
<1> USE DEF TypeOK
<1>6. Phases'
  BY <1>1, <1>3 DEF Phases
<1>7. OpenOwned'
  BY <1>1, <1>3, <1>4 DEF OpenOwned
<1>8. Growing'
  <2>1. idx[c] + 1 <= Len(items[c]) + 1
    BY <1>2
  <2>2. idx'[c] = idx[c] + 1 /\ undone'[c] = 0
    BY <1>1, <1>2
  <2>3. \A d \in Calls : d # c => idx'[d] = idx[d] /\ pc'[d] = pc[d] /\ open'[d] = open[d]
    BY <1>1
  <2> QED
    BY <1>1, <1>4, <2>1, <2>2, <2>3 DEF Growing
<1>9. Checked'
  BY <1>1 DEF Checked, QtyAt
<1>10. Shrinking'
  BY <1>1 DEF Shrinking
<1>11. Settling'
  BY <1>1, <1>3, <1>5 DEF Settling, Settlers
<1>12. OneSettler'
  BY <1>1 DEF OneSettler
<1>13. AllOrNothing'
  BY <1>1, <1>3 DEF AllOrNothing, Unsettled
<1>14. SettledInFull'
  BY <1>1, <1>5 DEF SettledInFull, Settlers
<1> QED
  BY <1>6, <1>7, <1>8, <1>9, <1>10, <1>11, <1>12, <1>13, <1>14

(* A rollback gives one position back.                                     *)
LEMMA ProgressRollback ==
    ASSUME TypeOK, Progress, NEW c \in Calls, Rollback(c),
           ProductAt(c, Undoing(c)) \in rows
    PROVE  Progress'
<1> USE DEF Progress
<1>1. /\ pc[c] = "rollback" /\ undone[c] + 1 < idx[c]
      /\ undone' = [undone EXCEPT ![c] = undone[c] + 1]
      /\ open' = [open EXCEPT ![c] = open[c] \ {undone[c] + 1}]
      /\ UNCHANGED <<pc, op, items, idx, seen, result, target>>
  BY DEF Rollback, Undoing
<1>2. /\ open[c] = (undone[c] + 1) .. (idx[c] - 1)
      /\ undone[c] < idx[c] /\ idx[c] <= Len(items[c])
      /\ undone[c] \in Nat /\ idx[c] \in Nat /\ Len(items[c]) \in Nat
  BY <1>1 DEF Shrinking, TypeOK
<1>3. op[c] = "reserve" /\ result[c] = "none"
  BY <1>1 DEF Phases
<1>4. undone[c] + 1 \in Nat /\ idx[c] - 1 \in Int
  BY <1>2
<1>5. open'[c] = ((undone[c] + 1) + 1) .. (idx[c] - 1)
  BY <1>1, <1>2, <1>4, Shrink DEF TypeOK
<1>6. \A d \in Calls : op[d] \in Settlers => target[d] # c
  BY <1>3 DEF Settling
<1> USE DEF TypeOK
<1>7. Phases'
  BY <1>1 DEF Phases
<1>8. OpenOwned'
  BY <1>1 DEF OpenOwned
<1>9. Growing' /\ Checked'
  BY <1>1 DEF Growing, Checked, QtyAt
<1>10. Shrinking'
  BY <1>1, <1>2, <1>5 DEF Shrinking
<1>11. Settling'
  BY <1>1, <1>3, <1>6 DEF Settling, Settlers
<1>12. OneSettler'
  BY <1>1 DEF OneSettler
<1>13. AllOrNothing'
  BY <1>1, <1>3 DEF AllOrNothing, Unsettled
<1>14. SettledInFull'
  BY <1>1, <1>6 DEF SettledInFull, Settlers
<1> QED
  BY <1>7, <1>8, <1>9, <1>10, <1>11, <1>12, <1>13, <1>14

(* A release or confirm takes one position of its reservation.             *)
LEMMA ProgressApply ==
    ASSUME TypeOK, Progress, NEW c \in Calls, NEW taken, Apply(c, taken),
           ProductAt(c, idx[c]) \in rows
    PROVE  Progress'
<1> DEFINE r == target[c]
<1> USE DEF Progress
<1>1. /\ pc[c] = "apply" /\ idx[c] <= Len(items[c])
      /\ idx' = [idx EXCEPT ![c] = idx[c] + 1]
      /\ open' = [open EXCEPT ![r] = open[r] \ {idx[c]}]
      /\ UNCHANGED <<pc, op, items, undone, seen, result, target>>
  BY DEF Apply, More
<1>2. op[c] \in Settlers /\ result[c] = "none" /\ r \in Calls
  BY <1>1 DEF Phases, TypeOK
<1>3. /\ op[r] = "reserve" /\ result[r] = "success" /\ items[r] = items[c]
      /\ open[r] = idx[c] .. Len(items[c])
  BY <1>1, <1>2 DEF Settling
<1>4. r # c /\ pc[r] = "done"
  BY <1>2, <1>3 DEF Phases, Settlers
<1>5. /\ idx[c] \in Nat /\ Len(items[c]) \in Int
      /\ idx[c] + 1 <= Len(items[c]) + 1
  BY <1>1 DEF TypeOK
<1>6. open'[r] = (idx[c] + 1) .. Len(items[c])
  BY <1>1, <1>2, <1>3, <1>5, Shrink DEF TypeOK
<1>7. \A d \in Calls : op[d] \in Settlers /\ d # c => target[d] # r
  BY <1>2 DEF OneSettler
<1> HIDE DEF r
<1>8. ~Unsettled(r)
  BY <1>2 DEF Unsettled, Settlers, r
<1> USE DEF TypeOK
<1>9. Phases'
  BY <1>1 DEF Phases
<1>10. OpenOwned'
  BY <1>1, <1>2 DEF OpenOwned
<1>11. Growing' /\ Checked' /\ Shrinking'
  BY <1>1, <1>4 DEF Growing, Checked, Shrinking, QtyAt
<1>12. Settling'
  <2>1. ASSUME NEW d \in Calls, op[d] \in Settlers, pc[d] = "apply"
        PROVE  open'[target[d]] = idx'[d] .. Len(items[d]) /\ idx'[d] <= Len(items[d]) + 1
    <3>1. CASE d = c
      BY <3>1, <1>1, <1>2, <1>3, <1>5, <1>6 DEF r
    <3>2. CASE d # c
      <4>1. target[d] # r
        BY <2>1, <3>2, <1>7
      <4>2. open'[target[d]] = open[target[d]] /\ idx'[d] = idx[d]
        BY <1>1, <1>2, <3>2, <4>1
      <4> QED
        BY <2>1, <4>2 DEF Settling
    <3> QED
      BY <3>1, <3>2
  <2>2. UNCHANGED <<pc, op, items, result, target>>
    BY <1>1
  <2> QED
    BY <2>1, <2>2 DEF Settling
<1>13. OneSettler'
  BY <1>1 DEF OneSettler
<1>14. AllOrNothing'
  BY <1>1, <1>3, <1>8 DEF AllOrNothing, Unsettled
<1>15. SettledInFull'
  BY <1>1, <1>2, <1>7 DEF SettledInFull, Settlers
<1> QED
  BY <1>9, <1>10, <1>11, <1>12, <1>13, <1>14, <1>15

(* A call that returns "success" or "insufficient" has finished its loop;  *)
(* an error may leave anything.                                            *)
LEMMA ProgressReturn ==
    ASSUME TypeOK, Progress, NEW c \in Calls, NEW v \in Results, Return(c, v), Running(c),
           v \in {"error", "success", "insufficient"},
           v = "success" => pc[c] \in {"check", "apply"} /\ ~More(c),
           v = "insufficient" => pc[c] = "rollback" /\ Undoing(c) = idx[c],
           UNCHANGED <<table, history>>
    PROVE  Progress'
<1> USE DEF Progress
<1>1. /\ pc[c] \notin {"idle", "done"} /\ pc' = [pc EXCEPT ![c] = "done"]
      /\ result' = [result EXCEPT ![c] = v]
      /\ UNCHANGED <<op, items, idx, undone, seen, target, open>>
  BY DEF Return, Running, history
<1>2. op[c] # "none" /\ result[c] = "none"
  BY <1>1 DEF Phases, TypeOK, Steps
<1>3. \A d \in Calls : op[d] \in Settlers => target[d] # c
  BY <1>2 DEF Settling
<1>4. Len(items[c]) \in Nat /\ idx[c] \in Nat /\ undone[c] \in Nat
  BY DEF TypeOK
<1> USE DEF TypeOK
<1>5. Phases'
  BY <1>1, <1>2 DEF Phases
<1>6. OpenOwned' /\ OneSettler'
  BY <1>1 DEF OpenOwned, OneSettler
<1>7. Growing' /\ Checked' /\ Shrinking'
  BY <1>1 DEF Growing, Checked, Shrinking, QtyAt
<1>8. Settling'
  BY <1>1, <1>3 DEF Settling
<1>9. \A d \in Calls : d # c => (Unsettled(d)' => Unsettled(d))
  BY <1>1 DEF Unsettled
<1>10. op[c] = "reserve" /\ v = "success" => open[c] = 1 .. Len(items[c])
  <2> SUFFICES ASSUME op[c] = "reserve", v = "success" PROVE open[c] = 1 .. Len(items[c])
    OBVIOUS
  <2>1. pc[c] = "check"
    BY DEF Phases, Settlers
  <2>2. Len(items[c]) < idx[c]
    BY <1>4 DEF More
  <2>3. open[c] = 1 .. (idx[c] - 1) /\ idx[c] <= Len(items[c]) + 1
    BY <2>1 DEF Growing
  <2>4. idx[c] - 1 = Len(items[c])
    BY <2>2, <2>3, <1>4
  <2> QED
    BY <2>3, <2>4
<1>11. v = "insufficient" => open[c] = {}
  BY <1>4 DEF Shrinking, Undoing
<1>12. AllOrNothing'
  BY <1>1, <1>9, <1>10, <1>11 DEF AllOrNothing
<1>13. op[c] \in Settlers /\ v = "success" => open[target[c]] = {}
  <2> SUFFICES ASSUME op[c] \in Settlers, v = "success" PROVE open[target[c]] = {}
    OBVIOUS
  <2>1. pc[c] = "apply" /\ Len(items[c]) < idx[c]
    BY <1>4 DEF Phases, Settlers, More
  <2> QED
    BY <2>1, <1>4 DEF Settling
<1>14. SettledInFull'
  BY <1>1, <1>13 DEF SettledInFull, Settlers
<1> QED
  BY <1>5, <1>6, <1>7, <1>8, <1>12, <1>14

LEMMA ProgressHandle ==
    ASSUME TypeOK, Progress, NEW c \in Calls, Handle(c)
    PROVE  Progress'
<1>1. CASE ReserveCheck(c)
  BY <1>1, ProgressCheck
<1>2. CASE Throw(c) /\ Running(c)
  BY <1>2, ProgressReturn DEF Throw, Results
<1>3. CASE ReserveWrite(c)
  BY <1>2, <1>3, ProgressWrite DEF ReserveWrite, Running
<1>4. CASE Rollback(c)
  BY <1>2, <1>4, ProgressRollback DEF Rollback, Running
<1>5. CASE ReleaseStep(c) \/ ConfirmStep(c)
  <2>1. PICK taken \in {0, QtyAt(c, idx[c])} : Apply(c, taken)
    BY <1>5 DEF ReleaseStep, ConfirmStep
  <2> QED
    BY <1>2, <2>1, ProgressApply DEF Apply, Running
<1>6. CASE Finish(c)
  BY <1>6, ProgressReturn DEF Finish, Running, Results
<1>7. CASE DbFails(c)
  BY <1>2, <1>7 DEF DbFails, Running
<1> QED
  BY <1>1, <1>3, <1>4, <1>5, <1>6, <1>7 DEF Handle

LEMMA ProgressNext == TypeOK /\ Progress /\ [Next]_vars => Progress'
<1> SUFFICES ASSUME TypeOK, Progress, [Next]_vars PROVE Progress'
  OBVIOUS
<1>1. CASE UNCHANGED <<locals, history>>
  <2> USE <1>1 DEF locals, history, Progress
  <2>1. Phases' /\ OpenOwned' /\ Growing' /\ Checked' /\ Shrinking'
    BY DEF Phases, OpenOwned, Growing, Checked, Shrinking, QtyAt
  <2>2. Settling' /\ OneSettler' /\ AllOrNothing' /\ SettledInFull'
    BY DEF Settling, OneSettler, AllOrNothing, Unsettled, SettledInFull
  <2> QED
    BY <2>1, <2>2
<1>2. ASSUME NEW c \in Calls, BeginReserve(c) PROVE Progress'
  BY <1>2, ProgressReserve, InventoryAssumption DEF BeginReserve
<1>3. ASSUME NEW c \in Calls, BeginRelease(c) \/ BeginConfirm(c) PROVE Progress'
  BY <1>3, ProgressSettle DEF BeginRelease, BeginConfirm, Settlers
<1>4. ASSUME NEW c \in Calls, Handle(c) PROVE Progress'
  BY <1>4, ProgressHandle
<1>5. ASSUME NEW p \in Products, PutQuantity(p) \/ DeleteProduct(p) PROVE Progress'
  BY <1>1, <1>5 DEF PutQuantity, DeleteProduct
<1> QED
  BY <1>1, <1>2, <1>3, <1>4, <1>5 DEF Next, AllDone, vars

(* The inductive invariant holds of every behaviour.                       *)
THEOREM Invariance == Spec => [](TypeOK /\ Progress)
<1>1. Init => TypeOK /\ Progress
  BY TypeInit, ProgressInit
<1>2. TypeOK /\ Progress /\ [Next]_vars => (TypeOK /\ Progress)'
  BY TypeNext, ProgressNext
<1> QED
  BY <1>1, <1>2, PTL DEF Spec

(* Types, for every value of the constants.                                *)
THEOREM TypeCorrect == Spec => []TypeOK
  BY Invariance, PTL

(* reserveStock grants a list whole or leaves nothing of it behind, for    *)
(* any number of concurrent handlers and any item lists.                   *)
THEOREM ReserveIsAllOrNothing == Spec => []AllOrNothing
<1>1. Progress => AllOrNothing
  BY DEF Progress
<1> QED
  BY <1>1, Invariance, PTL

(* A release or confirm that succeeds has taken its whole reservation.     *)
THEOREM SettlingIsComplete == Spec => []SettledInFull
<1>1. Progress => SettledInFull
  BY DEF Progress
<1> QED
  BY <1>1, Invariance, PTL

-----------------------------------------------------------------------------
(* Accounting.  The units held, as a function of what is open.             *)

Block(x, t) == {x} \X (1 .. t[x[1]][x[2]].quantity)
UnitsOf(o, t, p) ==
    UNION {Block(x, t) : x \in {y \in UNION {{c} \X o[c] : c \in Calls} : t[y[1]][y[2]].productId = p}}

LEMMA UnitsIsUnitsOf == \A p : Units(p) = UnitsOf(open, items, p)
  BY DEF Units, Places, UnitsOf, Block, ProductAt, QtyAt

LEMMA InUnitsOf ==
    ASSUME NEW o, NEW t, NEW p, NEW u
    PROVE  u \in UnitsOf(o, t, p) <=>
             \E c \in Calls : \E i \in o[c] :
                t[c][i].productId = p /\ u \in Block(<<c, i>>, t)
  BY DEF UnitsOf, Block

LEMMA InBlock ==
    ASSUME NEW x, NEW t, NEW u
    PROVE  u \in Block(x, t) <=> \E n \in 1 .. t[x[1]][x[2]].quantity : u = <<x, n>>
  BY DEF Block

LEMMA IntervalSize ==
    ASSUME NEW n \in Nat
    PROVE  IsFiniteSet(1 .. n) /\ Cardinality(1 .. n) = n
  BY FS_Interval, 1 \in Int, n \in Int

LEMMA BlockSize ==
    ASSUME NEW c, NEW i, NEW t, t[c][i].quantity \in Nat
    PROVE  IsFiniteSet(Block(<<c, i>>, t)) /\ Cardinality(Block(<<c, i>>, t)) = t[c][i].quantity
<1> DEFINE n == t[c][i].quantity
<1>1. n \in Nat /\ IsFiniteSet(1 .. n) /\ Cardinality(1 .. n) = n
  BY IntervalSize
<1>2. IsFiniteSet({<<c, i>>}) /\ Cardinality({<<c, i>>}) = 1
  BY FS_Singleton
<1>3. Block(<<c, i>>, t) = {<<c, i>>} \X (1 .. n)
  BY DEF Block
<1> HIDE DEF n
<1>4. IsFiniteSet({<<c, i>>} \X (1 .. n)) /\ Cardinality({<<c, i>>} \X (1 .. n)) = 1 * n
  BY <1>1, <1>2, FS_Product
<1>5. 1 * n = n
  BY <1>1
<1> QED
  BY <1>3, <1>4, <1>5 DEF n

(* o2 is o with position i of call c opened.                               *)
Opens(o, o2, c, i) ==
    /\ o \in [Calls -> SUBSET Nat] /\ i \notin o[c]
    /\ o2 = [o EXCEPT ![c] = @ \union {i}]

(* Opening a position adds its units to those of its product, and to no    *)
(* other's.                                                                *)
LEMMA OpenUnits ==
    ASSUME NEW o, NEW o2, NEW t, NEW c \in Calls, NEW i \in Nat, NEW p, Opens(o, o2, c, i),
           t[c][i].quantity \in Nat, IsFiniteSet(UnitsOf(o, t, p))
    PROVE  /\ IsFiniteSet(UnitsOf(o2, t, p))
           /\ t[c][i].productId = p =>
                 Cardinality(UnitsOf(o2, t, p)) = Cardinality(UnitsOf(o, t, p)) + t[c][i].quantity
           /\ t[c][i].productId # p => UnitsOf(o2, t, p) = UnitsOf(o, t, p)
<1> DEFINE B == Block(<<c, i>>, t)
           U == UnitsOf(o, t, p)
           V == UnitsOf(o2, t, p)
      Holds(r, d, j, u) == j \in r[d] /\ t[d][j].productId = p /\ u \in Block(<<d, j>>, t)
<1>1. /\ i \notin o[c]
      /\ \A d \in Calls : \A j : j \in o2[d] <=> j \in o[d] \/ (d = c /\ j = i)
  BY DEF Opens
<1>u. \A u : u \in U <=> \E d \in Calls : \E j : Holds(o, d, j, u)
  BY InUnitsOf
<1>v. \A u : u \in V <=> \E d \in Calls : \E j : Holds(o2, d, j, u)
  BY InUnitsOf
<1> HIDE DEF U, V
<1>2. CASE t[c][i].productId # p
  <2>1. \A u : u \in V <=> u \in U
    BY <1>1, <1>2, <1>u, <1>v
  <2>2. V = U
    BY <2>1
  <2> QED
    BY <1>2, <2>2 DEF U, V
<1>3. CASE t[c][i].productId = p
  <2>1. \A u : u \in V <=> u \in U \/ u \in B
    BY <1>1, <1>3, <1>u, <1>v
  <2>2. V = U \union B
    BY <2>1
  <2>3. U \intersect B = {}
    <3> SUFFICES ASSUME NEW u, u \in U, u \in B PROVE FALSE
      OBVIOUS
    <3>1. PICK d \in Calls : \E j : Holds(o, d, j, u)
      BY <1>u
    <3>3. PICK j : Holds(o, d, j, u)
      BY <3>1
    <3>2. u[1] = <<d, j>> /\ u[1] = <<c, i>>
      BY <3>3, InBlock
    <3> QED
      BY <1>1, <3>2, <3>3
  <2>4. IsFiniteSet(B) /\ Cardinality(B) = t[c][i].quantity
    BY BlockSize
  <2> HIDE DEF B
  <2>5. IsFiniteSet(U)
    BY DEF U
  <2>6. IsFiniteSet(U \union B)
        /\ Cardinality(U \union B) = Cardinality(U) + Cardinality(B) - Cardinality({})
    BY <2>3, <2>4, <2>5, FS_Union
  <2>7. Cardinality(U) \in Nat /\ Cardinality(B) \in Nat /\ Cardinality({}) = 0
    BY <2>4, <2>5, FS_CardinalityType, FS_EmptySet
  <2>8. Cardinality(U \union B) = Cardinality(U) + Cardinality(B)
    BY <2>6, <2>7
  <2> QED
    BY <1>3, <2>2, <2>4, <2>6, <2>8 DEF U, V
<1> QED
  BY <1>2, <1>3

(* Closing one takes them away.                                            *)
LEMMA CloseUnits ==
    ASSUME NEW o, NEW o2, NEW t, NEW c \in Calls, NEW i \in Nat, NEW p, Opens(o2, o, c, i),
           t[c][i].quantity \in Nat, IsFiniteSet(UnitsOf(o, t, p))
    PROVE  /\ IsFiniteSet(UnitsOf(o2, t, p))
           /\ t[c][i].productId = p =>
                 Cardinality(UnitsOf(o, t, p)) = Cardinality(UnitsOf(o2, t, p)) + t[c][i].quantity
           /\ t[c][i].productId # p => UnitsOf(o2, t, p) = UnitsOf(o, t, p)
<1>1. \A d \in Calls : o2[d] \subseteq o[d]
  BY DEF Opens
<1>2. ASSUME NEW u, u \in UnitsOf(o2, t, p) PROVE u \in UnitsOf(o, t, p)
  <2>1. PICK d \in Calls : \E j \in o2[d] : t[d][j].productId = p /\ u \in Block(<<d, j>>, t)
    BY <1>2, InUnitsOf
  <2> QED
    BY <1>1, <2>1, InUnitsOf
<1>3. IsFiniteSet(UnitsOf(o2, t, p))
  BY <1>2, FS_Subset
<1> QED
  BY <1>3, OpenUnits

(* What Accounting says, of deleted rows too, and of sets that are finite. *)
Balanced(o, t, r) ==
    \A p \in Products : IsFiniteSet(UnitsOf(o, t, p)) /\ r[p] = Cardinality(UnitsOf(o, t, p))

Ledger == Balanced(open, items, reserved)

LEMMA LedgerInit == Init => Ledger
<1> SUFFICES ASSUME Init, NEW p \in Products
             PROVE  IsFiniteSet(UnitsOf(open, items, p))
                    /\ reserved[p] = Cardinality(UnitsOf(open, items, p))
  BY DEF Ledger, Balanced
<1>1. \A c \in Calls : open[c] = {}
  BY DEF Init
<1>2. UnitsOf(open, items, p) = {}
  BY <1>1, InUnitsOf
<1>3. reserved[p] = 0
  BY DEF Init
<1> QED
  BY <1>2, <1>3, FS_EmptySet

(* A call that holds nothing may take new items.                           *)
LEMMA LedgerBegin ==
    ASSUME TypeOK, Progress, Ledger, NEW c \in Calls, NEW m, NEW l, NEW r, Begin(c, m, l, r)
    PROVE  Ledger'
<1>1. UNCHANGED <<open, reserved>> /\ \A d \in Calls : d # c => items'[d] = items[d]
  BY DEF Begin, table, TypeOK
<1>2. open[c] = {}
  BY DEF Begin, Progress, Phases, OpenOwned
<1>3. \A p : UnitsOf(open, items', p) = UnitsOf(open, items, p)
  <2> TAKE p
  <2>1. ASSUME NEW u PROVE u \in UnitsOf(open, items', p) <=> u \in UnitsOf(open, items, p)
    <3>1. \A d \in Calls : \A j \in open[d] :
             items'[d] = items[d] /\ Block(<<d, j>>, items') = Block(<<d, j>>, items)
      BY <1>1, <1>2 DEF Block
    <3> QED
      BY <3>1, InUnitsOf
  <2> QED
    BY <2>1
<1> QED
  BY <1>1, <1>3 DEF Ledger, Balanced

LEMMA Reopens ==
    ASSUME TypeOK, NEW d \in Calls, NEW i \in open[d], open' = [open EXCEPT ![d] = @ \ {i}]
    PROVE  Opens(open', open, d, i)
<1>1. open \in [Calls -> SUBSET Nat]
  BY DEF TypeOK
<1>2. open' \in [Calls -> SUBSET Nat] /\ i \notin open'[d]
  BY <1>1
<1>3. open'[d] \union {i} = open[d]
  BY <1>1
<1>4. \A e \in Calls : open[e] = [open' EXCEPT ![d] = @ \union {i}][e]
  BY <1>1, <1>3
<1> QED
  BY <1>1, <1>2, <1>4 DEF Opens

(* r2 is r with the quantity of position i of call c added.                *)
Adds(r, r2, t, c, i) ==
    /\ r \in [Products -> Int] /\ t[c][i].quantity \in Nat
    /\ r2 = [r EXCEPT ![t[c][i].productId] = @ + t[c][i].quantity]

Subtracts(r, r2, t, c, i) ==
    /\ r \in [Products -> Int] /\ t[c][i].quantity \in Nat
    /\ r2 = [r EXCEPT ![t[c][i].productId] = @ - t[c][i].quantity]

(* The increment of a position that was not open.                          *)
LEMMA BalancedOpen ==
    ASSUME NEW o, NEW o2, NEW t, NEW r, NEW r2, NEW c \in Calls, NEW i \in Nat,
           Balanced(o, t, r), Opens(o, o2, c, i), Adds(r, r2, t, c, i)
    PROVE  Balanced(o2, t, r2)
<1> SUFFICES ASSUME NEW p \in Products
             PROVE  IsFiniteSet(UnitsOf(o2, t, p)) /\ r2[p] = Cardinality(UnitsOf(o2, t, p))
  BY DEF Balanced
<1>0. t[c][i].quantity \in Nat
  BY DEF Adds
<1>1. IsFiniteSet(UnitsOf(o, t, p)) /\ r[p] = Cardinality(UnitsOf(o, t, p))
  BY DEF Balanced
<1>2. /\ IsFiniteSet(UnitsOf(o2, t, p))
      /\ t[c][i].productId = p =>
            Cardinality(UnitsOf(o2, t, p)) = Cardinality(UnitsOf(o, t, p)) + t[c][i].quantity
      /\ t[c][i].productId # p => UnitsOf(o2, t, p) = UnitsOf(o, t, p)
  BY <1>1, <1>0, OpenUnits
<1>3. /\ r2[p] = IF t[c][i].productId = p THEN r[p] + t[c][i].quantity ELSE r[p]
      /\ t[c][i].quantity \in Nat
  BY DEF Adds
<1> QED
  BY <1>1, <1>2, <1>3

(* The decrement of a position that was.                                   *)
LEMMA BalancedClose ==
    ASSUME NEW o, NEW o2, NEW t, NEW r, NEW r2, NEW c \in Calls, NEW i \in Nat,
           Balanced(o, t, r), Opens(o2, o, c, i), Subtracts(r, r2, t, c, i)
    PROVE  Balanced(o2, t, r2)
<1> SUFFICES ASSUME NEW p \in Products
             PROVE  IsFiniteSet(UnitsOf(o2, t, p)) /\ r2[p] = Cardinality(UnitsOf(o2, t, p))
  BY DEF Balanced
<1>0. t[c][i].quantity \in Nat
  BY DEF Subtracts
<1>1. IsFiniteSet(UnitsOf(o, t, p)) /\ r[p] = Cardinality(UnitsOf(o, t, p))
  BY DEF Balanced
<1>2. /\ IsFiniteSet(UnitsOf(o2, t, p))
      /\ t[c][i].productId = p =>
            Cardinality(UnitsOf(o, t, p)) = Cardinality(UnitsOf(o2, t, p)) + t[c][i].quantity
      /\ t[c][i].productId # p => UnitsOf(o2, t, p) = UnitsOf(o, t, p)
  BY <1>1, <1>0, CloseUnits
<1>3. /\ r2[p] = IF t[c][i].productId = p THEN r[p] - t[c][i].quantity ELSE r[p]
      /\ t[c][i].quantity \in Nat
  BY DEF Subtracts
<1>4. Cardinality(UnitsOf(o2, t, p)) \in Nat
  BY <1>2, FS_CardinalityType
<1> QED
  BY <1>1, <1>2, <1>3, <1>4

LEMMA LedgerHandle ==
    ASSUME TypeOK, Progress, Ledger, NEW c \in Calls, Handle(c)
    PROVE  Ledger'
<1>1. CASE UNCHANGED <<reserved, open, items>>
  BY <1>1 DEF Ledger, Balanced
<1>2. CASE ReserveCheck(c) \/ Finish(c) \/ DbFails(c)
  BY <1>1, <1>2 DEF ReserveCheck, Finish, DbFails, Throw, Return, table, history
<1>3. ASSUME NEW d \in Calls, NEW i \in 1 .. Len(items[d])
      PROVE  i \in Nat /\ items[d][i].quantity \in Nat
  BY ItemTypes DEF QtyAt
<1>r. reserved \in [Products -> Int]
  BY DEF TypeOK
<1>4. CASE ReserveWrite(c)
  <2>1. idx[c] \in 1 .. Len(items[c]) /\ idx[c] \notin open[c]
    BY <1>4 DEF ReserveWrite, Progress, Checked, Growing, TypeOK
  <2>2. CASE ProductAt(c, idx[c]) \in rows
    <3>1. /\ open' = [open EXCEPT ![c] = @ \union {idx[c]}] /\ items' = items
          /\ reserved' = [reserved EXCEPT ![items[c][idx[c]].productId] = @ + items[c][idx[c]].quantity]
      BY <1>4, <2>2 DEF ReserveWrite, Throw, Return, table, history, ProductAt, QtyAt
    <3>2. Opens(open, open', c, idx[c])
      BY <2>1, <3>1 DEF Opens, TypeOK
    <3>3. Balanced(open', items, reserved')
      <4>1. Adds(reserved, reserved', items, c, idx[c]) /\ idx[c] \in Nat
        BY <1>3, <1>r, <2>1, <3>1 DEF Adds
      <4> QED
        BY <3>2, <4>1, BalancedOpen, Zenon DEF Ledger
    <3> QED
      BY <3>1, <3>3 DEF Ledger
  <2> QED
    BY <1>1, <1>4, <2>2 DEF ReserveWrite, Throw, Return, table, history
<1>5. CASE Rollback(c)
  <2>1. Undoing(c) \in 1 .. Len(items[c]) /\ Undoing(c) \in open[c]
    BY <1>5 DEF Rollback, Undoing, Progress, Shrinking, TypeOK
  <2>2. CASE ProductAt(c, Undoing(c)) \in rows
    <3>1. /\ open' = [open EXCEPT ![c] = @ \ {Undoing(c)}] /\ items' = items
          /\ reserved' = [reserved EXCEPT ![items[c][Undoing(c)].productId] =
                             @ - items[c][Undoing(c)].quantity]
      BY <1>5, <2>2 DEF Rollback, Throw, Return, table, history, ProductAt, QtyAt
    <3>2. Opens(open', open, c, Undoing(c))
      BY <2>1, <3>1, Reopens
    <3>3. Balanced(open', items, reserved')
      <4>1. Subtracts(reserved, reserved', items, c, Undoing(c)) /\ Undoing(c) \in Nat
        BY <1>3, <1>r, <2>1, <3>1 DEF Subtracts
      <4> QED
        BY <3>2, <4>1, BalancedClose, Zenon DEF Ledger
    <3> QED
      BY <3>1, <3>3 DEF Ledger
  <2> QED
    BY <1>1, <1>5, <2>2 DEF Rollback, Throw, Return, table, history
<1>6. CASE ReleaseStep(c) \/ ConfirmStep(c)
  <2>1. PICK taken : Apply(c, taken)
    BY <1>6 DEF ReleaseStep, ConfirmStep
  <2>2. target[c] \in Calls /\ items[target[c]] = items[c]
        /\ open[target[c]] = idx[c] .. Len(items[c])
    BY <2>1, <1>6 DEF Apply, Progress, Settling, Settlers, ReleaseStep, ConfirmStep, TypeOK
  <2>3. idx[c] \in 1 .. Len(items[c]) /\ idx[c] \in open[target[c]]
    BY <2>1, <2>2 DEF Apply, More, TypeOK
  <2>4. CASE ProductAt(c, idx[c]) \in rows
    <3>1. /\ open' = [open EXCEPT ![target[c]] = @ \ {idx[c]}] /\ items' = items
          /\ reserved' = [reserved EXCEPT ![items[target[c]][idx[c]].productId] =
                             @ - items[target[c]][idx[c]].quantity]
      BY <2>1, <2>2, <2>4 DEF Apply, Throw, Return, table, history, ProductAt, QtyAt
    <3>2. Opens(open', open, target[c], idx[c])
      BY <2>2, <2>3, <3>1, Reopens
    <3>3. Balanced(open', items, reserved')
      <4>1. Subtracts(reserved, reserved', items, target[c], idx[c]) /\ idx[c] \in Nat
        BY <1>3, <1>r, <2>2, <2>3, <3>1 DEF Subtracts
      <4> QED
        BY <2>2, <3>2, <4>1, BalancedClose, Zenon DEF Ledger
    <3> QED
      BY <3>1, <3>3 DEF Ledger
  <2> QED
    BY <1>1, <2>1, <2>4 DEF Apply, Throw, Return, table, history
<1> QED
  BY <1>2, <1>4, <1>5, <1>6 DEF Handle

(* A ledger that claims too much, perhaps: what Accounting is left with    *)
(* when a position can be entered twice.                                   *)
Covered(o, t, r) ==
    \A p \in Products : IsFiniteSet(UnitsOf(o, t, p)) /\ Cardinality(UnitsOf(o, t, p)) <= r[p]

LEMMA CoveredEnter ==
    ASSUME NEW o \in [Calls -> SUBSET Nat], NEW t, NEW r, NEW r2, NEW c \in Calls, NEW i \in Nat,
           Covered(o, t, r), Adds(r, r2, t, c, i)
    PROVE  Covered([o EXCEPT ![c] = @ \union {i}], t, r2)
<1> DEFINE o2 == [o EXCEPT ![c] = @ \union {i}]
<1> SUFFICES ASSUME NEW p \in Products
             PROVE  IsFiniteSet(UnitsOf(o2, t, p)) /\ Cardinality(UnitsOf(o2, t, p)) <= r2[p]
  BY DEF Covered
<1>1. IsFiniteSet(UnitsOf(o, t, p)) /\ Cardinality(UnitsOf(o, t, p)) <= r[p]
  BY DEF Covered
<1>2. Cardinality(UnitsOf(o, t, p)) \in Nat
  BY <1>1, FS_CardinalityType
<1>3. /\ r2[p] = IF t[c][i].productId = p THEN r[p] + t[c][i].quantity ELSE r[p]
      /\ t[c][i].quantity \in Nat /\ r[p] \in Int
  BY DEF Adds
<1>4. CASE i \in o[c]
  <2>1. o2 = o
    BY <1>4
  <2> HIDE DEF o2
  <2> QED
    BY <1>1, <1>2, <1>3, <2>1
<1>5. CASE i \notin o[c]
  <2>1. Opens(o, o2, c, i)
    BY <1>5 DEF Opens
  <2> HIDE DEF o2
  <2>2. /\ IsFiniteSet(UnitsOf(o2, t, p))
        /\ t[c][i].productId = p =>
              Cardinality(UnitsOf(o2, t, p)) = Cardinality(UnitsOf(o, t, p)) + t[c][i].quantity
        /\ t[c][i].productId # p => UnitsOf(o2, t, p) = UnitsOf(o, t, p)
    BY <1>1, <1>3, <2>1, OpenUnits
  <2> QED
    BY <1>1, <1>2, <1>3, <2>2
<1> QED
  BY <1>4, <1>5

LEMMA CoveredClose ==
    ASSUME NEW o, NEW o2, NEW t, NEW r, NEW r2, NEW c \in Calls, NEW i \in Nat,
           Covered(o, t, r), Opens(o2, o, c, i), Subtracts(r, r2, t, c, i)
    PROVE  Covered(o2, t, r2)
<1> SUFFICES ASSUME NEW p \in Products
             PROVE  IsFiniteSet(UnitsOf(o2, t, p)) /\ Cardinality(UnitsOf(o2, t, p)) <= r2[p]
  BY DEF Covered
<1>0. t[c][i].quantity \in Nat
  BY DEF Subtracts
<1>1. IsFiniteSet(UnitsOf(o, t, p)) /\ Cardinality(UnitsOf(o, t, p)) <= r[p]
  BY DEF Covered
<1>2. /\ IsFiniteSet(UnitsOf(o2, t, p))
      /\ t[c][i].productId = p =>
            Cardinality(UnitsOf(o, t, p)) = Cardinality(UnitsOf(o2, t, p)) + t[c][i].quantity
      /\ t[c][i].productId # p => UnitsOf(o2, t, p) = UnitsOf(o, t, p)
  BY <1>1, <1>0, CloseUnits
<1>3. /\ r2[p] = IF t[c][i].productId = p THEN r[p] - t[c][i].quantity ELSE r[p]
      /\ t[c][i].quantity \in Nat /\ r[p] \in Int
  BY DEF Subtracts
<1>4. Cardinality(UnitsOf(o2, t, p)) \in Nat
  BY <1>2, FS_CardinalityType
<1> QED
  BY <1>1, <1>2, <1>3, <1>4

(* A call that holds nothing may take new items, the others keep theirs.   *)
LEMMA SameUnits ==
    ASSUME NEW o, NEW t, NEW t2, \A d \in Calls : o[d] # {} => t2[d] = t[d]
    PROVE  \A p : UnitsOf(o, t2, p) = UnitsOf(o, t, p)
<1> SUFFICES ASSUME NEW p, NEW u PROVE u \in UnitsOf(o, t2, p) <=> u \in UnitsOf(o, t, p)
  OBVIOUS
<1>1. \A d \in Calls : \A j \in o[d] : t2[d] = t[d] /\ Block(<<d, j>>, t2) = Block(<<d, j>>, t)
  BY DEF Block
<1>2. \A s : u \in UnitsOf(o, s, p) <=>
         \E d \in Calls : \E j \in o[d] : s[d][j].productId = p /\ u \in Block(<<d, j>>, s)
  BY InUnitsOf
<1> QED
  BY <1>1, <1>2, Zenon

(* What a step of a handler does to the counters and to the ledger, under  *)
(* no assumption on what came before.                                      *)
LEMMA TableEffect ==
    ASSUME TypeOK, NEW c \in Calls, InRange(c), Handle(c)
    PROVE  \/ UNCHANGED <<open, reserved>>
           \/ /\ pc[c] = "write" /\ idx[c] \in Nat /\ open' = [open EXCEPT ![c] = @ \union {idx[c]}]
              /\ Adds(reserved, reserved', items, c, idx[c])
           \/ /\ pc[c] = "rollback" /\ Undoing(c) < idx[c] /\ Undoing(c) \in Nat
              /\ open' = [open EXCEPT ![c] = @ \ {Undoing(c)}]
              /\ Subtracts(reserved, reserved', items, c, Undoing(c))
           \/ /\ pc[c] = "apply" /\ More(c) /\ idx[c] \in Nat
              /\ open' = [open EXCEPT ![target[c]] = @ \ {idx[c]}]
              /\ Subtracts(reserved, reserved', items, c, idx[c])
<1>1. CASE ReserveCheck(c) \/ Finish(c) \/ DbFails(c)
  BY <1>1 DEF ReserveCheck, Finish, DbFails, Throw, Return, table, history
<1>2. ASSUME NEW i \in 1 .. Len(items[c]) PROVE  i \in Nat /\ items[c][i].quantity \in Nat
  BY ItemTypes DEF QtyAt
<1>3. reserved \in [Products -> Int]
  BY DEF TypeOK
<1>4. CASE ReserveWrite(c)
  <2>1. idx[c] \in 1 .. Len(items[c])
    BY <1>4 DEF ReserveWrite, InRange, TypeOK
  <2> QED
    BY <1>2, <1>3, <1>4, <2>1
       DEF ReserveWrite, Throw, Return, table, history, Adds, ProductAt, QtyAt
<1>5. CASE Rollback(c)
  <2>1. Undoing(c) \in 1 .. Len(items[c])
    BY <1>5 DEF Rollback, Undoing, InRange, TypeOK
  <2> QED
    BY <1>2, <1>3, <1>5, <2>1
       DEF Rollback, Throw, Return, table, history, Subtracts, ProductAt, QtyAt
<1>6. CASE ReleaseStep(c) \/ ConfirmStep(c)
  <2>1. PICK taken : Apply(c, taken)
    BY <1>6 DEF ReleaseStep, ConfirmStep
  <2>2. idx[c] \in 1 .. Len(items[c])
    BY <2>1 DEF Apply, More, TypeOK
  <2> QED
    BY <1>2, <1>3, <2>1, <2>2
       DEF Apply, Throw, Return, table, history, Subtracts, ProductAt, QtyAt
<1> QED
  BY <1>1, <1>4, <1>5, <1>6 DEF Handle

LEMMA LedgerNext == TypeOK /\ Progress /\ Ledger /\ [Next]_vars => Ledger'
<1> SUFFICES ASSUME TypeOK, Progress, Ledger, [Next]_vars PROVE Ledger'
  OBVIOUS
<1>1. CASE UNCHANGED <<reserved, open, items>>
  BY <1>1 DEF Ledger, Balanced
<1>2. ASSUME NEW c \in Calls, BeginReserve(c) \/ BeginRelease(c) \/ BeginConfirm(c)
      PROVE  Ledger'
  BY <1>2, LedgerBegin DEF BeginReserve, BeginRelease, BeginConfirm
<1>3. ASSUME NEW c \in Calls, Handle(c) PROVE Ledger'
  BY <1>3, LedgerHandle
<1>4. ASSUME NEW p \in Products, PutQuantity(p) \/ DeleteProduct(p) PROVE Ledger'
  BY <1>1, <1>4 DEF PutQuantity, DeleteProduct, locals, history
<1>5. CASE UNCHANGED vars
  BY <1>1, <1>5 DEF vars, table, locals, history
<1> QED
  BY <1>2, <1>3, <1>4, <1>5 DEF Next, AllDone

LEMMA LedgerAccounts == TypeOK /\ Ledger => Accounting
  BY UnitsIsUnitsOf DEF TypeOK, Ledger, Balanced, Accounting

(* reservedQuantity is the sum of what unsettled reservations hold: no     *)
(* increment of a concurrent handler is lost and no decrement is doubled,  *)
(* as long as a reservation is released or confirmed once, with its items. *)
THEOREM AccountsBalance == Spec => []Accounting
<1>1. Init => Ledger
  BY LedgerInit
<1>2. TypeOK /\ Progress /\ Ledger /\ [Next]_vars => Ledger'
  BY LedgerNext
<1>3. TypeOK /\ Ledger => Accounting
  BY LedgerAccounts
<1> QED
  BY <1>1, <1>2, <1>3, Invariance, PTL DEF Spec

-----------------------------------------------------------------------------
(* Overselling.                                                            *)

(* What OversellOnlyWhenStale says of a step.                              *)
Stale ==
    \A p \in rows \intersect rows' :
        Available(p) >= 0 /\ Available(p)' < 0 =>
            \/ \E c \in Calls : ActsOnStaleRead(c, p)
            \/ quantity'[p] < quantity[p] /\ reserved' = reserved

(* A decrement that takes no more from quantity than from reserved leaves  *)
(* at least as much available.                                             *)
LEMMA TakesBack ==
    ASSUME NEW q \in [Products -> Int], NEW r \in [Products -> Int], NEW p0 \in Products,
           NEW n \in Nat, NEW taken \in {0, n}, NEW p \in Products
    PROVE  q[p] - r[p] <= [q EXCEPT ![p0] = @ - taken][p] - [r EXCEPT ![p0] = @ - n][p]
  OBVIOUS

(* No handler other than an increment takes from what is available.        *)
LEMMA NeverLoses ==
    ASSUME TypeOK, Progress, NEW c \in Calls, Handle(c),
           ~(ReserveWrite(c) /\ ProductAt(c, idx[c]) \in rows), NEW p \in Products
    PROVE  quantity[p] - reserved[p] <= quantity'[p] - reserved'[p]
<1>1. quantity \in [Products -> Int] /\ reserved \in [Products -> Int]
  BY DEF TypeOK
<1>2. CASE UNCHANGED <<quantity, reserved>>
  BY <1>1, <1>2
<1>3. CASE ReserveCheck(c) \/ ReserveWrite(c) \/ Finish(c) \/ DbFails(c)
  BY <1>2, <1>3 DEF ReserveCheck, ReserveWrite, Finish, DbFails, Throw, table
<1>4. CASE Rollback(c)
  <2>1. Undoing(c) \in 1 .. Len(items[c])
    BY <1>4 DEF Rollback, Undoing, Progress, Shrinking, TypeOK
  <2>2. PICK p0 \in Products : p0 = ProductAt(c, Undoing(c))
    BY <2>1, ItemTypes
  <2>3. PICK n \in Nat : n = QtyAt(c, Undoing(c))
    BY <2>1, ItemTypes
  <2>4. CASE p0 \in rows
    <3>1. quantity' = quantity /\ reserved' = [reserved EXCEPT ![p0] = @ - n]
      BY <1>4, <2>2, <2>3, <2>4 DEF Rollback, Throw
    <3> QED
      BY <1>1, <3>1
  <2> QED
    BY <1>2, <1>4, <2>2, <2>4 DEF Rollback, Throw, table
<1>5. CASE ReleaseStep(c) \/ ConfirmStep(c)
  <2>1. PICK taken \in {0, QtyAt(c, idx[c])} : Apply(c, taken)
    BY <1>5 DEF ReleaseStep, ConfirmStep
  <2>2. idx[c] \in 1 .. Len(items[c])
    BY <2>1 DEF Apply, More, TypeOK
  <2>3. PICK p0 \in Products : p0 = ProductAt(c, idx[c])
    BY <2>2, ItemTypes
  <2>4. PICK n \in Nat : n = QtyAt(c, idx[c])
    BY <2>2, ItemTypes
  <2>5. CASE p0 \in rows
    <3>1. /\ quantity' = [quantity EXCEPT ![p0] = @ - taken]
          /\ reserved' = [reserved EXCEPT ![p0] = @ - n]
      BY <2>1, <2>3, <2>4, <2>5 DEF Apply, Throw
    <3> QED
      BY <1>1, <2>1, <2>4, <3>1, TakesBack
  <2> QED
    BY <1>2, <2>1, <2>3, <2>5 DEF Apply, Throw, table
<1> QED
  BY <1>3, <1>4, <1>5 DEF Handle

LEMMA StaleWrite ==
    ASSUME TypeOK, Checked, NEW c \in Calls, ReserveWrite(c),
           NEW p \in rows, Available(p) >= 0, Available(p)' < 0
    PROVE  ActsOnStaleRead(c, p)
<1> DEFINE p0 == ProductAt(c, idx[c])
           n  == QtyAt(c, idx[c])
<1>1. p0 \in Products /\ n \in Nat
  BY ItemTypes DEF Checked, ReserveWrite, TypeOK
<1>2. quantity[p] \in Int /\ reserved[p] \in Int /\ seen[c] \in Int /\ n <= seen[c] /\ pc[c] = "write"
  BY DEF TypeOK, Checked, ReserveWrite
<1>3. quantity' = quantity /\ reserved' # reserved
  BY <1>2 DEF ReserveWrite, Throw, Return, table, Available
<1>4. reserved' = [reserved EXCEPT ![p0] = @ + n] /\ pc' = [pc EXCEPT ![c] = "check"]
  BY <1>3 DEF ReserveWrite, Throw, table
<1> HIDE DEF p0, n
<1>5. p = p0 /\ reserved'[p] = reserved[p] + n
  BY <1>1, <1>2, <1>3, <1>4 DEF Available, TypeOK
<1>6. seen[c] # Available(p)
  BY <1>1, <1>2, <1>3, <1>5 DEF Available
<1>7. pc'[c] = "check"
  BY <1>4 DEF TypeOK
<1> QED
  BY <1>2, <1>5, <1>6, <1>7 DEF ActsOnStaleRead, p0

LEMMA StaleNext == TypeOK /\ Progress /\ [Next]_vars => Stale
<1> SUFFICES ASSUME TypeOK, Progress, [Next]_vars,
                    NEW p \in rows \intersect rows', Available(p) >= 0, Available(p)' < 0
             PROVE  \/ \E c \in Calls : ActsOnStaleRead(c, p)
                    \/ quantity'[p] < quantity[p] /\ reserved' = reserved
  BY DEF Stale
<1> DEFINE Goal == \/ \E c \in Calls : ActsOnStaleRead(c, p)
                   \/ quantity'[p] < quantity[p] /\ reserved' = reserved
<1>0. p \in Products /\ quantity \in [Products -> Int] /\ reserved \in [Products -> Int]
  BY DEF TypeOK
<1>1. CASE UNCHANGED <<quantity, reserved>>
  BY <1>0, <1>1 DEF Available
<1>2. ASSUME NEW c \in Calls, BeginReserve(c) \/ BeginRelease(c) \/ BeginConfirm(c) PROVE Goal
  BY <1>1, <1>2 DEF BeginReserve, BeginRelease, BeginConfirm, Begin, table
<1>3. ASSUME NEW c \in Calls, Handle(c) PROVE Goal
  <2>1. CASE ReserveWrite(c)
    BY <2>1, StaleWrite DEF Progress
  <2>2. CASE ~ReserveWrite(c)
    <3>1. quantity[p] - reserved[p] <= quantity'[p] - reserved'[p]
      BY <1>0, <1>3, <2>2, NeverLoses
    <3>2. quantity'[p] \in Int /\ reserved'[p] \in Int
      BY <1>0, <1>3, TypeNext DEF TypeOK, Next
    <3> QED
      BY <1>0, <3>1, <3>2 DEF Available
  <2> QED
    BY <2>1, <2>2
<1>4. ASSUME NEW p1 \in Products, PutQuantity(p1) PROVE Goal
  <2>1. reserved' = reserved
    BY <1>4 DEF PutQuantity
  <2>2. PICK q \in Updates : quantity' = [quantity EXCEPT ![p1] = q]
    BY <1>4 DEF PutQuantity
  <2>3. quantity'[p] \in Int
    BY <1>0, <2>2, InventoryAssumption
  <2> QED
    BY <1>0, <2>1, <2>3 DEF Available
<1>5. ASSUME NEW p1 \in Products, DeleteProduct(p1) PROVE Goal
  BY <1>1, <1>5 DEF DeleteProduct
<1>6. CASE UNCHANGED vars
  BY <1>1, <1>6 DEF vars, table
<1> QED
  BY <1>2, <1>3, <1>4, <1>5, <1>6 DEF Next, AllDone

(* A reservation takes a product below its reserved stock only when the    *)
(* availability it compared with is no longer the row's as it writes, for  *)
(* any number of handlers; the one other way is a PUT.                     *)
THEOREM OversellNeedsStaleness == Spec => OversellOnlyWhenStale
<1>1. TypeOK /\ Progress /\ [Next]_vars => [Stale]_vars
  BY StaleNext
<1> QED
  BY <1>1, Invariance, PTL DEF Spec, OversellOnlyWhenStale, Stale
-----------------------------------------------------------------------------
(* How far.  A handler that has checked and not yet written claims what it *)
(* is about to add, and a claim was covered when it was checked.           *)

Claims(c, p) == pc[c] = "write" /\ ProductAt(c, idx[c]) = p
Claimed(p)   == UNION {{c} \X (1 .. QtyAt(c, idx[c])) : c \in {d \in Calls : Claims(d, p)}}
InFlight     == {d \in Calls : Running(d)}

(* No line of a list asks for more than n.                                 *)
Limits(n) == \A list \in ItemLists : \A i \in DOMAIN list : list[i].quantity <= n

Asked == \A c \in Calls : op[c] = "reserve" => items[c] \in ItemLists

(* What is overdrawn already and what the claims may yet overdraw.         *)
Overdrawn(n) ==
    \A p \in Products :
        reserved[p] - quantity[p] + Cardinality(Claimed(p)) <= (MaxConcurrent - 1) * n

Restrained ==
    /\ Cardinality(InFlight) <= MaxConcurrent
    /\ Asked
    /\ \A n \in Nat : Limits(n) => Overdrawn(n)

LEMMA InClaimed ==
    ASSUME NEW p, NEW u
    PROVE  u \in Claimed(p) <=>
             \E c \in Calls : Claims(c, p) /\ \E k \in 1 .. QtyAt(c, idx[c]) : u = <<c, k>>
  BY DEF Claimed

LEMMA Scale ==
    ASSUME NEW a \in Nat, NEW b \in Nat, NEW n \in Nat, a <= b
    PROVE  a * n \in Nat /\ a * n <= b * n
<1>1. PICK d \in Nat : b = a + d
  BY b - a \in Nat, b = a + (b - a)
<1>2. (a + d) * n = a * n + d * n /\ a * n \in Nat /\ d * n \in Nat
  OBVIOUS
<1> QED
  BY <1>1, <1>2

(* The claims of a set of handlers are at most n apiece.                   *)
LEMMA ClaimsOf ==
    ASSUME TypeOK, Progress, Asked, NEW n \in Nat, Limits(n), NEW p \in Products,
           NEW S \in SUBSET Calls, \A c \in Calls : Claims(c, p) => c \in S
    PROVE  /\ IsFiniteSet(Claimed(p)) /\ Cardinality(Claimed(p)) \in Nat
           /\ IsFiniteSet(S) /\ Cardinality(S) \in Nat
           /\ Cardinality(Claimed(p)) <= Cardinality(S) * n
<1>1. IsFiniteSet(S) /\ Cardinality(S) \in Nat
  BY InventoryAssumption, FS_Subset, FS_CardinalityType
<1>2. IsFiniteSet(1 .. n) /\ Cardinality(1 .. n) = n
  BY IntervalSize
<1>3. IsFiniteSet(S \X (1 .. n)) /\ Cardinality(S \X (1 .. n)) = Cardinality(S) * n
  BY <1>1, <1>2, FS_Product
<1>4. ASSUME NEW c \in Calls, Claims(c, p) PROVE QtyAt(c, idx[c]) \in Nat /\ QtyAt(c, idx[c]) <= n
  <2>1. op[c] = "reserve" /\ idx[c] \in 1 .. Len(items[c])
    BY <1>4 DEF Claims, Progress, Phases, Checked, TypeOK
  <2>2. items[c] \in ItemLists /\ idx[c] \in DOMAIN items[c]
    BY <2>1 DEF Asked, TypeOK
  <2> QED
    BY <2>1, <2>2, ItemTypes DEF Limits, QtyAt
<1>5. ASSUME NEW u \in Claimed(p) PROVE u \in S \X (1 .. n)
  <2>1. PICK c \in Calls : Claims(c, p) /\ \E k \in 1 .. QtyAt(c, idx[c]) : u = <<c, k>>
    BY <1>5, InClaimed
  <2>2. PICK k \in 1 .. QtyAt(c, idx[c]) : u = <<c, k>>
    BY <2>1
  <2>3. k \in 1 .. n /\ c \in S
    BY <1>4, <2>1, <2>2
  <2> QED
    BY <2>2, <2>3
<1>6. Claimed(p) \subseteq S \X (1 .. n)
  BY <1>5
<1> QED
  BY <1>1, <1>3, <1>6, FS_Subset, FS_CardinalityType

(* A step in which no handler comes to claim, and no row loses.            *)
LEMMA NoNewClaim ==
    ASSUME TypeOK, Progress, Asked, NEW n \in Nat, Limits(n), Overdrawn(n),
           reserved' \in [Products -> Int], quantity' \in [Products -> Int],
           \A p \in Products : quantity[p] - reserved[p] <= quantity'[p] - reserved'[p],
           \A c \in Calls : \A p : Claims(c, p)' =>
              Claims(c, p) /\ QtyAt(c, idx[c])' = QtyAt(c, idx[c])
    PROVE  Overdrawn(n)'
<1> SUFFICES ASSUME NEW p \in Products
             PROVE  reserved'[p] - quantity'[p] + Cardinality(Claimed(p)') <= (MaxConcurrent - 1) * n
  BY DEF Overdrawn
<1>1. IsFiniteSet(Claimed(p)) /\ Cardinality(Claimed(p)) \in Nat
  BY ClaimsOf
<1>2. ASSUME NEW u \in Claimed(p)' PROVE u \in Claimed(p)
  <2>1. PICK c \in Calls : Claims(c, p)' /\ \E k \in 1 .. QtyAt(c, idx[c])' : u = <<c, k>>
    BY <1>2 DEF Claimed
  <2> QED
    BY <2>1, InClaimed
<1>3. Claimed(p)' \subseteq Claimed(p)
  BY <1>2
<1>4. Cardinality(Claimed(p)') <= Cardinality(Claimed(p)) /\ Cardinality(Claimed(p)') \in Nat
  BY <1>1, <1>3, FS_Subset, FS_CardinalityType
<1>5. reserved[p] - quantity[p] + Cardinality(Claimed(p)) <= (MaxConcurrent - 1) * n
  BY DEF Overdrawn
<1>6. reserved[p] \in Int /\ quantity[p] \in Int /\ reserved'[p] \in Int /\ quantity'[p] \in Int
      /\ (MaxConcurrent - 1) * n \in Int /\ quantity[p] - reserved[p] <= quantity'[p] - reserved'[p]
  BY InventoryAssumption DEF TypeOK
<1> QED
  BY <1>1, <1>4, <1>5, <1>6

(* A check that finds enough adds a claim that is covered: what the others *)
(* claim is all that can be overdrawn.                                     *)
LEMMA NewClaim ==
    ASSUME TypeOK, Progress, Restrained, NEW n \in Nat, Limits(n), Overdrawn(n),
           NEW c \in Calls, ReserveCheck(c), pc' = [pc EXCEPT ![c] = "write"],
           Available(ProductAt(c, idx[c])) >= QtyAt(c, idx[c])
    PROVE  Overdrawn(n)'
<1>1. idx[c] \in 1 .. Len(items[c]) /\ pc[c] = "check" /\ UNCHANGED <<table, items, idx>>
  BY DEF ReserveCheck, More, TypeOK
<1>p. PICK p0 \in Products : p0 = ProductAt(c, idx[c])
  BY <1>1, ItemTypes
<1>q. PICK q0 \in Nat : q0 = QtyAt(c, idx[c])
  BY <1>1, ItemTypes
<1>3. quantity[p0] \in Int /\ reserved[p0] \in Int /\ q0 <= quantity[p0] - reserved[p0]
  BY <1>p, <1>q DEF TypeOK, Available
<1>4. \A d \in Calls : \A p : Claims(d, p)' <=> Claims(d, p) \/ (d = c /\ p = p0)
  BY <1>1, <1>p DEF Claims, ProductAt, TypeOK
<1>5. ~Claims(c, p0)
  BY <1>1, <1>p DEF Claims
<1>6. \A d \in Calls : QtyAt(d, idx[d])' = QtyAt(d, idx[d])
  BY <1>1 DEF QtyAt
<1> SUFFICES ASSUME NEW p \in Products
             PROVE  reserved'[p] - quantity'[p] + Cardinality(Claimed(p)') <= (MaxConcurrent - 1) * n
  BY DEF Overdrawn
<1>7. reserved' = reserved /\ quantity' = quantity /\ reserved[p] \in Int /\ quantity[p] \in Int
  BY <1>1 DEF table, TypeOK
<1>8. CASE p # p0
  <2>1. ASSUME NEW u PROVE u \in Claimed(p)' <=> u \in Claimed(p)
    BY <1>4, <1>6, <1>8, InClaimed DEF Claimed
  <2>2. Claimed(p)' = Claimed(p)
    BY <2>1
  <2> QED
    BY <1>7, <2>2 DEF Overdrawn
<1>9. CASE p = p0
  <2> DEFINE S == InFlight \ {c}
             C == Claimed(p0)
             B == {c} \X (1 .. q0)
  <2>1. \A d \in Calls : Claims(d, p0) => d \in S
    BY <1>5 DEF Claims, InFlight, Running
  <2>2. S \in SUBSET Calls
    BY DEF InFlight
  <2>3. IsFiniteSet(C) /\ Cardinality(C) \in Nat /\ Cardinality(C) <= Cardinality(S) * n
        /\ IsFiniteSet(S) /\ Cardinality(S) \in Nat
    BY <1>9, <2>1, <2>2, ClaimsOf DEF Restrained
  <2>4. Cardinality(S) <= MaxConcurrent - 1
    <3>1. c \in InFlight /\ IsFiniteSet(InFlight)
      BY <1>1, InventoryAssumption, FS_Subset DEF InFlight, Running
    <3>2. Cardinality(S) = Cardinality(InFlight) - 1 /\ Cardinality(InFlight) \in Nat
      BY <3>1, FS_RemoveElement, FS_CardinalityType
    <3> QED
      BY <3>2, InventoryAssumption DEF Restrained
  <2>5. Cardinality(S) * n <= (MaxConcurrent - 1) * n /\ Cardinality(S) * n \in Nat
        /\ (MaxConcurrent - 1) * n \in Nat
    <3>1. MaxConcurrent - 1 \in Nat
      BY InventoryAssumption
    <3>2. \A m \in Nat : m = MaxConcurrent - 1 => Cardinality(S) * n <= m * n /\ Cardinality(S) * n \in Nat /\ m * n \in Nat
      BY <2>3, <2>4, Scale
    <3> QED
      BY <3>1, <3>2
  <2>6. IsFiniteSet(B) /\ Cardinality(B) = q0
    <3>1. IsFiniteSet(1 .. q0) /\ Cardinality(1 .. q0) = q0
      BY IntervalSize
    <3>2. IsFiniteSet({c}) /\ Cardinality({c}) = 1
      BY FS_Singleton
    <3>3. IsFiniteSet(B) /\ Cardinality(B) = 1 * q0
      BY <3>1, <3>2, FS_Product
    <3> QED
      BY <3>3
  <2>7. Claimed(p0)' = C \union B
    <3>1. ASSUME NEW u PROVE u \in Claimed(p0)' <=> u \in C \/ \E k \in 1 .. q0 : u = <<c, k>>
      <4>1. u \in Claimed(p0)' <=>
              \E d \in Calls : Claims(d, p0)' /\ \E k \in 1 .. QtyAt(d, idx[d])' : u = <<d, k>>
        BY <1>9 DEF Claimed
      <4> QED
        BY <1>4, <1>6, <1>q, <4>1, InClaimed
    <3> QED
      BY <3>1
  <2> HIDE DEF C, B, S
  <2>8. C \intersect B \subseteq C
    OBVIOUS
  <2>9. Cardinality(C \union B) = Cardinality(C) + Cardinality(B) - Cardinality(C \intersect B)
        /\ Cardinality(C \intersect B) \in Nat
    BY <2>3, <2>6, <2>8, FS_Union, FS_Subset, FS_CardinalityType
  <2>10. Cardinality(Claimed(p0)') <= Cardinality(C) + q0 /\ Cardinality(Claimed(p0)') \in Int
    BY <2>3, <2>6, <2>7, <2>9
  <2> QED
    BY <1>3, <1>7, <1>9, <2>3, <2>5, <2>10
<1> QED
  BY <1>8, <1>9

(* The increment turns a claim into a reservation.                         *)
LEMMA ClaimWritten ==
    ASSUME TypeOK, Progress, Asked, NEW n \in Nat, Limits(n), Overdrawn(n),
           NEW c \in Calls, ReserveWrite(c), ProductAt(c, idx[c]) \in rows
    PROVE  Overdrawn(n)'
<1>1. idx[c] \in 1 .. Len(items[c]) /\ pc[c] = "write"
  BY DEF ReserveWrite, Progress, Checked, TypeOK
<1>p. PICK p0 \in Products : p0 = ProductAt(c, idx[c])
  BY <1>1, ItemTypes
<1>q. PICK q0 \in Nat : q0 = QtyAt(c, idx[c])
  BY <1>1, ItemTypes
<1>3. /\ reserved' = [reserved EXCEPT ![p0] = @ + q0] /\ quantity' = quantity
      /\ pc' = [pc EXCEPT ![c] = "check"] /\ idx' = [idx EXCEPT ![c] = idx[c] + 1] /\ items' = items
  BY <1>p, <1>q DEF ReserveWrite, Throw
<1>4. \A d \in Calls : \A p : Claims(d, p)' <=> Claims(d, p) /\ d # c
  BY <1>3 DEF Claims, ProductAt, TypeOK
<1>5. \A d \in Calls : d # c => QtyAt(d, idx[d])' = QtyAt(d, idx[d])
  BY <1>3 DEF QtyAt, TypeOK
<1>6. \A p : Claims(c, p) <=> p = p0
  BY <1>1, <1>p DEF Claims
<1> SUFFICES ASSUME NEW p \in Products
             PROVE  reserved'[p] - quantity'[p] + Cardinality(Claimed(p)') <= (MaxConcurrent - 1) * n
  BY DEF Overdrawn
<1>7. reserved[p] \in Int /\ quantity[p] \in Int
      /\ reserved'[p] = IF p = p0 THEN reserved[p] + q0 ELSE reserved[p]
  BY <1>3 DEF TypeOK
<1>8. CASE p # p0
  <2>1. ASSUME NEW u PROVE u \in Claimed(p)' <=> u \in Claimed(p)
    BY <1>4, <1>5, <1>6, <1>8, InClaimed DEF Claimed
  <2>2. Claimed(p)' = Claimed(p)
    BY <2>1
  <2> QED
    BY <1>3, <1>7, <1>8, <2>2 DEF Overdrawn
<1>9. CASE p = p0
  <2> DEFINE D == Claimed(p0)'
             B == {c} \X (1 .. q0)
  <2>1. IsFiniteSet(Claimed(p0)) /\ Cardinality(Claimed(p0)) \in Nat
    BY ClaimsOf
  <2>2. Claimed(p0) = D \union B
    <3>1. ASSUME NEW u PROVE u \in Claimed(p0) <=> u \in D \/ \E k \in 1 .. q0 : u = <<c, k>>
      <4>1. u \in Claimed(p0)' <=>
              \E d \in Calls : Claims(d, p0)' /\ \E k \in 1 .. QtyAt(d, idx[d])' : u = <<d, k>>
        BY DEF Claimed
      <4> QED
        BY <1>4, <1>5, <1>6, <1>q, <4>1, InClaimed
    <3> QED
      BY <3>1
  <2>3. D \intersect B = {}
    <3>1. ASSUME NEW u, u \in D, u \in B PROVE FALSE
      <4>1. PICK d \in Calls : Claims(d, p0)' /\ \E k \in 1 .. QtyAt(d, idx[d])' : u = <<d, k>>
        BY <3>1 DEF Claimed
      <4>2. u[1] = d /\ u[1] = c
        BY <3>1, <4>1
      <4> QED
        BY <1>4, <4>1, <4>2
    <3> QED
      BY <3>1
  <2>4. IsFiniteSet(B) /\ Cardinality(B) = q0
    <3>1. IsFiniteSet(1 .. q0) /\ Cardinality(1 .. q0) = q0
      BY IntervalSize
    <3>2. IsFiniteSet({c}) /\ Cardinality({c}) = 1
      BY FS_Singleton
    <3>3. IsFiniteSet(B) /\ Cardinality(B) = 1 * q0
      BY <3>1, <3>2, FS_Product
    <3> QED
      BY <3>3
  <2> HIDE DEF D, B
  <2>5. D \subseteq Claimed(p0)
    BY <2>2
  <2>6. IsFiniteSet(D) /\ Cardinality(D) \in Nat
    BY <2>1, <2>5, FS_Subset, FS_CardinalityType
  <2>7. Cardinality(Claimed(p0)) = Cardinality(D) + q0
    <3>1. Cardinality(D \union B) = Cardinality(D) + Cardinality(B) - Cardinality(D \intersect B)
      BY <2>4, <2>6, FS_Union
    <3>2. Cardinality(D \intersect B) = 0
      BY <2>3, FS_EmptySet
    <3> QED
      BY <2>2, <2>4, <2>6, <3>1, <3>2
  <2>8. reserved[p] - quantity[p] + Cardinality(Claimed(p)) <= (MaxConcurrent - 1) * n
    BY DEF Overdrawn
  <2>9. Cardinality(Claimed(p)') = Cardinality(D)
    BY <1>9 DEF D
  <2> QED
    BY <1>3, <1>7, <1>9, <2>6, <2>7, <2>8, <2>9
<1> QED
  BY <1>8, <1>9

LEMMA RestrainedInit == Init => Restrained
<1> SUFFICES ASSUME Init PROVE Restrained
  OBVIOUS
<1>1. InFlight = {} /\ Asked
  BY DEF Init, InFlight, Running, Asked
<1>2. Cardinality(InFlight) <= MaxConcurrent
  BY <1>1, FS_EmptySet, InventoryAssumption
<1>3. ASSUME NEW n \in Nat, NEW p \in Products
      PROVE  reserved[p] - quantity[p] + Cardinality(Claimed(p)) <= (MaxConcurrent - 1) * n
  <2>1. \A u : u \notin Claimed(p)
    BY InClaimed DEF Init, Claims
  <2>2. Cardinality(Claimed(p)) = 0
    BY <2>1, FS_EmptySet
  <2>3. reserved[p] = 0 /\ quantity[p] \in Nat
    BY InventoryAssumption DEF Init
  <2>4. 0 <= (MaxConcurrent - 1) * n /\ (MaxConcurrent - 1) * n \in Int
    <3>1. MaxConcurrent - 1 \in Nat
      BY InventoryAssumption
    <3>2. \A m \in Nat : m = MaxConcurrent - 1 => m * n \in Nat
      BY Scale
    <3> QED
      BY <3>1, <3>2
  <2> QED
    BY <2>2, <2>3, <2>4
<1> QED
  BY <1>1, <1>2, <1>3 DEF Restrained, Overdrawn

(* The handlers in flight: one more when a call begins, never otherwise.   *)
LEMMA FlightBegin ==
    ASSUME TypeOK, Cardinality(InFlight) <= MaxConcurrent,
           NEW c \in Calls, NEW m, NEW l, NEW r, Begin(c, m, l, r)
    PROVE  Cardinality(InFlight') <= MaxConcurrent
<1>1. IsFiniteSet(InFlight) /\ Cardinality(InFlight) \in Nat
  BY InventoryAssumption, FS_Subset, FS_CardinalityType DEF InFlight
<1>2. InFlight' = InFlight \union {c} /\ c \notin InFlight
  BY DEF Begin, InFlight, Running, TypeOK
<1>3. Cardinality(InFlight') = Cardinality(InFlight) + 1
  BY <1>1, <1>2, FS_AddElement
<1>4. Cardinality(InFlight) < MaxConcurrent
  BY DEF Begin, InFlight
<1> QED
  BY <1>1, <1>3, <1>4, InventoryAssumption

LEMMA FlightKeeps ==
    ASSUME TypeOK, Cardinality(InFlight) <= MaxConcurrent, \A c \in Calls : Running(c)' => Running(c)
    PROVE  Cardinality(InFlight') <= MaxConcurrent
<1>1. IsFiniteSet(InFlight) /\ Cardinality(InFlight) \in Nat
  BY InventoryAssumption, FS_Subset, FS_CardinalityType DEF InFlight
<1>2. InFlight' \subseteq InFlight
  BY DEF InFlight
<1>3. Cardinality(InFlight') <= Cardinality(InFlight) /\ Cardinality(InFlight') \in Nat
  BY <1>1, <1>2, FS_Subset, FS_CardinalityType
<1> QED
  BY <1>1, <1>3, InventoryAssumption

LEMMA RestrainedBegin ==
    ASSUME TypeOK, TypeOK', Progress, Restrained, NEW c \in Calls, NEW m \in Methods, NEW l, NEW r,
           Begin(c, m, l, r), m = "reserve" => l \in ItemLists
    PROVE  Restrained'
<1>1. /\ pc[c] = "idle" /\ pc'[c] \in {"check", "apply"}
      /\ \A d \in Calls : d # c =>
            pc'[d] = pc[d] /\ op'[d] = op[d] /\ items'[d] = items[d] /\ idx'[d] = idx[d]
      /\ op'[c] = m /\ items'[c] = l /\ UNCHANGED table
  BY DEF Begin, TypeOK
<1>2. Cardinality(InFlight') <= MaxConcurrent
  BY FlightBegin DEF Restrained
<1>3. Asked'
  BY <1>1 DEF Asked, Restrained
<1>4. ASSUME NEW n \in Nat, Limits(n) PROVE Overdrawn(n)'
  <2>1. \A d \in Calls : \A p : Claims(d, p)' =>
           Claims(d, p) /\ QtyAt(d, idx[d])' = QtyAt(d, idx[d])
    BY <1>1 DEF Claims, ProductAt, QtyAt
  <2>2. \A p \in Products : quantity[p] - reserved[p] <= quantity'[p] - reserved'[p]
    BY <1>1 DEF table, TypeOK
  <2>3. Overdrawn(n)
    BY <1>4 DEF Restrained
  <2> QED
    BY <1>4, <2>1, <2>2, <2>3, NoNewClaim DEF Restrained, TypeOK
<1> QED
  BY <1>2, <1>3, <1>4 DEF Restrained, Limits

LEMMA RestrainedHandle ==
    ASSUME TypeOK, TypeOK', Progress, Restrained, NEW c \in Calls, Handle(c)
    PROVE  Restrained'
<1>1. /\ Running(c) /\ UNCHANGED <<op, items>>
      /\ \A d \in Calls : d # c => pc'[d] = pc[d] /\ idx'[d] = idx[d]
      /\ pc'[c] = "write" => ReserveCheck(c)
  BY DEF Handle, ReserveCheck, ReserveWrite, Rollback, ReleaseStep, ConfirmStep, Apply,
         Finish, DbFails, Throw, Return, Running, TypeOK
<1>2. Cardinality(InFlight') <= MaxConcurrent
  BY <1>1, FlightKeeps DEF Restrained, Running
<1>3. Asked'
  BY <1>1 DEF Asked, Restrained
<1>4. ASSUME NEW n \in Nat, Limits(n) PROVE Overdrawn(n)'
  <2>1. Overdrawn(n) /\ Asked
    BY <1>4 DEF Restrained
  <2>2. CASE pc'[c] = "write" /\ pc[c] # "write"
    <3>1. ReserveCheck(c) /\ pc' = [pc EXCEPT ![c] = "write"]
          /\ Available(ProductAt(c, idx[c])) >= QtyAt(c, idx[c])
      BY <1>1, <2>2 DEF ReserveCheck, TypeOK
    <3> QED
      BY <1>4, <2>1, <3>1, NewClaim
  <2>3. CASE ReserveWrite(c) /\ ProductAt(c, idx[c]) \in rows
    BY <1>4, <2>1, <2>3, ClaimWritten
  <2>4. CASE ~(pc'[c] = "write" /\ pc[c] # "write")
             /\ ~(ReserveWrite(c) /\ ProductAt(c, idx[c]) \in rows)
    <3>1. pc'[c] # "write"
      BY <1>1, <2>4 DEF ReserveCheck
    <3>2. \A d \in Calls : \A p : Claims(d, p)' =>
             Claims(d, p) /\ QtyAt(d, idx[d])' = QtyAt(d, idx[d])
      BY <1>1, <3>1 DEF Claims, ProductAt, QtyAt
    <3>3. \A p \in Products : quantity[p] - reserved[p] <= quantity'[p] - reserved'[p]
      BY <2>4, NeverLoses
    <3> QED
      BY <1>4, <2>1, <3>2, <3>3, NoNewClaim DEF TypeOK
  <2> QED
    BY <2>2, <2>3, <2>4
<1> QED
  BY <1>2, <1>3, <1>4 DEF Restrained, Limits

LEMMA RestrainedNext ==
    Updates = {} /\ TypeOK /\ TypeOK' /\ Progress /\ Restrained /\ [Next]_vars => Restrained'
<1> SUFFICES ASSUME Updates = {}, TypeOK, TypeOK', Progress, Restrained, [Next]_vars
             PROVE  Restrained'
  OBVIOUS
<1>1. CASE UNCHANGED <<quantity, reserved, pc, op, items, idx>>
  <2>1. \A p : Claimed(p)' = Claimed(p)
    BY <1>1 DEF Claimed, Claims, ProductAt, QtyAt
  <2>2. InFlight' = InFlight /\ (Asked <=> Asked')
    BY <1>1 DEF InFlight, Running, Asked
  <2> QED
    BY <1>1, <2>1, <2>2 DEF Restrained, Overdrawn
<1>2. ASSUME NEW c \in Calls, BeginReserve(c) PROVE Restrained'
  <2>1. PICK l \in ItemLists : Begin(c, "reserve", l, c)
    BY <1>2 DEF BeginReserve
  <2> QED
    BY <2>1, RestrainedBegin DEF Methods
<1>3. ASSUME NEW c \in Calls, BeginRelease(c) \/ BeginConfirm(c) PROVE Restrained'
  <2>1. PICK r \in Calls : Begin(c, "release", items[r], r) \/ Begin(c, "confirm", items[r], r)
    BY <1>3 DEF BeginRelease, BeginConfirm
  <2> QED
    BY <2>1, RestrainedBegin DEF Methods
<1>4. ASSUME NEW c \in Calls, Handle(c) PROVE Restrained'
  BY <1>4, RestrainedHandle
<1>5. ASSUME NEW p \in Products, PutQuantity(p) \/ DeleteProduct(p) PROVE Restrained'
  BY <1>1, <1>5 DEF PutQuantity, DeleteProduct, locals
<1>6. CASE UNCHANGED vars
  BY <1>1, <1>6 DEF vars, table, locals
<1> QED
  BY <1>2, <1>3, <1>4, <1>5, <1>6 DEF Next, AllDone

LEMMA RestrainedBounds == TypeOK /\ Progress /\ Restrained => OvercommitBound
<1> SUFFICES ASSUME TypeOK, Progress, Restrained,
                    NEW n \in Quantities, \A q \in Quantities : q <= n, NEW p \in rows
             PROVE  reserved[p] - quantity[p] <= (MaxConcurrent - 1) * n
  BY DEF OvercommitBound
<1>1. n \in Nat
  <2>1. PICK list \in ItemLists : \E i \in DOMAIN list : n = list[i].quantity
    BY DEF Quantities
  <2>2. PICK i \in DOMAIN list : n = list[i].quantity
    BY <2>1
  <2>3. list[i] \in Item
    BY InventoryAssumption
  <2> QED
    BY <2>2, <2>3 DEF Item
<1>2. Limits(n)
  BY DEF Limits, Quantities
<1>3. p \in Products
  BY DEF TypeOK
<1>4. Cardinality(Claimed(p)) \in Nat
  BY <1>1, <1>2, <1>3, ClaimsOf DEF Restrained
<1>5. reserved[p] - quantity[p] + Cardinality(Claimed(p)) <= (MaxConcurrent - 1) * n
  BY <1>1, <1>2, <1>3 DEF Restrained, Overdrawn
<1>6. reserved[p] \in Int /\ quantity[p] \in Int /\ (MaxConcurrent - 1) * n \in Int
  BY <1>1, <1>3, InventoryAssumption DEF TypeOK
<1> QED
  BY <1>4, <1>5, <1>6

(* While no administrator PUTs a quantity, handlers in flight oversell a   *)
(* product by what all but one of them may have claimed on an availability *)
(* that is out of date, and by no more: the bound holds for every number   *)
(* of calls, only those running at once count.                             *)
THEOREM OversellingIsBounded == Updates = {} => (Spec => []OvercommitBound)
<1> SUFFICES ASSUME Updates = {} PROVE Spec => []OvercommitBound
  OBVIOUS
<1>1. Init => Restrained
  BY RestrainedInit
<1>2. TypeOK /\ TypeOK' /\ Progress /\ Restrained /\ [Next]_vars => Restrained'
  BY RestrainedNext
<1>3. TypeOK /\ Progress /\ Restrained => OvercommitBound
  BY RestrainedBounds
<1> QED
  BY <1>1, <1>2, <1>3, Invariance, PTL DEF Spec
=============================================================================
