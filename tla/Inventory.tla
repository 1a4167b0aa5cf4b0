------------------------------ MODULE Inventory ------------------------------
(***************************************************************************)
(* The inventory service: the stock table and the handlers that reserve,   *)
(* release and confirm stock.  A handler is an async function: it awaits   *)
(* one database statement at a time, so the statements of concurrent       *)
(* handlers interleave.  Every statement is one step here.                 *)
(*                                                                         *)
(* A call is one execution of a handler, started by an RPC message or by a *)
(* REST request; both run the same InventoryService method.                *)
(***************************************************************************)
EXTENDS Integers, Sequences, FiniteSets

CONSTANTS
    Products,       \* product ids
    Calls,          \* handler executions
    ItemLists,      \* the item lists a caller may ask to reserve
    Stock,          \* the quantities a product may start with
    Updates,        \* the quantities an administrator may PUT
    MaxConcurrent,  \* bound on the handlers in flight at once
    DbFaults,       \* may a database statement throw?
    Deletes         \* may a product be deleted, its stock row with it?

Item == [productId : Products, quantity : Nat \ {0}]

ASSUME InventoryAssumption ==
    /\ IsFiniteSet(Calls)
    /\ ItemLists \subseteq Seq(Item)
    /\ Stock \subseteq Nat
    /\ Updates \subseteq Nat
    /\ MaxConcurrent \in Nat \ {0}
    /\ DbFaults \in BOOLEAN
    /\ Deletes \in BOOLEAN

VARIABLES
    rows,      \* products that have a row in the inventory table
    quantity,  \* Inventory.quantity, per product
    reserved,  \* Inventory.reservedQuantity, per product
    pc,        \* where each call stands
    op,        \* the method each call runs
    items,     \* its argument
    idx,       \* its position in the item loop
    undone,    \* how many entries of `results` a rollback has released
    seen,      \* availableStock, as read before the increment
    result,    \* what the call returned
    target,    \* history: the reservation a release or confirm settles
    open       \* history: positions whose increment is still in the table

table   == <<rows, quantity, reserved>>
locals  == <<pc, op, items, idx, undone, seen, result>>
history == <<target, open>>
vars    == <<table, locals, history>>

Steps   == {"idle", "check", "write", "rollback", "apply", "done"}
Methods == {"none", "reserve", "release", "confirm"}
Results == {"none", "success", "insufficient", "error"}

TypeOK ==
    /\ rows \subseteq Products
    /\ quantity \in [Products -> Int]
    /\ reserved \in [Products -> Int]
    /\ pc \in [Calls -> Steps]
    /\ op \in [Calls -> Methods]
    /\ items \in [Calls -> Seq(Item)]
    /\ idx \in [Calls -> Nat \ {0}]
    /\ undone \in [Calls -> Nat]
    /\ seen \in [Calls -> Int]
    /\ result \in [Calls -> Results]
    /\ target \in [Calls -> Calls]
    /\ open \in [Calls -> SUBSET Nat]

Init ==
    /\ rows \in SUBSET Products
    /\ quantity \in [Products -> Stock]
    /\ reserved = [p \in Products |-> 0]
    /\ pc = [c \in Calls |-> "idle"]
    /\ op = [c \in Calls |-> "none"]
    /\ items = [c \in Calls |-> <<>>]
    /\ idx = [c \in Calls |-> 1]
    /\ undone = [c \in Calls |-> 0]
    /\ seen = [c \in Calls |-> 0]
    /\ result = [c \in Calls |-> "none"]
    /\ target = [c \in Calls |-> c]
    /\ open = [c \in Calls |-> {}]

Running(c)   == pc[c] \notin {"idle", "done"}
Available(p) == quantity[p] - reserved[p]
More(c)      == idx[c] <= Len(items[c])
ProductAt(c, i) == items[c][i].productId
QtyAt(c, i)     == items[c][i].quantity

(* Mutant: the rollback starts at the second entry of `results`.           *)
UndoingFromSecond(c) == undone[c] + 2

Undoing(c)   == undone[c] + 1

-----------------------------------------------------------------------------
(* A call starts.                                                          *)

Begin(c, method, list, reservation) ==
    /\ pc[c] = "idle"
    /\ Cardinality({d \in Calls : Running(d)}) < MaxConcurrent
    /\ pc' = [pc EXCEPT ![c] = IF method = "reserve" THEN "check" ELSE "apply"]
    /\ op' = [op EXCEPT ![c] = method]
    /\ items' = [items EXCEPT ![c] = list]
    /\ idx' = [idx EXCEPT ![c] = 1]
    /\ undone' = [undone EXCEPT ![c] = 0]
    /\ target' = [target EXCEPT ![c] = reservation]
    /\ UNCHANGED <<table, seen, result, open>>

BeginReserve(c) == \E list \in ItemLists : Begin(c, "reserve", list, c)

(* What the service expects of its callers: a release or a confirm returns *)
(* a reservation that was granted, with its own items, and only once.      *)
Unsettled(r) ==
    /\ op[r] = "reserve" /\ result[r] = "success"
    /\ \A d \in Calls : op[d] \in {"release", "confirm"} => target[d] # r

BeginRelease(c) == \E r \in Calls : Unsettled(r) /\ Begin(c, "release", items[r], r)
BeginConfirm(c) == \E r \in Calls : Unsettled(r) /\ Begin(c, "confirm", items[r], r)

-----------------------------------------------------------------------------
(* The handlers, one database statement per step.                          *)

Return(c, value) ==
    /\ pc' = [pc EXCEPT ![c] = "done"]
    /\ result' = [result EXCEPT ![c] = value]
    /\ UNCHANGED <<op, items, idx, undone, seen>>

Throw(c) == Return(c, "error") /\ UNCHANGED <<table, history>>

(* Mutant: the comparison forgets what is already reserved.                *)
ChecksQuantityOnly(c) ==
    /\ pc[c] = "check" /\ More(c)
    /\ LET p == ProductAt(c, idx[c])
           enough == p \in rows /\ quantity[p] >= QtyAt(c, idx[c])
       IN  /\ pc' = [pc EXCEPT ![c] = IF enough THEN "write" ELSE "rollback"]
           /\ seen' = [seen EXCEPT ![c] = Available(p)]
    /\ UNCHANGED <<table, op, items, idx, undone, result, history>>

(* InventoryRepository.reserveStock, first half: read the row and compare. *)
ReserveCheck(c) ==
    /\ pc[c] = "check" /\ More(c)
    /\ LET p == ProductAt(c, idx[c])
           enough == p \in rows /\ Available(p) >= QtyAt(c, idx[c])
       IN  /\ pc' = [pc EXCEPT ![c] = IF enough THEN "write" ELSE "rollback"]
           /\ seen' = [seen EXCEPT ![c] = Available(p)]
    /\ UNCHANGED <<table, op, items, idx, undone, result, history>>

(* Mutant: the new value is computed from what the check read, and set.    *)
WritesWhatItRead(c) ==
    /\ pc[c] = "write"
    /\ LET p == ProductAt(c, idx[c])
       IN  \/ /\ p \in rows
              /\ reserved' = [reserved EXCEPT ![p] = quantity[p] - seen[c] + QtyAt(c, idx[c])]
              /\ open' = [open EXCEPT ![c] = @ \union {idx[c]}]
              /\ idx' = [idx EXCEPT ![c] = @ + 1]
              /\ pc' = [pc EXCEPT ![c] = "check"]
              /\ UNCHANGED <<rows, quantity, op, items, undone, seen, result, target>>
           \/ p \notin rows /\ Throw(c)

(* Second half: the increment, on whatever the row holds by now.           *)
ReserveWrite(c) ==
    /\ pc[c] = "write"
    /\ LET p == ProductAt(c, idx[c])
       IN  \/ /\ p \in rows
              /\ reserved' = [reserved EXCEPT ![p] = @ + QtyAt(c, idx[c])]
              /\ open' = [open EXCEPT ![c] = @ \union {idx[c]}]
              /\ idx' = [idx EXCEPT ![c] = @ + 1]
              /\ pc' = [pc EXCEPT ![c] = "check"]
              /\ UNCHANGED <<rows, quantity, op, items, undone, seen, result, target>>
           \/ p \notin rows /\ Throw(c)

(* One turn of the loop that releases what `results` holds.                *)
Rollback(c) ==
    /\ pc[c] = "rollback" /\ Undoing(c) < idx[c]
    /\ LET p == ProductAt(c, Undoing(c))
       IN  \/ /\ p \in rows
              /\ reserved' = [reserved EXCEPT ![p] = @ - QtyAt(c, Undoing(c))]
              /\ open' = [open EXCEPT ![c] = @ \ {Undoing(c)}]
              /\ undone' = [undone EXCEPT ![c] = @ + 1]
              /\ UNCHANGED <<rows, quantity, pc, op, items, idx, seen, result, target>>
           \/ p \notin rows /\ Throw(c)

(* One turn of releaseStock's loop, or of confirmReservation's.            *)
Apply(c, taken) ==
    /\ pc[c] = "apply" /\ More(c)
    /\ LET p == ProductAt(c, idx[c])
       IN  \/ /\ p \in rows
              /\ reserved' = [reserved EXCEPT ![p] = @ - QtyAt(c, idx[c])]
              /\ quantity' = [quantity EXCEPT ![p] = @ - taken]
              /\ open' = [open EXCEPT ![target[c]] = @ \ {idx[c]}]
              /\ idx' = [idx EXCEPT ![c] = @ + 1]
              /\ UNCHANGED <<rows, pc, op, items, undone, seen, result, target>>
           \/ p \notin rows /\ Throw(c)

ReleaseStep(c) == op[c] = "release" /\ Apply(c, 0)
ConfirmStep(c) == op[c] = "confirm" /\ Apply(c, QtyAt(c, idx[c]))

(* Mutants: a return inside the loop; no answer after a rollback.          *)
ReturnsInLoop(c) ==
    /\ \/ pc[c] \in {"check", "apply"} /\ (~More(c) \/ idx[c] > 1) /\ Return(c, "success")
       \/ pc[c] = "rollback" /\ Undoing(c) = idx[c] /\ Return(c, "insufficient")
    /\ UNCHANGED <<table, history>>

AnswersGrantsOnly(c) ==
    /\ pc[c] \in {"check", "apply"} /\ ~More(c) /\ Return(c, "success")
    /\ UNCHANGED <<table, history>>

(* The loop is over: the method returns.                                   *)
Finish(c) ==
    /\ \/ pc[c] \in {"check", "apply"} /\ ~More(c) /\ Return(c, "success")
       \/ pc[c] = "rollback" /\ Undoing(c) = idx[c] /\ Return(c, "insufficient")
    /\ UNCHANGED <<table, history>>

(* A statement throws: the method's loop is left where it stands, and the  *)
(* RPC server or the controller answers with the error's message.          *)
DbFails(c) ==
    /\ DbFaults
    /\ \/ pc[c] \in {"check", "apply"} /\ More(c)
       \/ pc[c] = "write"
       \/ pc[c] = "rollback" /\ Undoing(c) < idx[c]
    /\ Throw(c)

Handle(c) ==
    \/ ReserveCheck(c) \/ ReserveWrite(c) \/ Rollback(c)
    \/ ReleaseStep(c) \/ ConfirmStep(c) \/ Finish(c) \/ DbFails(c)

-----------------------------------------------------------------------------
(* The table's other writers.                                              *)

(* PUT /inventory/:productId sets the quantity, whatever is reserved.      *)
PutQuantity(p) ==
    /\ p \in rows
    /\ \E q \in Updates : quantity' = [quantity EXCEPT ![p] = q]
    /\ UNCHANGED <<rows, reserved, locals, history>>

(* Deleting a product cascades to its inventory row.                       *)
DeleteProduct(p) ==
    /\ Deletes /\ p \in rows
    /\ rows' = rows \ {p}
    /\ UNCHANGED <<quantity, reserved, locals, history>>

AllDone == (\A c \in Calls : pc[c] = "done") /\ UNCHANGED vars

Next ==
    \/ \E c \in Calls : BeginReserve(c) \/ BeginRelease(c) \/ BeginConfirm(c) \/ Handle(c)
    \/ \E p \in Products : PutQuantity(p) \/ DeleteProduct(p)
    \/ AllDone

Spec == Init /\ [][Next]_vars

(* The event loop resumes a handler whose statement has been answered.     *)
FairSpec == Spec /\ \A c \in Calls : WF_vars(Handle(c))

-----------------------------------------------------------------------------
(* Properties.                                                             *)

(* A reservation is granted whole or not at all: when reserveStock returns *)
(* success every position is incremented (short of those a later release   *)
(* or confirm has taken back), and when it returns "insufficient" the      *)
(* rollback loop of inventory.service.ts has left none behind.             *)
AllOrNothing ==
    \A c \in Calls : op[c] = "reserve" =>
        /\ result[c] = "success" /\ Unsettled(c) => open[c] = 1 .. Len(items[c])
        /\ result[c] = "insufficient" => open[c] = {}

(* A release or confirm that returns success has taken back the whole of   *)
(* its reservation, none of it twice.                                      *)
SettledInFull ==
    \A c \in Calls :
        op[c] \in {"release", "confirm"} /\ result[c] = "success" => open[target[c]] = {}

(* Places(p): the item positions that hold a reservation of p.  Units(p):  *)
(* the same, one element per unit reserved.                                *)
Places(p) ==
    {x \in UNION {{c} \X open[c] : c \in Calls} : ProductAt(x[1], x[2]) = p}
Units(p) == UNION {{x} \X (1 .. QtyAt(x[1], x[2])) : x \in Places(p)}

(* reservedQuantity is exactly what unsettled reservations hold, whatever  *)
(* the interleaving of handlers, the statements that throw and the rows    *)
(* that vanish: increments and decrements of concurrent handlers are never *)
(* lost and never doubled, so it cannot go below zero either.              *)
Accounting == \A p \in rows : reserved[p] = Cardinality(Units(p))

(* The availability check is followed by an await.  A reservation may push *)
(* a product beyond its stock only if the availability it read is no       *)
(* longer the row's when it writes; otherwise only a PUT can do it.        *)
ActsOnStaleRead(c, p) ==
    pc[c] = "write" /\ pc'[c] = "check" /\ ProductAt(c, idx[c]) = p /\ seen[c] # Available(p)

OversellOnlyWhenStale ==
    [][\A p \in rows \intersect rows' :
          Available(p) >= 0 /\ Available(p)' < 0 =>
              \/ \E c \in Calls : ActsOnStaleRead(c, p)
              \/ quantity'[p] < quantity[p] /\ reserved' = reserved]_vars

(* How far concurrent reservations can oversell a product: each of the     *)
(* other handlers in flight may hold one availability check that is out of *)
(* date, for as much as a list may ask of a product in one line, n.        *)
(* Nothing that happens later widens the gap, rollbacks, releases and      *)
(* confirms included; only a PUT could.                                    *)
Quantities == UNION {{list[i].quantity : i \in DOMAIN list} : list \in ItemLists}

OvercommitBound ==
    \A n \in Quantities : (\A q \in Quantities : q <= n) =>
        \A p \in rows : reserved[p] - quantity[p] <= (MaxConcurrent - 1) * n

(* Every call that starts returns, whatever the other handlers do to the   *)
(* rows it works on.                                                       *)
EveryCallReturns == \A c \in Calls : Running(c) ~> pc[c] = "done"
=============================================================================
