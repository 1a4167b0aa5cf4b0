--------------------------- MODULE Checkout_proofs ---------------------------
(***************************************************************************)
(* Proofs about Checkout, for every set of orders, cancels and products,   *)
(* every fault and any number of crashes: its types, ConfirmedIsPaid,      *)
(* NoOrderWithoutStock, FailureIsNotConfirmed, and what checkout does with *)
(* the stock: StockIsAccountedFor, RedeliveryOnlyWithholds,                *)
(* InventoryContract, StockFollowsOutcome.                                 *)
(***************************************************************************)
EXTENDS Checkout, FiniteSetTheorems, TLAPS

(* The inventory service again, with what is proved of it.                 *)
InvP == INSTANCE Inventory_proofs
          WITH Calls <- Rpcs, Updates <- {}, Deletes <- FALSE, DbFaults <- StockFaults


(* The part of TypeOK the arguments need: nothing of the stock table.      *)
Typed ==
    /\ at \in [Requests -> Positions]
    /\ reply \in [Requests -> {"none", "200", "201", "400", "404", "500"}]
    /\ victim \in [Cancels -> Orders]
    /\ status \in [Orders -> {"absent", "PENDING", "CONFIRMED", "CANCELLED"}]
    /\ payment \in [Orders -> {"PENDING", "COMPLETED"}]
    /\ charged \in [Orders -> BOOLEAN]
    /\ pc \in [Rpcs -> Inv!Steps]
    /\ result \in [Rpcs -> Inv!Results]

(* The reservation has returned, and granted everything.                   *)
Reserves(o) == pc[Reservation(o)] = "done" /\ result[Reservation(o)] = "success"

(* Once past its reservation, an order has it; before, there is no order.  *)
Placed(o) ==
    /\ at[o] \notin {"new", "reserving", "answered", "crashed"} => Reserves(o)
    /\ status[o] # "absent" \/ charged[o] => Reserves(o)

(* How far the payment is, at each position of create.                     *)
Paid(o) ==
    /\ at[o] \in {"new", "reserving", "creating", "paying"} => payment[o] = "PENDING"
    /\ at[o] = "completing" => charged[o]
    /\ at[o] = "confirming" => payment[o] = "COMPLETED"
    /\ status[o] = "CONFIRMED" => payment[o] = "COMPLETED"
    /\ payment[o] = "COMPLETED" => charged[o]

(* From the CONFIRMED statement on, create can only succeed.               *)
Told(o) ==
    /\ reply[o] # "none" => at[o] = "answered"
    /\ at[o] \notin {"settling", "publishing", "answered", "crashed"} => status[o] # "CONFIRMED"
    /\ reply[o] \in {"400", "500"} => status[o] # "CONFIRMED"

(* A cancel past its checks is about an order that exists.                 *)
Found(x) == at[x] \in {"releasing", "marking"} => status[victim[x]] # "absent"

IInv ==
    /\ Typed
    /\ \A o \in Orders : Placed(o) /\ Paid(o) /\ Told(o)
    /\ \A x \in Cancels : Found(x)

-----------------------------------------------------------------------------
(* What the steps of others leave alone.                                   *)

(* The reservation of an order is one of the RPCs.                         *)
LEMMA Reservations ==
    ASSUME NEW o \in Orders
    PROVE  Reservation(o) \in Rpcs
  BY DEF Reservation, Rpcs

(* A reservation that was granted stays so: a handler works only on what   *)
(* it has not returned, and only an idle call begins.                      *)
LEMMA StockKeeps ==
    ASSUME Typed, NEW k \in Rpcs, StockStep(k) \/ StockCrash
    PROVE  /\ pc' \in [Rpcs -> Inv!Steps] /\ result' \in [Rpcs -> Inv!Results]
           /\ \A o \in Orders : Reserves(o) => Reserves(o)'
<1>1. CASE Requested(k)
  BY <1>1, Reservations DEF Requested, Inv!Begin, Typed, Reserves, Inv!Steps, Reservation
<1>2. CASE Inv!Handle(k)
  <2>1. /\ pc[k] # "done"
        /\ \/ \E v \in Inv!Steps : pc' = [pc EXCEPT ![k] = v]
           \/ pc' = pc
        /\ \/ \E v \in Inv!Results : result' = [result EXCEPT ![k] = v]
           \/ result' = result
    <3>1. CASE Inv!ReserveCheck(k)
      BY <3>1 DEF Inv!ReserveCheck, Inv!Steps
    <3>2. CASE Inv!ReserveWrite(k)
      BY <3>2 DEF Inv!ReserveWrite, Inv!Throw, Inv!Return, Inv!Steps, Inv!Results
    <3>3. CASE Inv!Rollback(k)
      BY <3>3 DEF Inv!Rollback, Inv!Throw, Inv!Return, Inv!Steps, Inv!Results
    <3>4. CASE Inv!ReleaseStep(k) \/ Inv!ConfirmStep(k)
      BY <3>4 DEF Inv!ReleaseStep, Inv!ConfirmStep, Inv!Apply, Inv!Throw, Inv!Return,
                  Inv!Steps, Inv!Results
    <3>5. CASE Inv!Finish(k)
      BY <3>5 DEF Inv!Finish, Inv!Return, Inv!Steps, Inv!Results
    <3>6. CASE Inv!DbFails(k)
      BY <3>6 DEF Inv!DbFails, Inv!Throw, Inv!Return, Inv!Steps, Inv!Results
    <3> QED
      BY <1>2, <3>1, <3>2, <3>3, <3>4, <3>5, <3>6 DEF Inv!Handle
  <2> QED
    BY <2>1, Reservations DEF Typed, Reserves
<1>3. CASE StockCrash
  BY <1>3, Reservations DEF StockCrash, Inv!Running, Typed, Reserves, Inv!Steps
<1> QED
  BY <1>1, <1>2, <1>3 DEF StockStep

-----------------------------------------------------------------------------
(* The steps of a create.                                                  *)

(* Each moves its own order only, and nothing of the inventory service.    *)
OnlyOf(o) ==
    /\ pc' = pc /\ result' = result /\ victim' = victim
    /\ \E p \in Positions : at' = [at EXCEPT ![o] = p]
    /\ \E c \in {"none", "201", "400", "500"} : reply' = reply \/ reply' = [reply EXCEPT ![o] = c]
    /\ \/ status' = status
       \/ status' = [status EXCEPT ![o] = "PENDING"]
       \/ status' = [status EXCEPT ![o] = "CONFIRMED"]
    /\ payment' = payment \/ payment' = [payment EXCEPT ![o] = "COMPLETED"]
    /\ charged' = charged \/ \E b \in BOOLEAN : charged' = [charged EXCEPT ![o] = b]

(* Making an RPC, or taking its answer, touches nothing of the inventory   *)
(* service.                                                                *)
LEMMA Calling ==
    ASSUME NEW k, Send(k) \/ Settled(k) \/ Local
    PROVE  pc' = pc /\ result' = result
  BY DEF Send, Settled, Granted, Denied, Local, inventory

(* So OnlyOf bounds what any step of a create does.                        *)
LEMMA CreateFrame ==
    ASSUME Typed, NEW o \in Orders, CreateStep(o)
    PROVE  OnlyOf(o)
<1>1. CASE Create(o) \/ Undo(o) \/ Confirmed(o) \/ Released(o) \/ CreateThrows(o)
  BY <1>1, Calling DEF Create, Undo, Confirmed, Released, CreateThrows, Go, Quiet, order,
     inputs, Positions, OnlyOf
<1>2. CASE Reserved(o) \/ Undone(o)
  <2>1. pc' = pc /\ result' = result
    BY <1>2, Calling DEF Reserved, Undone, Settled
  <2> QED
    BY <1>2, <2>1 DEF Reserved, Undone, Go, Answer, order, inputs, Positions, OnlyOf
<1>3. CASE CreateRow(o) \/ CompletePayment(o) \/ Confirm(o) \/ PublishCreated(o)
  BY <1>3, Calling DEF CreateRow, CompletePayment, Confirm, PublishCreated, Go, Answer, inputs,
     Positions, OnlyOf
<1>4. CASE Pay(o)
  <2>1. pc' = pc /\ result' = result
    BY <1>4, Calling DEF Pay
  <2> QED
    BY <1>4, <2>1 DEF Pay, Go, inputs, Positions, OnlyOf
<1> QED
  BY <1>1, <1>2, <1>3, <1>4 DEF CreateStep

(* A create keeps the claims about its own order.                          *)
LEMMA CreateOwn ==
    ASSUME IInv, NEW o \in Orders, CreateStep(o)
    PROVE  Placed(o)' /\ Paid(o)' /\ Told(o)'
<1> USE DEF IInv, Typed, Requests, Positions
<1>1. CASE Create(o)
  BY <1>1, Calling DEF Create, Go, Quiet, order, Placed, Paid, Told, Reserves
<1>2. CASE Reserved(o)
  <2>1. pc' = pc /\ result' = result
    BY <1>2, Calling DEF Reserved, Settled
  <2> QED
    BY <1>2, <2>1 DEF Reserved, Granted, Go, Answer, order, Placed, Paid, Told, Reserves,
       Reservation
<1>3. CASE CreateRow(o)
  BY <1>3, Calling DEF CreateRow, Go, Placed, Paid, Told, Reserves
<1>4. CASE Pay(o)
  <2>1. pc' = pc /\ result' = result
    BY <1>4, Calling DEF Pay
  <2> QED
    BY <1>4, <2>1 DEF Pay, Go, Placed, Paid, Told, Reserves
<1>5. CASE CompletePayment(o)
  BY <1>5, Calling DEF CompletePayment, Go, Placed, Paid, Told, Reserves
<1>6. CASE Confirm(o)
  BY <1>6, Calling DEF Confirm, Go, Placed, Paid, Told, Reserves
<1>7. CASE Confirmed(o) \/ Released(o) \/ Undo(o)
  BY <1>7, Calling DEF Confirmed, Released, Undo, Go, Quiet, order, Placed, Paid, Told, Reserves
<1>8. CASE PublishCreated(o)
  BY <1>8, Calling DEF PublishCreated, Go, Answer, Placed, Paid, Told, Reserves
<1>9. CASE CreateThrows(o)
  BY <1>9, Calling DEF CreateThrows, Go, Quiet, order, Placed, Paid, Told, Reserves
<1>10. CASE Undone(o)
  <2>1. pc' = pc /\ result' = result
    BY <1>10, Calling DEF Undone
  <2> QED
    BY <1>10, <2>1 DEF Undone, Go, Answer, order, Placed, Paid, Told, Reserves
<1> QED
  BY <1>1, <1>2, <1>3, <1>4, <1>5, <1>6, <1>7, <1>8, <1>9, <1>10 DEF CreateStep

(* And, by its frame, those about every other order and about the cancels. *)
LEMMA CreateKeeps ==
    ASSUME IInv, NEW o \in Orders, CreateStep(o)
    PROVE  IInv'
<1>1. OnlyOf(o)
  BY CreateFrame DEF IInv
<1>2. Typed'
  <2>1. at' \in [Requests -> Positions]
    BY <1>1 DEF IInv, Typed, OnlyOf
  <2>2. reply' \in [Requests -> {"none", "200", "201", "400", "404", "500"}]
    BY <1>1 DEF IInv, Typed, OnlyOf
  <2>3. status' \in [Orders -> {"absent", "PENDING", "CONFIRMED", "CANCELLED"}]
    BY <1>1 DEF IInv, Typed, OnlyOf
  <2>4. payment' \in [Orders -> {"PENDING", "COMPLETED"}] /\ charged' \in [Orders -> BOOLEAN]
    BY <1>1 DEF IInv, Typed, OnlyOf
  <2>5. pc' = pc /\ result' = result /\ victim' = victim
    BY <1>1 DEF OnlyOf
  <2> QED
    BY <2>1, <2>2, <2>3, <2>4, <2>5 DEF IInv, Typed
<1>3. \A q \in Orders : Placed(q)' /\ Paid(q)' /\ Told(q)'
  <2> SUFFICES ASSUME NEW q \in Orders, q # o PROVE Placed(q)' /\ Paid(q)' /\ Told(q)'
    BY CreateOwn
  <2>1. /\ at'[q] = at[q] /\ reply'[q] = reply[q] /\ status'[q] = status[q]
        /\ payment'[q] = payment[q] /\ charged'[q] = charged[q]
    BY <1>1 DEF OnlyOf, IInv, Typed, Requests
  <2>2. Reserves(q)' = Reserves(q)
    BY <1>1 DEF OnlyOf, Reserves
  <2> QED
    BY <2>1, <2>2 DEF IInv, Placed, Paid, Told
<1>4. \A x \in Cancels : Found(x)'
  <2> SUFFICES ASSUME NEW x \in Cancels PROVE Found(x)'
    OBVIOUS
  <2>1. at'[x] = at[x] /\ victim' = victim
    BY <1>1, CheckoutAssumption DEF OnlyOf, IInv, Typed, Requests
  <2>2. victim[x] \in Orders
    BY DEF IInv, Typed
  <2>3. status[victim[x]] # "absent" => status'[victim[x]] # "absent"
    BY <1>1, <2>2 DEF OnlyOf, IInv, Typed
  <2> QED
    BY <2>1, <2>3 DEF IInv, Found
<1> QED
  BY <1>2, <1>3, <1>4 DEF IInv

-----------------------------------------------------------------------------
(* The steps of a cancel: at most the status of the order it names moves,  *)
(* to CANCELLED, and only where there is a row.                            *)
LEMMA CancelFrame ==
    ASSUME IInv, NEW x \in Cancels, CancelStep(x)
    PROVE  /\ pc' = pc /\ result' = result
           /\ UNCHANGED <<victim, payment, charged>>
           /\ \E p \in Positions : at' = [at EXCEPT ![x] = p]
           /\ \/ reply' = reply
              \/ \E c \in {"200", "400", "404", "500"} : reply' = [reply EXCEPT ![x] = c]
           /\ \/ status' = status
              \/ status' = [status EXCEPT ![victim[x]] = "CANCELLED"] /\ Reserves(victim[x])
           /\ Found(x)'
<1> USE DEF IInv, Typed, Requests, Positions
<1>1. CASE Cancel(x)
  BY <1>1, Calling DEF Cancel, Cancellable, Go, Answer, order, inputs, Found
<1>2. CASE CancelReleased(x)
  BY <1>2, Calling DEF CancelReleased, Go, Quiet, order, inputs, Found
<1>3. CASE MarkCancelled(x)
  <2>1. Reserves(victim[x])
    BY <1>3 DEF MarkCancelled, Go, Answer, Found, Placed
  <2> QED
    BY <1>3, <2>1, Calling DEF MarkCancelled, Go, Answer, inputs, Found
<1> QED
  BY <1>1, <1>2, <1>3 DEF CancelStep

(* A cancel keeps the invariant: CANCELLED claims nothing but a row.       *)
LEMMA CancelKeeps ==
    ASSUME IInv, NEW x \in Cancels, CancelStep(x)
    PROVE  IInv'
<1>1. victim[x] \in Orders /\ x \in Requests /\ x \notin Orders
  BY CheckoutAssumption DEF IInv, Typed, Requests
<1>2. Typed'
  <2>1. at' \in [Requests -> Positions]
    BY CancelFrame DEF IInv, Typed
  <2>2. reply' \in [Requests -> {"none", "200", "201", "400", "404", "500"}]
    BY CancelFrame DEF IInv, Typed
  <2>3. status' \in [Orders -> {"absent", "PENDING", "CONFIRMED", "CANCELLED"}]
    BY CancelFrame DEF IInv, Typed
  <2>4. UNCHANGED <<victim, payment, charged, pc, result>>
    BY CancelFrame
  <2> QED
    BY <2>1, <2>2, <2>3, <2>4 DEF IInv, Typed
<1>3. \A o \in Orders : Placed(o)' /\ Paid(o)' /\ Told(o)'
  <2> SUFFICES ASSUME NEW o \in Orders PROVE Placed(o)' /\ Paid(o)' /\ Told(o)'
    OBVIOUS
  <2>1. /\ at'[o] = at[o] /\ reply'[o] = reply[o]
        /\ payment'[o] = payment[o] /\ charged'[o] = charged[o]
    BY CancelFrame, <1>1 DEF IInv, Typed, Requests
  <2>2. status'[o] = status[o] \/ (status'[o] = "CANCELLED" /\ Reserves(o))
    BY CancelFrame, <1>1 DEF IInv, Typed
  <2>3. Reserves(o)' = Reserves(o)
    BY CancelFrame DEF Reserves
  <2> QED
    BY <2>1, <2>2, <2>3 DEF IInv, Placed, Paid, Told
<1>4. \A y \in Cancels : Found(y)'
  <2> SUFFICES ASSUME NEW y \in Cancels, y # x PROVE Found(y)'
    BY CancelFrame
  <2>1. at'[y] = at[y] /\ victim' = victim /\ victim[y] \in Orders
    BY CancelFrame, <1>1 DEF IInv, Typed, Requests
  <2>2. status[victim[y]] # "absent" => status'[victim[y]] # "absent"
    BY CancelFrame, <1>1, <2>1 DEF IInv, Typed
  <2> QED
    BY <2>1, <2>2 DEF IInv, Found
<1> QED
  BY <1>2, <1>3, <1>4 DEF IInv

-----------------------------------------------------------------------------
(* Every step of the system keeps the invariant: the inventory service and *)
(* its crashes by StockKeeps, a crash of the order service because a       *)
(* crashed request claims nothing any more.                                *)
LEMMA Invariance ==
    ASSUME IInv, [Next]_vars
    PROVE  IInv'
<1>1. CASE \E k \in Rpcs : StockStep(k) \/ StockCrash
  <2>1. UNCHANGED <<at, reply, victim, status, payment, charged>>
    BY <1>1 DEF StockStep, StockCrash, order, inputs
  <2>2. /\ pc' \in [Rpcs -> Inv!Steps] /\ result' \in [Rpcs -> Inv!Results]
        /\ \A o \in Orders : Reserves(o) => Reserves(o)'
    BY <1>1, StockKeeps DEF IInv
  <2>3. Typed'
    BY <2>1, <2>2 DEF IInv, Typed
  <2>4. \A o \in Orders : Placed(o)' /\ Paid(o)' /\ Told(o)'
    BY <2>1, <2>2 DEF IInv, Placed, Paid, Told
  <2>5. \A x \in Cancels : Found(x)'
    BY <2>1 DEF IInv, Found
  <2> QED
    BY <2>3, <2>4, <2>5 DEF IInv
<1>2. CASE StockCrash
  <2>1. PICK k \in Rpcs : Inv!Running(k)
    BY <1>2 DEF StockCrash
  <2> QED
    BY <1>1, <1>2, <2>1
<1>3. CASE OrderCrash
  <2>1. UNCHANGED <<reply, victim, status, payment, charged, pc, result>>
    BY <1>3 DEF OrderCrash, order, inputs, inventory
  <2>2. /\ at' \in [Requests -> Positions]
        /\ \A r \in Requests :
              at'[r] = at[r] \/ (at'[r] = "crashed" /\ at[r] # "answered")
    BY <1>3 DEF OrderCrash, IInv, Typed, Positions
  <2>3. Typed'
    BY <2>1, <2>2 DEF IInv, Typed
  <2>4. \A o \in Orders : Placed(o)' /\ Paid(o)' /\ Told(o)'
    <3> SUFFICES ASSUME NEW o \in Orders PROVE Placed(o)' /\ Paid(o)' /\ Told(o)'
      OBVIOUS
    <3>1. at'[o] = at[o] \/ (at'[o] = "crashed" /\ at[o] # "answered")
      BY <2>2 DEF Requests
    <3>2. Reserves(o)' = Reserves(o)
      BY <2>1 DEF Reserves
    <3> QED
      BY <2>1, <3>1, <3>2 DEF IInv, Placed, Paid, Told
  <2>5. \A x \in Cancels : Found(x)'
    BY <2>1, <2>2 DEF IInv, Found, Requests
  <2> QED
    BY <2>3, <2>4, <2>5 DEF IInv
<1>4. CASE UNCHANGED vars
  BY <1>4 DEF vars, order, inputs, inventory, IInv, Typed, Placed, Paid, Told, Found, Reserves
<1> QED
  BY <1>1, <1>2, <1>3, <1>4, CreateKeeps, CancelKeeps DEF Next, Done

(* Before the first request everything is new and there is no order.       *)
LEMMA Start ==
    ASSUME Init
    PROVE  IInv
  BY DEF Init, Inv!Init, IInv, Typed, Placed, Paid, Told, Found, Positions, Inv!Steps,
         Inv!Results, Requests

(* So the invariant holds in every state the system reaches.               *)
LEMMA Always == Spec => []IInv
<1>1. Init => IInv
  BY Start
<1>2. IInv /\ [Next]_vars => IInv'
  BY Invariance
<1> QED
  BY <1>1, <1>2, PTL DEF Spec

(* An order is CONFIRMED only once its payment is recorded, and recorded   *)
(* only once Stripe has the money: whatever cancels, timeouts, failing     *)
(* statements and crashes of both services come in between.                *)
THEOREM ConfirmedArePaid == Spec => []ConfirmedIsPaid
<1>1. IInv => ConfirmedIsPaid
  BY DEF IInv, Paid, ConfirmedIsPaid
<1> QED
  BY <1>1, Always, PTL

(* There is no order row, and no charge, without a reservation that the    *)
(* inventory service granted in full.                                      *)
THEOREM OrdersHaveStock == Spec => []NoOrderWithoutStock
<1>1. IInv => NoOrderWithoutStock
  BY DEF IInv, Placed, Reserves, NoOrderWithoutStock
<1> QED
  BY <1>1, Always, PTL

(* A create that answers an error leaves no CONFIRMED order behind.        *)
THEOREM FailuresConfirmNothing == Spec => []FailureIsNotConfirmed
<1>1. IInv => FailureIsNotConfirmed
  BY DEF IInv, Told, FailureIsNotConfirmed
<1> QED
  BY <1>1, Always, PTL

-----------------------------------------------------------------------------
(* The inventory service's lemmas, for the calls an order makes.           *)

LEMMA RpcsFinite == IsFiniteSet(Rpcs)
<1>1. IsFiniteSet({"reserve", "confirm", "release", "undo"}) /\ IsFiniteSet({"release"})
  <2>1. IsFiniteSet({"reserve"} \union {"confirm"} \union {"release"} \union {"undo"})
    BY FS_Singleton, FS_Union
  <2>2. {"reserve"} \union {"confirm"} \union {"release"} \union {"undo"} =
          {"reserve", "confirm", "release", "undo"}
    OBVIOUS
  <2> QED
    BY <2>1, <2>2, FS_Singleton
<1>2. IsFiniteSet(Orders \X {"reserve", "confirm", "release", "undo"})
      /\ IsFiniteSet(Cancels \X {"release"})
  BY <1>1, FS_Product, CheckoutAssumption
<1> QED
  BY <1>2, FS_Union DEF Rpcs

LEMMA StockAssumed == InvP!InventoryAssumption
<1>1. InvP!IsFiniteSet(Rpcs)
  BY RpcsFinite DEF IsFiniteSet, InvP!IsFiniteSet
<1> QED
  BY <1>1, CheckoutAssumption DEF InvP!InventoryAssumption, InvP!Item

LEMMA SameTypes == (Inv!TypeOK <=> InvP!TypeOK) /\ (Inv!TypeOK' <=> InvP!TypeOK')
  BY DEF Inv!TypeOK, InvP!TypeOK, Inv!Steps, InvP!Steps, Inv!Methods, InvP!Methods,
         Inv!Results, InvP!Results, Inv!Item, InvP!Item

LEMMA SameInit == Inv!Init <=> InvP!Init
  BY DEF Inv!Init, InvP!Init

LEMMA SameSize == \A S : Inv!Cardinality(S) = InvP!Cardinality(S)
  BY DEF Inv!Cardinality, InvP!Cardinality

LEMMA SameFinite ==
    /\ \A S : InvP!IsFiniteSet(S) <=> IsFiniteSet(S)
    /\ \A S : InvP!Cardinality(S) = Cardinality(S)
  BY DEF IsFiniteSet, InvP!IsFiniteSet, Cardinality, InvP!Cardinality

LEMMA SameBegin ==
    ASSUME NEW k, NEW m, NEW l, NEW r
    PROVE  Inv!Begin(k, m, l, r) <=> InvP!Begin(k, m, l, r)
  BY SameSize DEF Inv!Begin, InvP!Begin, Inv!Running, InvP!Running, Inv!table, InvP!table

LEMMA SameHandle ==
    ASSUME NEW k
    PROVE  Inv!Handle(k) <=> InvP!Handle(k)
  BY DEF Inv!Handle, InvP!Handle, Inv!ReserveCheck, InvP!ReserveCheck,
         Inv!ReserveWrite, InvP!ReserveWrite, Inv!Rollback, InvP!Rollback,
         Inv!ReleaseStep, InvP!ReleaseStep, Inv!ConfirmStep, InvP!ConfirmStep,
         Inv!Apply, InvP!Apply, Inv!Finish, InvP!Finish, Inv!DbFails, InvP!DbFails,
         Inv!Throw, InvP!Throw, Inv!Return, InvP!Return, Inv!More, InvP!More,
         Inv!Available, InvP!Available, Inv!ProductAt, InvP!ProductAt, Inv!QtyAt, InvP!QtyAt,
         Inv!Undoing, InvP!Undoing, Inv!table, InvP!table, Inv!history, InvP!history

-----------------------------------------------------------------------------
(* Types, in the presence of every fault.  A crash makes a handler start   *)
(* again with what it has reserved still in the table, so what Inventory   *)
(* proves of its handlers' progress is lost; InRange is not.               *)

Within == Inv!TypeOK /\ \A k \in Rpcs : InvP!InRange(k)

LEMMA WithinRequested ==
    ASSUME Within, NEW k \in Rpcs, Requested(k),
           list \in [Orders -> ItemLists], victim \in [Cancels -> Orders]
    PROVE  Within'
<1> DEFINE r == ReservationOf(k)
<1>1. r[1] \in Orders /\ r \in Rpcs /\ MethodOf(k) \in InvP!Methods
  BY DEF ReservationOf, MethodOf, Rpcs, InvP!Methods
<1>2. list[r[1]] \in Seq([productId : Products, quantity : Nat \ {0}])
  BY <1>1, CheckoutAssumption
<1>3. InvP!Begin(k, MethodOf(k), list[r[1]], r)
  BY SameBegin DEF Requested
<1>4. InvP!TypeOK'
  BY <1>1, <1>2, <1>3, InvP!TypeBegin, StockAssumed, SameTypes DEF Within, InvP!Item
<1>5. \A d \in Rpcs : InvP!InRange(d)'
  BY <1>3, SameTypes DEF Within, InvP!Begin, InvP!InRange, InvP!TypeOK
<1> QED
  BY <1>4, <1>5, SameTypes DEF Within

LEMMA WithinHandle ==
    ASSUME Within, NEW k \in Rpcs, Inv!Handle(k)
    PROVE  Within'
<1>1. InvP!Handle(k) /\ InvP!TypeOK /\ InvP!InRange(k)
  BY SameHandle, SameTypes DEF Within
<1>2. InvP!TypeOK'
  BY <1>1, InvP!TypeHandle, StockAssumed
<1>3. InvP!InRange(k)' /\ UNCHANGED items
      /\ \A d \in Rpcs : d # k => pc'[d] = pc[d] /\ idx'[d] = idx[d]
  BY <1>1, InvP!HandleFrame, StockAssumed
<1>4. \A d \in Rpcs : InvP!InRange(d)'
  BY <1>3 DEF Within, InvP!InRange
<1> QED
  BY <1>2, <1>4, SameTypes DEF Within

LEMMA WithinCrash ==
    ASSUME Within, StockCrash
    PROVE  Within'
<1>1. Inv!TypeOK'
  BY DEF Within, StockCrash, Inv!TypeOK, Inv!Steps
<1>2. \A k \in Rpcs : InvP!InRange(k)'
  BY DEF Within, StockCrash, InvP!InRange, Inv!TypeOK
<1> QED
  BY <1>1, <1>2 DEF Within

(* The rest of the state.                                                  *)
OrderTypes ==
    /\ promise \in [Rpcs -> Rpc!Promises] /\ runs \in [Rpcs -> Nat]
    /\ list \in [Orders -> ItemLists]
    /\ events \subseteq Requests
    /\ crashes \in 0 .. MaxCrashes

Correct == Typed /\ Within /\ OrderTypes

LEMMA PromiseTypes ==
    ASSUME promise \in [Rpcs -> Rpc!Promises], runs \in [Rpcs -> Nat], NEW k \in Rpcs,
           Rpc!Make(k) \/ Rpc!Execute(k) \/ Rpc!Resolve(k) \/ Rpc!Reject(k) \/ UNCHANGED rpc
    PROVE  promise' \in [Rpcs -> Rpc!Promises] /\ runs' \in [Rpcs -> Nat]
  BY DEF Rpc!Make, Rpc!Execute, Rpc!Resolve, Rpc!Reject, Rpc!Become, Rpc!Promises, rpc

LEMMA CallTypes ==
    ASSUME promise \in [Rpcs -> Rpc!Promises], runs \in [Rpcs -> Nat], NEW k \in Rpcs,
           Send(k) \/ Settled(k) \/ Local
    PROVE  promise' \in [Rpcs -> Rpc!Promises] /\ runs' \in [Rpcs -> Nat] /\ UNCHANGED inventory
  BY PromiseTypes DEF Send, Settled, Granted, Denied, Local, rpc

(* A step of a request makes one of its RPCs or takes its answer, or does  *)
(* neither, and publishes at most an event of its own.                     *)
Own(r) ==
    /\ \E k \in Rpcs : k[1] = r /\ (Send(k) \/ Settled(k) \/ Local)
    /\ UNCHANGED <<inputs, crashes>>
    /\ events' = events \/ events' = events \union {r}

LEMMA CreateOwns ==
    ASSUME NEW o \in Orders, CreateStep(o)
    PROVE  Own(o)
<1>1. /\ {<<o, "reserve">>, <<o, "confirm">>, <<o, "release">>, <<o, "undo">>} \subseteq Rpcs
      /\ <<o, "reserve">>[1] = o /\ <<o, "confirm">>[1] = o
      /\ <<o, "release">>[1] = o /\ <<o, "undo">>[1] = o
  BY DEF Rpcs
<1>2. CASE Create(o) \/ Reserved(o)
  BY <1>1, <1>2 DEF Create, Reserved, Settled, Go, Answer, Quiet, order, Own
<1>3. CASE CreateRow(o) \/ CompletePayment(o) \/ PublishCreated(o) \/ CreateThrows(o)
  BY <1>1, <1>3 DEF CreateRow, CompletePayment, PublishCreated, CreateThrows, Go, Answer, Quiet, order, Own
<1>4. CASE Pay(o)
  BY <1>1, <1>4 DEF Pay, Go, Own
<1>5. CASE Confirm(o) \/ Confirmed(o)
  BY <1>1, <1>5 DEF Confirm, Confirmed, Go, Quiet, order, Own
<1>6. CASE Released(o) \/ Undo(o) \/ Undone(o)
  BY <1>1, <1>6 DEF Released, Undo, Undone, Go, Answer, Quiet, order, Own
<1> QED
  BY <1>2, <1>3, <1>4, <1>5, <1>6 DEF CreateStep

LEMMA CancelOwns ==
    ASSUME NEW x \in Cancels, CancelStep(x)
    PROVE  Own(x)
<1>1. <<x, "release">> \in Rpcs /\ <<x, "release">>[1] = x
  BY DEF Rpcs
<1>2. CASE Cancel(x)
  BY <1>1, <1>2 DEF Cancel, Go, Answer, order, Own
<1>3. CASE CancelReleased(x) \/ MarkCancelled(x)
  BY <1>1, <1>3 DEF CancelReleased, MarkCancelled, Go, Answer, Quiet, order, Own
<1> QED
  BY <1>2, <1>3 DEF CancelStep

LEMMA OwnTypes ==
    ASSUME Correct, NEW r \in Requests, Own(r)
    PROVE  Within' /\ OrderTypes'
<1>1. PICK k \in Rpcs : k[1] = r /\ (Send(k) \/ Settled(k) \/ Local)
  BY DEF Own
<1>2. promise' \in [Rpcs -> Rpc!Promises] /\ runs' \in [Rpcs -> Nat] /\ UNCHANGED inventory
  BY <1>1, CallTypes DEF Correct, OrderTypes
<1>3. Within'
  BY <1>2 DEF Correct, Within, Inv!TypeOK, InvP!InRange, inventory
<1>4. events' \subseteq Requests /\ UNCHANGED <<list, crashes>>
  BY DEF Own, Correct, OrderTypes, inputs
<1> QED
  BY <1>2, <1>3, <1>4 DEF Correct, OrderTypes

LEMMA CorrectInit == Init => Correct
<1> SUFFICES ASSUME Init PROVE Correct
  OBVIOUS
<1>1. Typed
  BY Start DEF IInv
<1>2. Inv!TypeOK
  BY SameInit, SameTypes, InvP!TypeInit, StockAssumed DEF Init
<1>3. \A k \in Rpcs : InvP!InRange(k)
  BY DEF Init, Inv!Init, InvP!InRange
<1>4. OrderTypes
  BY CheckoutAssumption DEF Init, Rpc!Init, OrderTypes, Rpc!Promises
<1> QED
  BY <1>1, <1>2, <1>3, <1>4 DEF Correct, Within

LEMMA CorrectNext == Correct /\ Typed' /\ [Next]_vars => Correct'
<1> SUFFICES ASSUME Correct, Typed', [Next]_vars PROVE Within' /\ OrderTypes'
  BY DEF Correct
<1>1. ASSUME NEW r \in Requests, Own(r) PROVE Within' /\ OrderTypes'
  BY <1>1, OwnTypes
<1>2. ASSUME NEW k \in Rpcs, StockStep(k) PROVE Within' /\ OrderTypes'
  <2>1. Within'
    BY <1>2, WithinRequested, WithinHandle DEF StockStep, Correct, OrderTypes, Typed
  <2>2. promise' \in [Rpcs -> Rpc!Promises] /\ runs' \in [Rpcs -> Nat]
    BY <1>2, PromiseTypes DEF StockStep, Requested, Correct, OrderTypes
  <2>3. UNCHANGED <<list, events, crashes>>
    BY <1>2 DEF StockStep, inputs, order
  <2> QED
    BY <2>1, <2>2, <2>3 DEF Correct, OrderTypes
<1>3. CASE StockCrash \/ OrderCrash
  <2>1. Within'
    BY <1>3, WithinCrash
       DEF Correct, OrderCrash, inventory, Within, Inv!TypeOK, InvP!InRange
  <2>2. crashes' \in 0 .. MaxCrashes
    BY <1>3, CheckoutAssumption DEF StockCrash, OrderCrash, Crash, Correct, OrderTypes
  <2>3. promise' \in [Rpcs -> Rpc!Promises] /\ runs' \in [Rpcs -> Nat]
    BY <1>3 DEF StockCrash, OrderCrash, Correct, OrderTypes, Rpc!Abandon, Rpc!Promises, rpc
  <2>4. UNCHANGED <<list, events>>
    BY <1>3 DEF StockCrash, OrderCrash, inputs, order
  <2> QED
    BY <2>1, <2>2, <2>3, <2>4 DEF Correct, OrderTypes
<1>4. CASE UNCHANGED vars
  BY <1>4 DEF vars, order, inputs, rpc, inventory, Correct, OrderTypes, Within, Inv!TypeOK,
     InvP!InRange
<1> QED
  BY <1>1, <1>2, <1>3, <1>4, CreateOwns, CancelOwns DEF Next, Done, Requests

LEMMA AlwaysCorrect == Spec => [](IInv /\ Correct)
<1>1. Init => IInv /\ Correct
  BY Start, CorrectInit
<1>2. IInv /\ Correct /\ [Next]_vars => (IInv /\ Correct)'
  <2>1. IInv' => Typed'
    BY DEF IInv
  <2> QED
    BY <2>1, Invariance, CorrectNext
<1> QED
  BY <1>1, <1>2, PTL DEF Spec

(* Types of both services and of the RPCs between them, whatever fails:    *)
(* handlers that restart with part of their work done stay within their    *)
(* lists.                                                                  *)
THEOREM TypeCorrect == Spec => []TypeOK
<1>1. Correct => TypeOK
  BY DEF Correct, Typed, Within, OrderTypes, TypeOK, Rpc!Promises
<1> QED
  BY <1>1, AlwaysCorrect, PTL

-----------------------------------------------------------------------------
(* What the two services know of each other, whatever fails.               *)

(* A handler that has started works for an RPC that was made, on what that *)
(* RPC is about.                                                           *)
Bound(k) ==
    op[k] # "none" =>
        /\ promise[k] # "unmade" /\ op[k] = MethodOf(k) /\ target[k] = ReservationOf(k)
        /\ items[k] = list[ReservationOf(k)[1]]

(* A release or a confirm is asked for once the reservation was granted.   *)
Earned(k) == promise[k] # "unmade" /\ k[2] # "reserve" => Reserves(ReservationOf(k)[1])

(* An answer was given.                                                    *)
Heard(k) == promise[k] = "resolved" => pc[k] = "done"

Phase(k) ==
    /\ pc[k] # "idle" => op[k] # "none"
    /\ result[k] # "none" <=> pc[k] = "done"
    /\ pc[k] \in {"check", "write", "rollback"} \/ result[k] = "insufficient" => op[k] = "reserve"
    /\ pc[k] = "apply" => op[k] # "reserve"
    /\ crashes = 0 /\ pc[k] = "idle" => op[k] = "none"
    /\ runs[k] = 0 => op[k] = "none"

Answered(k) == promise[k] \in {"resolved", "rejected"}
Unmade(k)   == promise[k] = "unmade"

(* The RPCs a create has made, by where it stands and what it answered.    *)
Made(o) ==
    /\ at[o] \in {"new", "reserving", "creating", "paying", "completing", "confirming"} =>
          Unmade(<<o, "confirm">>)
    /\ at[o] \in {"new", "reserving", "creating", "paying", "completing", "confirming",
                  "settling", "publishing"} \/ reply[o] = "201" =>
          Unmade(<<o, "release">>) /\ Unmade(<<o, "undo">>)
    /\ at[o] \in {"new", "reserving", "creating", "paying"} => ~charged[o]
    /\ at[o] \in {"completing", "confirming", "settling"} => charged[o]
    /\ at[o] = "publishing" \/ reply[o] = "201" =>
          /\ Reserves(o)
          /\ IF charged[o] THEN Answered(<<o, "confirm">>) ELSE Unmade(<<o, "confirm">>)
    /\ reply[o] \in {"400", "500"} =>
          \/ Answered(<<o, "undo">>)
          \/ /\ Answered(Reservation(o))
             /\ promise[Reservation(o)] = "resolved" => result[Reservation(o)] # "success"

Known ==
    /\ \A k \in Rpcs : Bound(k) /\ Earned(k) /\ Heard(k) /\ Phase(k)
    /\ \A o \in Orders : Made(o)

(* What a request does to its RPC k.                                       *)
Calls(k) ==
    \/ promise' = promise
    \/ Unmade(k) /\ promise' = [promise EXCEPT ![k] = "pending"]
    \/ promise[k] = "pending" /\ pc[k] = "done" /\ promise' = [promise EXCEPT ![k] = "resolved"]
    \/ promise[k] = "pending" /\ promise' = [promise EXCEPT ![k] = "rejected"]

LEMMA CallMoves ==
    ASSUME NEW k \in Rpcs, Send(k) \/ Settled(k) \/ Local
    PROVE  Calls(k) /\ UNCHANGED inventory
  BY DEF Send, Settled, Granted, Denied, Local, rpc, Calls, Unmade,
         Rpc!Make, Rpc!Resolve, Rpc!Reject, Rpc!Become

(* The RPCs of an order, told apart.                                       *)
LEMMA OrderRpcs ==
    ASSUME NEW o \in Orders
    PROVE  /\ Reservation(o) = <<o, "reserve">>
           /\ {<<o, "reserve">>, <<o, "confirm">>, <<o, "release">>, <<o, "undo">>} \subseteq Rpcs
           /\ \A k \in Rpcs : k[1] = o <=>
                 k \in {<<o, "reserve">>, <<o, "confirm">>, <<o, "release">>, <<o, "undo">>}
           /\ \A k \in {<<o, "reserve">>, <<o, "confirm">>, <<o, "release">>, <<o, "undo">>} :
                 k[1] = o /\ ReservationOf(k) = Reservation(o)
  BY CheckoutAssumption DEF Rpcs, Reservation, ReservationOf

LEMMA MadeOwn ==
    ASSUME IInv, Correct, Known, NEW o \in Orders, CreateStep(o)
    PROVE  Made(o)'
<1> DEFINE R == <<o, "reserve">>
           C == <<o, "confirm">>
           L == <<o, "release">>
           U == <<o, "undo">>
<1>1. /\ R \in Rpcs /\ C \in Rpcs /\ L \in Rpcs /\ U \in Rpcs /\ Reservation(o) = R
      /\ R # C /\ R # L /\ R # U /\ C # L /\ C # U /\ L # U
  BY OrderRpcs
<1>2. /\ at \in [Requests -> Positions] /\ o \in Requests /\ promise \in [Rpcs -> Rpc!Promises]
      /\ reply \in [Requests -> {"none", "200", "201", "400", "404", "500"}]
      /\ charged \in [Orders -> BOOLEAN]
  BY DEF Correct, Typed, OrderTypes, Requests
<1>3. Made(o) /\ Told(o) /\ Placed(o)
  BY DEF Known, IInv
<1> HIDE DEF R, C, L, U
<1> USE <1>1, <1>2, <1>3
<1>4. pc' = pc /\ result' = result
  BY CreateFrame DEF Correct, OnlyOf
<1>5. Reserves(o)' = Reserves(o) /\ result[Reservation(o)]' = result[Reservation(o)]
  BY <1>4 DEF Reserves, Reservation
<1>6. CASE Create(o)
  <2>1. /\ at[o] = "new" /\ at' = [at EXCEPT ![o] = "reserving"] /\ UNCHANGED <<reply, charged>>
        /\ promise' = [promise EXCEPT ![R] = "pending"]
    BY <1>6 DEF Create, Go, Quiet, order, Send, Rpc!Make, Rpc!Become, R
  <2> QED
    BY <2>1 DEF Made, Told, Unmade, C, L, U
<1>7. CASE Reserved(o)
  <2>1. /\ at[o] = "reserving" /\ charged' = charged
        /\ \/ at' = [at EXCEPT ![o] = "creating"] /\ reply' = reply /\ result[R] = "success"
           \/ at' = [at EXCEPT ![o] = "answered"] /\ reply' = [reply EXCEPT ![o] = "400"]
    BY <1>7 DEF Reserved, Granted, Go, Answer, order, R
  <2>2. \/ promise' = [promise EXCEPT ![R] = "resolved"]
        \/ promise' = [promise EXCEPT ![R] = "rejected"]
    BY <1>7 DEF Reserved, Granted, Denied, Rpc!Resolve, Rpc!Reject, Rpc!Become, R
  <2>3. reply'[o] = "400" /\ promise'[R] = "resolved" => result[R] # "success"
    <3>1. CASE reply' = reply
      BY <2>1, <3>1 DEF Told
    <3>2. CASE Denied(R)
      BY <3>2 DEF Denied, Rpc!Reject, Rpc!Become
    <3> QED
      BY <1>7, <3>1, <3>2 DEF Reserved, R
  <2> QED
    BY <1>5, <2>1, <2>2, <2>3 DEF Made, Told, Unmade, Answered, C, L, U
<1>8. CASE CreateRow(o)
  <2>1. /\ at[o] = "creating" /\ UNCHANGED <<reply, charged, promise>>
        /\ \/ at' = [at EXCEPT ![o] = "paying"]
           \/ at' = [at EXCEPT ![o] = "publishing"]
    BY <1>8 DEF CreateRow, Go, Local, rpc
  <2> QED
    BY <1>5, <2>1 DEF Made, Told, Placed, Unmade, C, L, U
<1>9. CASE Pay(o)
  <2>1. /\ at[o] = "paying" /\ reply' = reply
        /\ \/ /\ at' = [at EXCEPT ![o] = "completing"] /\ promise' = promise
              /\ charged' = [charged EXCEPT ![o] = TRUE]
           \/ /\ at' = [at EXCEPT ![o] = "releasing"]
              /\ promise' = [promise EXCEPT ![L] = "pending"]
    <3>1. CASE at' = [at EXCEPT ![o] = "completing"] /\ charged' = [charged EXCEPT ![o] = TRUE]
      BY <1>9, <3>1 DEF Pay, Go, Local, rpc
    <3>2. CASE at' = [at EXCEPT ![o] = "releasing"]
      BY <1>9, <3>2 DEF Pay, Go, Send, Rpc!Make, Rpc!Become, L
    <3> QED
      BY <1>9, <3>1, <3>2 DEF Pay, Go
  <2> QED
    BY <1>5, <2>1 DEF Made, Told, Unmade, C, L, U
<1>10. CASE CompletePayment(o)
  <2>1. /\ at[o] = "completing" /\ at' = [at EXCEPT ![o] = "confirming"]
        /\ UNCHANGED <<reply, charged, promise>>
    BY <1>10 DEF CompletePayment, Go, Local, rpc
  <2> QED
    BY <2>1 DEF Made, Told, Unmade, C, L, U
<1>11. CASE Confirm(o)
  <2>1. /\ at[o] = "confirming" /\ at' = [at EXCEPT ![o] = "settling"]
        /\ UNCHANGED <<reply, charged>> /\ promise' = [promise EXCEPT ![C] = "pending"]
    BY <1>11 DEF Confirm, Go, Send, Rpc!Make, Rpc!Become, C
  <2> QED
    BY <2>1 DEF Made, Told, Unmade, C, L, U
<1>12. CASE Confirmed(o)
  <2>1. /\ at[o] = "settling" /\ at' = [at EXCEPT ![o] = "publishing"]
        /\ UNCHANGED <<reply, charged>>
        /\ \/ promise' = [promise EXCEPT ![C] = "resolved"]
           \/ promise' = [promise EXCEPT ![C] = "rejected"]
    BY <1>12 DEF Confirmed, Go, Quiet, order, Settled, Granted, Denied, Rpc!Resolve, Rpc!Reject,
                 Rpc!Become, C
  <2> QED
    BY <1>5, <2>1 DEF Made, Told, Placed, Unmade, Answered, C, L, U
<1>13. CASE Released(o) \/ CreateThrows(o) \/ Undo(o)
  <2>1. /\ at[o] \in {"releasing", "creating", "completing", "confirming", "caught"}
        /\ \E to \in {"caught", "undoing"} : at' = [at EXCEPT ![o] = to]
        /\ UNCHANGED <<reply, charged>>
    BY <1>13 DEF Released, CreateThrows, Undo, Go, Quiet, order
  <2> QED
    BY <2>1 DEF Made, Told
<1>14. CASE Undone(o)
  <2>1. /\ at[o] = "undoing" /\ at' = [at EXCEPT ![o] = "answered"]
        /\ \E c \in {"400", "500"} : reply' = [reply EXCEPT ![o] = c]
        /\ \/ promise' = [promise EXCEPT ![U] = "resolved"]
           \/ promise' = [promise EXCEPT ![U] = "rejected"]
    BY <1>14 DEF Undone, Go, Answer, Settled, Granted, Denied, Rpc!Resolve, Rpc!Reject, Rpc!Become, U
  <2> QED
    BY <2>1 DEF Made, Answered, U
<1>15. CASE PublishCreated(o)
  <2>1. /\ at[o] = "publishing" /\ at' = [at EXCEPT ![o] = "answered"]
        /\ reply' = [reply EXCEPT ![o] = "201"] /\ UNCHANGED <<charged, promise>>
    BY <1>15 DEF PublishCreated, Go, Answer, Local, rpc
  <2> QED
    BY <1>5, <2>1 DEF Made, Unmade, Answered, C, L, U
<1> QED
  BY <1>6, <1>7, <1>8, <1>9, <1>10, <1>11, <1>12, <1>13, <1>14, <1>15 DEF CreateStep

(* A create asks for nothing but its reservation before it has it, and a   *)
(* cancel only for what an order that exists has reserved.                 *)
LEMMA CreateEarns ==
    ASSUME IInv, Correct, NEW o \in Orders, CreateStep(o), NEW k \in Rpcs, k[2] # "reserve"
    PROVE  promise'[k] = promise[k] \/ (k[1] = o /\ Reserves(o))
<1>1. promise \in [Rpcs -> Rpc!Promises] /\ k # <<o, "reserve">> /\ at \in [Requests -> Positions]
      /\ o \in Requests
  BY DEF Correct, OrderTypes, Typed, Requests
<1>2. CASE Create(o) \/ Reserved(o)
  <2>1. Calls(<<o, "reserve">>)
    BY <1>2, CallMoves, OrderRpcs DEF Create, Reserved, Settled
  <2> QED
    BY <1>1, <2>1 DEF Calls
<1>3. CASE ~(Create(o) \/ Reserved(o))
  <2>1. at[o] \notin {"new", "reserving", "answered", "crashed"}
    BY <1>3 DEF CreateStep, CreateRow, Pay, CompletePayment, Confirm, Confirmed, Released,
       PublishCreated, CreateThrows, Undo, Undone, Go, Answer
  <2>2. Reserves(o)
    BY <2>1 DEF IInv, Placed
  <2>3. PICK j \in Rpcs : j[1] = o /\ (Send(j) \/ Settled(j) \/ Local)
    BY CreateOwns DEF Own
  <2>4. promise'[k] = promise[k] \/ k = j
    BY <1>1, <2>3, CallMoves DEF Calls
  <2> QED
    BY <2>2, <2>3, <2>4
<1> QED
  BY <1>2, <1>3

LEMMA CancelEarns ==
    ASSUME IInv, Correct, NEW x \in Cancels, CancelStep(x), NEW k \in Rpcs
    PROVE  \/ promise'[k] = promise[k] \/ ~Unmade(k)
           \/ k[1] = x /\ Reserves(victim[x])
<1>1. promise \in [Rpcs -> Rpc!Promises] /\ victim[x] \in Orders
  BY DEF Correct, OrderTypes, Typed
<1>2. PICK j \in Rpcs : j[1] = x /\ (Send(j) \/ Settled(j) \/ Local)
  BY CancelOwns DEF Own
<1>3. promise'[k] = promise[k] \/ k = j
  BY <1>1, <1>2, CallMoves DEF Calls
<1>4. CASE Cancel(x)
  <2>1. Local \/ status[victim[x]] # "absent"
    BY <1>4 DEF Cancel, Cancellable
  <2>2. Reserves(victim[x]) \/ promise' = promise
    BY <1>1, <2>1 DEF IInv, Placed, Local, rpc
  <2> QED
    BY <1>2, <1>3, <2>2
<1>5. CASE CancelReleased(x)
  <2>1. promise[<<x, "release">>] = "pending" /\ <<x, "release">> \in Rpcs
        /\ \E v \in Rpc!Promises : promise' = [promise EXCEPT ![<<x, "release">>] = v]
    BY <1>5 DEF CancelReleased, Settled, Granted, Denied, Rpc!Resolve, Rpc!Reject, Rpc!Become,
       Rpc!Promises, Rpcs
  <2> QED
    BY <1>1, <2>1 DEF Unmade
<1>6. CASE MarkCancelled(x)
  BY <1>6 DEF MarkCancelled, Local, rpc
<1> QED
  BY <1>4, <1>5, <1>6 DEF CancelStep

(* So a step of a request keeps what is known.                             *)
LEMMA KnownOwn ==
    ASSUME IInv, Correct, Known, NEW r \in Requests,
           (r \in Orders /\ CreateStep(r)) \/ (r \in Cancels /\ CancelStep(r))
    PROVE  Known'
<1>1. Own(r) /\ (r \in Orders \/ r \in Cancels) /\ Orders \intersect Cancels = {}
  BY CreateOwns, CancelOwns, CheckoutAssumption
<1>2. PICK j \in Rpcs : j[1] = r /\ (Send(j) \/ Settled(j) \/ Local)
  BY <1>1 DEF Own
<1>3. Calls(j) /\ UNCHANGED inventory /\ UNCHANGED inputs /\ crashes' = crashes
  BY <1>1, <1>2, CallMoves DEF Own
<1>4. promise \in [Rpcs -> Rpc!Promises]
  BY DEF Correct, OrderTypes
<1>5. UNCHANGED <<op, target, items, list, victim, pc, result, runs>>
  BY <1>2, <1>3 DEF inventory, inputs, Send, Settled, Granted, Denied, Local, rpc,
     Rpc!Make, Rpc!Resolve, Rpc!Reject, Rpc!Become
<1>6. \A k \in Rpcs : k # j => promise'[k] = promise[k]
  BY <1>3, <1>4 DEF Calls
<1>7. ASSUME NEW k \in Rpcs PROVE Bound(k)' /\ Earned(k)' /\ Heard(k)' /\ Phase(k)'
  <2>1. Bound(k) /\ Earned(k) /\ Heard(k) /\ Phase(k)
    BY DEF Known
  <2>2. ReservationOf(k)' = ReservationOf(k)
    BY <1>5 DEF ReservationOf
  <2>3. promise[k] # "unmade" => promise'[k] # "unmade"
    BY <1>3, <1>4 DEF Calls
  <2>4. Bound(k)'
    BY <1>5, <2>1, <2>2, <2>3 DEF Bound, MethodOf
  <2>5. \A o : Reserves(o)' = Reserves(o)
    BY <1>5 DEF Reserves
  <2>6. Earned(k)'
    <3>1. CASE r \in Orders /\ CreateStep(r)
      <4>1. k[2] # "reserve" => promise'[k] = promise[k] \/ (k[1] = r /\ Reserves(r))
        BY <3>1, CreateEarns
      <4>2. k[1] = r => ReservationOf(k)[1] = r
        BY <3>1 DEF ReservationOf
      <4> QED
        BY <2>1, <2>2, <2>5, <4>1, <4>2 DEF Earned
    <3>2. CASE r \in Cancels /\ CancelStep(r)
      <4>1. promise'[k] = promise[k] \/ ~Unmade(k) \/ (k[1] = r /\ Reserves(victim[r]))
        BY <3>2, CancelEarns
      <4>2. k[1] = r => ReservationOf(k)[1] = victim[r]
        BY <1>1, <3>2 DEF ReservationOf
      <4> QED
        BY <2>1, <2>2, <2>5, <4>1, <4>2 DEF Earned, Unmade
    <3> QED
      BY <3>1, <3>2
  <2>7. Heard(k)'
    BY <1>3, <1>4, <1>5, <2>1 DEF Heard, Calls
  <2>8. Phase(k)'
    BY <1>3, <1>5, <2>1 DEF Phase
  <2> QED
    BY <2>4, <2>6, <2>7, <2>8
<1>8. ASSUME NEW o \in Orders PROVE Made(o)'
  <2>1. CASE o = r
    BY <1>1, <2>1, MadeOwn
  <2>2. CASE o # r
    <3>1. at'[o] = at[o] /\ reply'[o] = reply[o] /\ charged'[o] = charged[o]
      <4>1. CASE r \in Orders /\ CreateStep(r)
        BY <2>2, <4>1, CreateFrame DEF OnlyOf, Correct, Typed, Requests
      <4>2. CASE r \in Cancels /\ CancelStep(r)
        BY <2>2, <4>2, CancelFrame DEF Correct, Typed, Requests
      <4> QED
        BY <4>1, <4>2
    <3>2. \A m \in {"reserve", "confirm", "release", "undo"} : promise'[<<o, m>>] = promise[<<o, m>>]
      <4> SUFFICES ASSUME NEW m \in {"reserve", "confirm", "release", "undo"}
                   PROVE  promise'[<<o, m>>] = promise[<<o, m>>]
        OBVIOUS
      <4>1. <<o, m>> \in Rpcs /\ <<o, m>>[1] = o
        BY DEF Rpcs
      <4> QED
        BY <1>2, <1>6, <2>2, <4>1
    <3>3. Reserves(o)' = Reserves(o) /\ result' = result
      BY <1>5 DEF Reserves
    <3> QED
      BY <3>1, <3>2, <3>3 DEF Known, Made, Unmade, Answered, Reservation
  <2> QED
    BY <2>1, <2>2
<1> QED
  BY <1>7, <1>8 DEF Known

(* The inventory service's steps: a handler that has returned is left      *)
(* alone, and what one does is of its own phase.                           *)
LEMMA DoneStays ==
    ASSUME Correct, NEW j \in Rpcs, StockStep(j), NEW k \in Rpcs, pc[k] = "done"
    PROVE  pc'[k] = "done" /\ result'[k] = result[k]
<1>1. CASE Requested(j)
  BY <1>1 DEF Requested, Inv!Begin, Correct, Typed
<1>2. CASE Inv!Handle(j)
  <2>1. InvP!Handle(j) /\ InvP!TypeOK /\ InvP!InRange(j)
    BY <1>2, SameHandle, SameTypes DEF Correct, Within
  <2>2. InvP!Running(j) /\ \A d \in Rpcs : d # j => pc'[d] = pc[d] /\ result'[d] = result[d]
    BY <2>1, InvP!HandleFrame, StockAssumed
  <2> QED
    BY <2>2 DEF InvP!Running
<1> QED
  BY <1>1, <1>2 DEF StockStep

LEMMA PhaseHandle ==
    ASSUME Correct, NEW j \in Rpcs, Inv!Handle(j), runs' = runs, Phase(j)
    PROVE  Phase(j)'
<1>1. InvP!Handle(j) /\ InvP!TypeOK /\ InvP!InRange(j) /\ Inv!TypeOK
  BY SameHandle, SameTypes DEF Correct, Within
<1>2. InvP!Running(j) /\ op' = op
  BY <1>1, InvP!HandleFrame, StockAssumed
<1>3. pc \in [Rpcs -> Inv!Steps] /\ result \in [Rpcs -> Inv!Results]
  BY DEF Correct, Typed
<1>4. op[j] # "none" /\ pc[j] # "idle" /\ pc[j] # "done" /\ result[j] = "none"
  BY <1>2 DEF Phase, InvP!Running
<1>5. CASE pc[j] = "apply"
  BY <1>1, <1>2, <1>3, <1>4, <1>5, InvP!SettleEffect, StockAssumed DEF Phase, InvP!Returns
<1>6. CASE pc[j] # "apply"
  <2>1. op[j] = "reserve"
    BY <1>3, <1>4, <1>6 DEF Phase, Inv!Steps
  <2>2. \/ result' = result /\ \E s \in {"write", "rollback", "check"} : pc' = [pc EXCEPT ![j] = s]
        \/ result' = result /\ pc' = pc
        \/ \E v \in {"success", "insufficient", "error"} :
              pc' = [pc EXCEPT ![j] = "done"] /\ result' = [result EXCEPT ![j] = v]
    BY <1>1, <1>6, InvP!ReserveEffect, StockAssumed DEF InvP!Returns
  <2> QED
    BY <1>2, <1>3, <1>4, <1>6, <2>1, <2>2 DEF Phase
<1> QED
  BY <1>5, <1>6

LEMMA KnownStock ==
    ASSUME Correct, Known, NEW j \in Rpcs, StockStep(j)
    PROVE  Known'
<1>1. UNCHANGED <<promise, at, reply, charged, list, victim, crashes>>
  BY DEF StockStep, Requested, Rpc!Execute, rpc, order, inputs
<1>2. \A k \in Rpcs : pc[k] = "done" => pc'[k] = "done" /\ result'[k] = result[k]
  BY DoneStays
<1>3. \A k : ReservationOf(k)' = ReservationOf(k)
  BY <1>1 DEF ReservationOf
<1>4. \A o \in Orders : Reserves(o) => Reserves(o)'
  BY <1>2, Reservations DEF Reserves
<1>5. \A k \in Rpcs : ReservationOf(k)[1] \in Orders
  BY DEF ReservationOf, Rpcs, Correct, Typed
<1>6. pc \in [Rpcs -> Inv!Steps] /\ result \in [Rpcs -> Inv!Results] /\ Inv!TypeOK
  BY DEF Correct, Typed, Within
<1>7. /\ \A k \in Rpcs : k # j => op'[k] = op[k] /\ items'[k] = items[k] /\ target'[k] = target[k]
                                  /\ pc'[k] = pc[k] /\ result'[k] = result[k] /\ runs'[k] = runs[k]
      /\ Bound(j)' /\ Phase(j)'
  <2>1. CASE Requested(j)
    <3>1. /\ promise[j] # "unmade" /\ pc[j] = "idle" /\ result' = result
          /\ pc' = [pc EXCEPT ![j] = IF MethodOf(j) = "reserve" THEN "check" ELSE "apply"]
          /\ op' = [op EXCEPT ![j] = MethodOf(j)]
          /\ items' = [items EXCEPT ![j] = list[ReservationOf(j)[1]]]
          /\ target' = [target EXCEPT ![j] = ReservationOf(j)]
      BY <2>1 DEF Requested, Rpc!Execute, Inv!Begin
    <3>2. MethodOf(j) \in {"reserve", "confirm", "release"}
      BY DEF MethodOf, Rpcs
    <3>3. result[j] = "none"
      BY <3>1 DEF Known, Phase
    <3>4. Bound(j)'
      BY <1>1, <1>3, <1>6, <3>1 DEF Bound, MethodOf, Inv!TypeOK
    <3>5. op'[j] = MethodOf(j) /\ result'[j] = "none"
          /\ pc'[j] = IF MethodOf(j) = "reserve" THEN "check" ELSE "apply"
      BY <1>6, <3>1, <3>3 DEF Inv!TypeOK
    <3>6. runs' = [runs EXCEPT ![j] = @ + 1] /\ runs \in [Rpcs -> Nat]
      BY <2>1 DEF Requested, Rpc!Execute, Correct, OrderTypes
    <3>7. Phase(j)'
      BY <3>2, <3>5, <3>6 DEF Phase
    <3> QED
      BY <1>6, <3>1, <3>4, <3>6, <3>7 DEF Inv!TypeOK
  <2>2. CASE Inv!Handle(j) /\ runs' = runs
    <3>1. InvP!Handle(j) /\ InvP!TypeOK /\ InvP!InRange(j)
      BY <2>2, SameHandle, SameTypes DEF Correct, Within
    <3>2. UNCHANGED <<op, items, target>> /\
          \A d \in Rpcs : d # j => pc'[d] = pc[d] /\ result'[d] = result[d]
      BY <3>1, InvP!HandleFrame, StockAssumed
    <3>3. Phase(j)'
      BY <2>2, PhaseHandle DEF Known
    <3>4. Bound(j)'
      BY <1>1, <1>3, <3>2 DEF Known, Bound, MethodOf
    <3> QED
      BY <2>2, <3>2, <3>3, <3>4
  <2> QED
    BY <2>1, <2>2 DEF StockStep, rpc
<1>8. ASSUME NEW k \in Rpcs PROVE Bound(k)' /\ Earned(k)' /\ Heard(k)' /\ Phase(k)'
  <2>1. Bound(k)'
    BY <1>1, <1>3, <1>7 DEF Known, Bound, MethodOf
  <2>2. Phase(k)'
    BY <1>1, <1>7 DEF Known, Phase
  <2>3. Earned(k)' /\ Heard(k)'
    BY <1>1, <1>2, <1>3, <1>4, <1>5 DEF Known, Earned, Heard
  <2> QED
    BY <2>1, <2>2, <2>3
<1>9. ASSUME NEW o \in Orders PROVE Made(o)'
  <2>1. promise[Reservation(o)] = "resolved" => result'[Reservation(o)] = result[Reservation(o)]
    BY <1>2, Reservations DEF Known, Heard
  <2> QED
    BY <1>1, <1>4, <2>1 DEF Known, Made, Unmade, Answered, Reservation
<1> QED
  BY <1>8, <1>9 DEF Known

LEMMA KnownCrash ==
    ASSUME IInv, Correct, Known, StockCrash \/ OrderCrash
    PROVE  Known'
<1>1. /\ UNCHANGED <<op, items, target, list, victim, result, reply, charged, runs>>
      /\ crashes' = crashes + 1 /\ crashes \in Nat
  BY CheckoutAssumption
     DEF StockCrash, OrderCrash, Crash, inventory, inputs, order, rpc, Rpc!Abandon,
         Correct, OrderTypes
<1>2. \A k : ReservationOf(k)' = ReservationOf(k)
  BY <1>1 DEF ReservationOf
<1>3. /\ pc \in [Rpcs -> Inv!Steps] /\ promise \in [Rpcs -> Rpc!Promises]
      /\ at \in [Requests -> Positions]
  BY DEF Correct, Typed, OrderTypes
<1>4. \A k \in Rpcs : pc'[k] = pc[k] \/ (pc[k] \notin {"idle", "done"} /\ pc'[k] = "idle")
  BY <1>3 DEF StockCrash, OrderCrash, inventory, Inv!Running
<1>5. \A k \in Rpcs : promise'[k] = promise[k] \/ (promise[k] = "pending" /\ promise'[k] = "lost")
  BY <1>3 DEF StockCrash, OrderCrash, rpc, Rpc!Abandon
<1>6. \A o \in Orders : at'[o] = at[o] \/ (at'[o] = "crashed" /\ at[o] # "answered")
  BY <1>3 DEF StockCrash, OrderCrash, Requests
<1>7. \A o \in Orders : Reserves(o) => Reserves(o)'
  BY <1>1, <1>4, Reservations DEF Reserves
<1>8. \A k \in Rpcs : ReservationOf(k)[1] \in Orders
  BY DEF ReservationOf, Rpcs, Correct, Typed
<1>9. ASSUME NEW k \in Rpcs PROVE Bound(k)' /\ Earned(k)' /\ Heard(k)' /\ Phase(k)'
  <2>1. Bound(k)'
    BY <1>1, <1>2, <1>5 DEF Known, Bound, MethodOf
  <2>2. Earned(k)'
    BY <1>2, <1>5, <1>7, <1>8 DEF Known, Earned
  <2>3. Heard(k)'
    BY <1>4, <1>5 DEF Known, Heard
  <2>4. Phase(k)'
    BY <1>1, <1>4 DEF Known, Phase
  <2> QED
    BY <2>1, <2>2, <2>3, <2>4
<1>10. ASSUME NEW o \in Orders PROVE Made(o)'
  <2>1. \A k \in Rpcs : (Unmade(k) => Unmade(k)') /\ (Answered(k) => Answered(k)')
    BY <1>5 DEF Unmade, Answered
  <2>2. {<<o, "reserve">>, <<o, "confirm">>, <<o, "release">>, <<o, "undo">>} \subseteq Rpcs
        /\ Reservation(o) = <<o, "reserve">>
    BY OrderRpcs
  <2>3. promise'[Reservation(o)] = "resolved" => promise[Reservation(o)] = "resolved"
    BY <1>5, <2>2
  <2>4. Made(o) /\ Told(o)
    BY DEF Known, IInv
  <2>5. Reservation(o)' = Reservation(o)
    BY DEF Reservation
  <2> HIDE DEF Unmade, Answered
  <2> QED
    BY <1>1, <1>6, <1>7, <2>1, <2>2, <2>3, <2>4, <2>5 DEF Made, Told
<1> QED
  BY <1>9, <1>10 DEF Known

LEMMA KnownInit == Init => Known
<1> SUFFICES ASSUME Init PROVE Known
  OBVIOUS
<1>1. /\ \A k \in Rpcs : promise[k] = "unmade" /\ op[k] = "none" /\ pc[k] = "idle" /\ result[k] = "none"
      /\ \A o \in Orders : at[o] = "new" /\ reply[o] = "none" /\ charged[o] = FALSE
  BY DEF Init, Inv!Init, Rpc!Init, Requests
<1> QED
  BY <1>1, OrderRpcs DEF Known, Bound, Earned, Heard, Phase, Made, Unmade

LEMMA KnownNext == IInv /\ Correct /\ Known /\ [Next]_vars => Known'
<1> SUFFICES ASSUME IInv, Correct, Known, [Next]_vars PROVE Known'
  OBVIOUS
<1>1. CASE UNCHANGED vars
  <2>1. UNCHANGED <<promise, runs, at, reply, charged, list, victim, crashes, op, items, target, pc, result>>
    BY <1>1 DEF vars, order, inputs, rpc, inventory
  <2> QED
    BY <2>1 DEF Known, Bound, Earned, Heard, Phase, Made, Unmade, Answered, Reserves,
       ReservationOf, MethodOf, Reservation
<1>2. ASSUME NEW j \in Rpcs, StockStep(j) PROVE Known'
  BY <1>2, KnownStock
<1>3. CASE StockCrash \/ OrderCrash
  BY <1>3, KnownCrash
<1>4. ASSUME NEW o \in Orders, CreateStep(o) PROVE Known'
  BY <1>4, KnownOwn DEF Requests
<1>5. ASSUME NEW x \in Cancels, CancelStep(x) PROVE Known'
  BY <1>5, KnownOwn DEF Requests
<1> QED
  BY <1>1, <1>2, <1>3, <1>4, <1>5 DEF Next, Done

LEMMA AlwaysKnown == Spec => [](IInv /\ Correct /\ Known)
<1>1. Init => Known
  BY KnownInit
<1>2. IInv /\ Correct /\ Known /\ [Next]_vars => Known'
  BY KnownNext
<1> QED
  BY <1>1, <1>2, AlwaysCorrect, PTL DEF Spec

-----------------------------------------------------------------------------
(* The stock table as a whole.                                             *)

LEMMA RunTypes ==
    ASSUME Correct, [Next]_vars
    PROVE  runs' \in [Rpcs -> Nat]
<1>1. promise \in [Rpcs -> Rpc!Promises] /\ runs \in [Rpcs -> Nat]
  BY DEF Correct, OrderTypes
<1>2. CASE UNCHANGED vars
  BY <1>1, <1>2 DEF vars, rpc
<1>3. ASSUME NEW r \in Requests, Own(r) PROVE runs' \in [Rpcs -> Nat]
  BY <1>1, <1>3, CallTypes DEF Own
<1>4. ASSUME NEW j \in Rpcs, StockStep(j) PROVE runs' \in [Rpcs -> Nat]
  BY <1>1, <1>4, PromiseTypes DEF StockStep, Requested
<1>5. CASE StockCrash \/ OrderCrash
  BY <1>1, <1>5 DEF StockCrash, OrderCrash, rpc, Rpc!Abandon
<1> QED
  BY <1>2, <1>3, <1>4, <1>5, CreateOwns, CancelOwns DEF Next, Done, Requests

(* What cannot be undone.                                                  *)
Onward ==
    /\ crashes' = 0 => crashes = 0
    /\ UNCHANGED inputs
    /\ \A k \in Rpcs :
          /\ ~Unmade(k) => ~Unmade(k)'
          /\ promise[k] = "rejected" => promise'[k] = "rejected"
          /\ result[k] = "error" => result'[k] = "error"
          /\ runs[k] <= runs'[k]

LEMMA OnwardNext == Correct /\ Known /\ [Next]_vars => Onward
<1> SUFFICES ASSUME Correct, Known, [Next]_vars PROVE Onward
  OBVIOUS
<1>0. crashes \in Nat /\ promise \in [Rpcs -> Rpc!Promises] /\ runs \in [Rpcs -> Nat]
  BY CheckoutAssumption DEF Correct, OrderTypes
<1>1. CASE UNCHANGED vars
  BY <1>0, <1>1 DEF vars, inputs, rpc, inventory, Onward, Unmade
<1>2. ASSUME NEW r \in Requests, Own(r) PROVE Onward
  <2>1. PICK k \in Rpcs : k[1] = r /\ (Send(k) \/ Settled(k) \/ Local)
    BY <1>2 DEF Own
  <2>2. Calls(k) /\ UNCHANGED <<crashes, inputs, result>>
    BY <1>2, <2>1, CallMoves DEF Own, inventory
  <2>3. runs' = runs
    BY <2>1 DEF Send, Settled, Granted, Denied, Local, rpc, Rpc!Make, Rpc!Resolve, Rpc!Reject, Rpc!Become
  <2> QED
    BY <1>0, <2>2, <2>3 DEF Calls, Onward, Unmade
<1>3. ASSUME NEW j \in Rpcs, StockStep(j) PROVE Onward
  <2>1. UNCHANGED <<crashes, inputs, promise>>
    BY <1>3 DEF StockStep, Requested, Rpc!Execute, rpc
  <2>2. \A k \in Rpcs : result[k] = "error" => result'[k] = "error"
    BY <1>3, DoneStays DEF Known, Phase
  <2>3. \A k \in Rpcs : runs[k] <= runs'[k]
    BY <1>0, <1>3 DEF StockStep, Requested, Rpc!Execute, rpc
  <2> QED
    BY <2>1, <2>2, <2>3 DEF Onward, Unmade
<1>4. CASE StockCrash \/ OrderCrash
  <2>1. crashes' = crashes + 1 /\ UNCHANGED <<inputs, result, runs>>
    BY <1>4 DEF StockCrash, OrderCrash, Crash, inventory, rpc, Rpc!Abandon
  <2>2. \A k \in Rpcs : promise'[k] = promise[k] \/ (promise[k] = "pending" /\ promise'[k] = "lost")
    BY <1>0, <1>4 DEF StockCrash, OrderCrash, rpc, Rpc!Abandon
  <2> QED
    BY <1>0, <2>1, <2>2 DEF Onward, Unmade
<1> QED
  BY <1>1, <1>2, <1>3, <1>4, CreateOwns, CancelOwns DEF Next, Done, Requests

Orderly == crashes = 0 /\ SettledOnce

(* A handler that starts for a release or a confirm starts on a            *)
(* reservation that is granted and that no other has settled.              *)
LEMMA SettlesUnsettled ==
    ASSUME Correct, Known, Orderly, NEW k \in Rpcs, k[2] # "reserve", promise[k] # "unmade",
           pc[k] = "idle"
    PROVE  /\ ReservationOf(k) \in Rpcs /\ InvP!Unsettled(ReservationOf(k))
           /\ items[ReservationOf(k)] = list[ReservationOf(k)[1]]
<1> DEFINE r == ReservationOf(k)
<1>1. r \in Rpcs /\ r[1] \in Orders /\ r[2] = "reserve" /\ ReservationOf(r) = r /\ MethodOf(r) = "reserve"
      /\ r = Reservation(r[1])
  BY DEF ReservationOf, MethodOf, Reservation, Rpcs, Correct, Typed
<1>2. pc[r] = "done" /\ result[r] = "success"
  BY <1>1 DEF Known, Earned, Reserves
<1>3. op[r] = "reserve" /\ items[r] = list[r[1]]
  BY <1>1, <1>2 DEF Known, Phase, Bound
<1>4. op[k] = "none"
  BY DEF Known, Phase, Orderly
<1>5. Settles(k)
  BY DEF Settles, MethodOf, Rpcs
<1>6. ASSUME NEW d \in Rpcs, op[d] \in {"release", "confirm"}, target[d] = r PROVE FALSE
  <2>1. promise[d] # "unmade" /\ op[d] = MethodOf(d) /\ ReservationOf(d) = r
    BY <1>6 DEF Known, Bound
  <2>2. d = k
    BY <1>5, <1>6, <2>1 DEF Settles, Orderly, SettledOnce
  <2> QED
    BY <1>4, <1>6, <2>2
<1> QED
  BY <1>1, <1>2, <1>3, <1>6 DEF InvP!Unsettled

(* So the order service lives up to what the inventory service expects of  *)
(* its callers.                                                            *)
LEMMA WithinContract ==
    ASSUME Correct, Known, Orderly, [Next]_vars, crashes' = 0
    PROVE  InvP!Next \/ UNCHANGED InvP!vars
<1>1. CASE UNCHANGED inventory
  BY <1>1 DEF inventory, InvP!vars, InvP!table, InvP!locals, InvP!history
<1>2. ASSUME NEW r \in Requests, Own(r) PROVE UNCHANGED inventory
  BY <1>2, CallMoves DEF Own
<1>3. ASSUME NEW k \in Rpcs, Inv!Handle(k) PROVE InvP!Next
  BY <1>3, SameHandle DEF InvP!Next
<1>4. ASSUME NEW k \in Rpcs, Requested(k) PROVE InvP!Next
  <2>1. /\ InvP!Begin(k, MethodOf(k), list[ReservationOf(k)[1]], ReservationOf(k))
        /\ promise[k] # "unmade" /\ pc[k] = "idle"
    BY <1>4, SameBegin DEF Requested, Rpc!Execute, InvP!Begin
  <2>2. CASE k[2] = "reserve"
    <3>1. k[1] \in Orders /\ ReservationOf(k) = k /\ MethodOf(k) = "reserve"
      BY <2>2, CheckoutAssumption DEF Rpcs, ReservationOf, MethodOf
    <3>2. list[k[1]] \in ItemLists
      BY <3>1 DEF Correct, OrderTypes
    <3>3. InvP!BeginReserve(k)
      BY <2>1, <3>1, <3>2 DEF InvP!BeginReserve
    <3> QED
      BY <3>3 DEF InvP!Next
  <2>3. CASE k[2] # "reserve"
    <3>1. /\ ReservationOf(k) \in Rpcs /\ InvP!Unsettled(ReservationOf(k))
          /\ items[ReservationOf(k)] = list[ReservationOf(k)[1]]
      BY <2>1, <2>3, SettlesUnsettled
    <3>2. MethodOf(k) \in {"release", "confirm"}
      BY <2>3 DEF MethodOf, Rpcs
    <3>3. InvP!BeginRelease(k) \/ InvP!BeginConfirm(k)
      BY <2>1, <3>1, <3>2 DEF InvP!BeginRelease, InvP!BeginConfirm
    <3> QED
      BY <3>3 DEF InvP!Next
  <2> QED
    BY <2>2, <2>3
<1>5. CASE StockCrash \/ OrderCrash
  <2>1. crashes' = crashes + 1 /\ crashes = 0
    BY <1>5 DEF StockCrash, OrderCrash, Crash, Orderly
  <2> QED
    BY <2>1
<1>6. CASE UNCHANGED vars
  BY <1>1, <1>6 DEF vars
<1> QED
  BY <1>1, <1>2, <1>3, <1>4, <1>5, <1>6, CreateOwns, CancelOwns DEF Next, Done, StockStep, Requests

(* Until a crash, or a second settling of one reservation, each step of    *)
(* the composition is one that Inventory's own specification allows, its   *)
(* callers' obligation (Unsettled) included.                               *)
InventoryContract ==
    [][Orderly /\ crashes' = 0 => InvP!Next \/ UNCHANGED InvP!vars]_vars

THEOREM ContractIsKept == Spec => InventoryContract
<1>1. Correct /\ Known /\ [Next]_vars =>
         [Orderly /\ crashes' = 0 => InvP!Next \/ UNCHANGED InvP!vars]_vars
  BY WithinContract
<1> QED
  BY <1>1, AlwaysKnown, PTL DEF Spec, InventoryContract

-----------------------------------------------------------------------------
(* The ledger, redeliveries and all.                                       *)

(* No reservation is settled by two calls, and no settling is repeated.    *)
Sparing == SettledOnce /\ \A k \in Rpcs : Settles(k) => runs[k] <= 1

Unstarted(r) == \A k \in Rpcs : Settles(k) /\ ReservationOf(k) = r => runs[k] = 0

(* A reservation holds at least what this execution of it has been         *)
(* through, and no more if it is the first; a rollback undoes what it has  *)
(* entered itself.                                                         *)
Holding(o) ==
    LET r == Reservation(o)
    IN  /\ open[r] \subseteq 1 .. Len(items[r])
        /\ op[r] = "none" => open[r] = {}
        /\ pc[r] \in {"check", "write"} =>
              /\ 1 .. (idx[r] - 1) \subseteq open[r]
              /\ runs[r] <= 1 => open[r] \subseteq 1 .. (idx[r] - 1)
              /\ idx[r] <= Len(items[r]) + 1 /\ undone[r] = 0
        /\ pc[r] = "rollback" => (undone[r] + 1) .. (idx[r] - 1) \subseteq open[r]
        /\ result[r] = "success" /\ Unstarted(r) => 1 .. Len(items[r]) \subseteq open[r]

(* What is left to a settler is still there.                               *)
Taking(k) ==
    /\ pc[k] = "apply" => idx[k] .. Len(items[k]) \subseteq open[target[k]]
    /\ k[2] # "reserve" => open[k] = {}

Balance ==
    /\ InvP!Covered(open, items, reserved)
    /\ (\A k \in Rpcs : runs[k] <= 1) => InvP!Ledger

Withheld ==
    Sparing => (\A o \in Orders : Holding(o)) /\ (\A k \in Rpcs : Taking(k)) /\ Balance

LEMMA SparingBefore ==
    ASSUME Correct, Known, [Next]_vars
    PROVE  /\ Sparing' => Sparing
           /\ \A r : Unstarted(r)' => Unstarted(r)
           /\ \A k \in Rpcs : runs'[k] <= 1 => runs[k] <= 1
<1>1. Onward /\ runs \in [Rpcs -> Nat] /\ runs' \in [Rpcs -> Nat]
  BY OnwardNext, RunTypes DEF Correct, OrderTypes
<1>2. \A k : ReservationOf(k)' = ReservationOf(k)
  BY <1>1 DEF Onward, inputs, ReservationOf
<1>3. \A k \in Rpcs : Settles(k) => Settles(k)'
  BY <1>1 DEF Onward, Unmade, Settles, MethodOf
<1>4. \A k \in Rpcs : (runs'[k] <= 1 => runs[k] <= 1) /\ (runs'[k] = 0 => runs[k] = 0)
  BY <1>1 DEF Onward
<1> QED
  BY <1>2, <1>3, <1>4 DEF Sparing, SettledOnce, Unstarted

LEMMA BalanceKeeps ==
    ASSUME Balance, UNCHANGED <<open, items, reserved>>,
           \A k \in Rpcs : runs'[k] <= 1 => runs[k] <= 1
    PROVE  Balance'
  BY DEF Balance, InvP!Covered, InvP!Ledger, InvP!Balanced

(* Steps that leave the handlers alone, or make them forget where they     *)
(* were.                                                                   *)
LEMMA WithheldQuiet ==
    ASSUME Correct, Known, Withheld, Sparing', [Next]_vars,
           UNCHANGED <<op, items, idx, undone, result, open, target, reserved>>,
           \A k \in Rpcs : pc'[k] = pc[k] \/ pc'[k] = "idle"
    PROVE  Withheld'
<1>1. Sparing /\ (\A r : Unstarted(r)' => Unstarted(r)) /\ \A k \in Rpcs : runs'[k] <= 1 => runs[k] <= 1
  BY SparingBefore
<1>2. Balance'
  BY <1>1, BalanceKeeps DEF Withheld
<1>3. ASSUME NEW o \in Orders PROVE Holding(o)'
  <2>1. Reservation(o)' = Reservation(o) /\ Reservation(o) \in Rpcs
    BY Reservations DEF Reservation
  <2> QED
    BY <1>1, <2>1 DEF Withheld, Holding
<1>4. ASSUME NEW k \in Rpcs PROVE Taking(k)'
  BY <1>1 DEF Withheld, Taking
<1> QED
  BY <1>2, <1>3, <1>4 DEF Withheld

(* A request is taken from the queue, for the first time or again.         *)
LEMMA WithheldBegin ==
    ASSUME Correct, Known, Withheld, Sparing', [Next]_vars, NEW j \in Rpcs, Requested(j)
    PROVE  Withheld'
<1> DEFINE r == ReservationOf(j)
<1>1. Sparing /\ (\A q : Unstarted(q)' => Unstarted(q)) /\ \A k \in Rpcs : runs'[k] <= 1 => runs[k] <= 1
  BY SparingBefore
<1>2. /\ promise[j] # "unmade" /\ pc[j] = "idle" /\ promise' = promise
      /\ pc' = [pc EXCEPT ![j] = IF MethodOf(j) = "reserve" THEN "check" ELSE "apply"]
      /\ op' = [op EXCEPT ![j] = MethodOf(j)]
      /\ items' = [items EXCEPT ![j] = list[r[1]]] /\ idx' = [idx EXCEPT ![j] = 1]
      /\ undone' = [undone EXCEPT ![j] = 0] /\ target' = [target EXCEPT ![j] = r]
      /\ runs' = [runs EXCEPT ![j] = @ + 1] /\ UNCHANGED <<open, result, reserved>>
  BY DEF Requested, Rpc!Execute, Inv!Begin, Inv!table
<1>t. /\ Inv!TypeOK /\ runs \in [Rpcs -> Nat] /\ list[r[1]] \in Seq(Inv!Item)
      /\ open \in [Rpcs -> SUBSET Nat] /\ pc \in [Rpcs -> Inv!Steps] /\ op \in [Rpcs -> Inv!Methods]
      /\ items \in [Rpcs -> Seq(Inv!Item)] /\ idx \in [Rpcs -> Nat \ {0}]
      /\ undone \in [Rpcs -> Nat] /\ target \in [Rpcs -> Rpcs] /\ result \in [Rpcs -> Inv!Results]
  <2>1. r[1] \in Orders
    BY DEF ReservationOf, Rpcs, Correct, Typed
  <2> QED
    BY <2>1, CheckoutAssumption DEF Correct, Within, OrderTypes, Inv!TypeOK, Inv!Item
<1>3. Bound(j) /\ Phase(j) /\ Earned(j) /\ result[j] = "none"
  BY <1>2 DEF Known, Phase
<1>4. runs[j] = 0 => op[j] = "none"
  BY <1>3 DEF Phase
<1>5. op[j] # "none" => items[j] = list[r[1]]
  BY <1>3 DEF Bound
<1>o. /\ runs'[j] = runs[j] + 1 /\ items'[j] = list[r[1]] /\ idx'[j] = 1 /\ undone'[j] = 0
      /\ op'[j] = MethodOf(j) /\ target'[j] = r
      /\ pc'[j] = IF MethodOf(j) = "reserve" THEN "check" ELSE "apply"
      /\ \A k \in Rpcs : k # j => pc'[k] = pc[k] /\ op'[k] = op[k] /\ items'[k] = items[k]
            /\ idx'[k] = idx[k] /\ undone'[k] = undone[k] /\ target'[k] = target[k] /\ runs'[k] = runs[k]
  BY <1>2, <1>t
<1>6. open[j] # {} => items'[j] = items[j]
  <2>1. CASE j[2] = "reserve"
    <3>1. j[1] \in Orders /\ Reservation(j[1]) = j
      BY <2>1, CheckoutAssumption DEF Rpcs, Reservation
    <3> QED
      BY <1>1, <1>5, <1>o, <3>1 DEF Withheld, Holding
  <2>2. CASE j[2] # "reserve"
    BY <1>1, <2>2 DEF Withheld, Taking
  <2> QED
    BY <2>1, <2>2
<1>7. Balance'
  <2>1. \A d \in Rpcs : open[d] # {} => items'[d] = items[d]
    BY <1>6, <1>o
  <2>2. \A p : InvP!UnitsOf(open, items', p) = InvP!UnitsOf(open, items, p)
    BY <2>1, InvP!SameUnits, StockAssumed
  <2> QED
    BY <1>1, <1>2, <2>2 DEF Withheld, Balance, InvP!Covered, InvP!Ledger, InvP!Balanced
<1>8. ASSUME NEW o \in Orders PROVE Holding(o)'
  <2>1. Reservation(o)' = Reservation(o) /\ Reservation(o) \in Rpcs /\ Holding(o)
    BY <1>1, Reservations DEF Reservation, Withheld
  <2>2. CASE Reservation(o) # j
    BY <1>1, <1>2, <1>o, <2>1, <2>2 DEF Holding
  <2>3. CASE Reservation(o) = j
    <3>1. j[1] = o /\ MethodOf(j) = "reserve"
      BY <2>3 DEF Reservation, MethodOf
    <3>2. runs'[j] <= 1 => open[j] = {}
      BY <1>4, <1>o, <1>t, <2>1, <2>3 DEF Holding
    <3>3. open[j] \subseteq 1 .. Len(items'[j])
      BY <1>6, <2>1, <2>3 DEF Holding
    <3>4. 1 .. (1 - 1) = {} /\ Len(items'[j]) \in Nat
      BY <1>o, <1>t
    <3> QED
      BY <1>2, <1>3, <1>o, <2>1, <2>3, <3>1, <3>2, <3>3, <3>4 DEF Holding
  <2> QED
    BY <2>2, <2>3
<1>9. ASSUME NEW k \in Rpcs PROVE Taking(k)'
  <2>1. Taking(k)
    BY <1>1 DEF Withheld
  <2>2. CASE k # j
    BY <1>2, <1>o, <2>1, <2>2 DEF Taking
  <2>3. CASE k = j /\ MethodOf(j) = "reserve"
    BY <1>2, <1>o, <2>1, <2>3 DEF Taking
  <2>4. CASE k = j /\ MethodOf(j) # "reserve"
    <3>1. j[2] # "reserve" /\ MethodOf(j) \in {"release", "confirm"}
      BY <2>4 DEF MethodOf, Rpcs
    <3>2. r[1] \in Orders /\ Reservation(r[1]) = r /\ r \in Rpcs /\ r # j /\ ReservationOf(r) = r
          /\ MethodOf(r) = "reserve"
      BY <3>1 DEF ReservationOf, Reservation, MethodOf, Rpcs, Correct, Typed
    <3>3. pc[r] = "done" /\ result[r] = "success"
      BY <1>2, <1>3, <3>1, <3>2 DEF Earned, Reserves
    <3>4. items[r] = list[r[1]]
      BY <3>2, <3>3 DEF Known, Phase, Bound
    <3>5. Settles(j) /\ Settles(j)' /\ runs[j] = 0
      <4>1. Settles(j) /\ Settles(j)'
        BY <1>2, <3>1 DEF Settles, MethodOf
      <4>2. runs'[j] <= 1
        BY <4>1 DEF Sparing
      <4> QED
        BY <1>o, <1>t, <4>1, <4>2
    <3>6. Unstarted(r)
      BY <1>1, <3>5 DEF Unstarted, Sparing, SettledOnce
    <3>7. 1 .. Len(items[r]) \subseteq open[r]
      BY <1>1, <3>2, <3>3, <3>6 DEF Withheld, Holding
    <3> QED
      BY <1>2, <1>o, <2>1, <2>4, <3>4, <3>7 DEF Taking
  <2> QED
    BY <2>2, <2>3, <2>4
<1> QED
  BY <1>7, <1>8, <1>9 DEF Withheld

(* What a handler's step has in common, whatever it works for.             *)
LEMMA HandlerFrame ==
    ASSUME Correct, Known, NEW j \in Rpcs, Inv!Handle(j)
    PROVE  /\ InvP!Handle(j) /\ InvP!TypeOK /\ InvP!InRange(j) /\ InvP!Running(j)
           /\ UNCHANGED <<op, items, target>>
           /\ \A d \in Rpcs : d # j => pc'[d] = pc[d] /\ idx'[d] = idx[d]
                                       /\ undone'[d] = undone[d] /\ result'[d] = result[d]
           /\ pc[j] \in {"check", "write", "rollback", "apply"} /\ result[j] = "none"
           /\ op[j] = MethodOf(j) /\ promise[j] # "unmade" /\ runs[j] # 0
           /\ target[j] = ReservationOf(j) /\ items[j] = list[ReservationOf(j)[1]]
           /\ (pc[j] = "apply" <=> j[2] # "reserve")
           /\ open \in [Rpcs -> SUBSET Nat] /\ pc \in [Rpcs -> Inv!Steps]
           /\ items \in [Rpcs -> Seq(Inv!Item)] /\ idx \in [Rpcs -> Nat \ {0}]
           /\ undone \in [Rpcs -> Nat] /\ target \in [Rpcs -> Rpcs]
           /\ result \in [Rpcs -> Inv!Results] /\ runs \in [Rpcs -> Nat]
<1>1. Inv!TypeOK /\ InvP!TypeOK /\ InvP!InRange(j) /\ InvP!Handle(j)
  BY SameTypes, SameHandle DEF Correct, Within
<1>2. /\ open \in [Rpcs -> SUBSET Nat] /\ pc \in [Rpcs -> Inv!Steps]
      /\ items \in [Rpcs -> Seq(Inv!Item)] /\ idx \in [Rpcs -> Nat \ {0}]
      /\ undone \in [Rpcs -> Nat] /\ target \in [Rpcs -> Rpcs]
      /\ result \in [Rpcs -> Inv!Results] /\ runs \in [Rpcs -> Nat]
  BY <1>1 DEF Inv!TypeOK, Correct, OrderTypes
<1>3. /\ InvP!Running(j) /\ UNCHANGED <<op, items, target>>
      /\ \A d \in Rpcs : d # j => pc'[d] = pc[d] /\ idx'[d] = idx[d]
                                  /\ undone'[d] = undone[d] /\ result'[d] = result[d]
  BY <1>1, InvP!HandleFrame, StockAssumed
<1>4. pc[j] \in {"check", "write", "rollback", "apply"}
  BY <1>2, <1>3 DEF InvP!Running, Inv!Steps
<1>5. Phase(j) /\ Bound(j)
  BY DEF Known
<1>6. result[j] = "none" /\ op[j] # "none" /\ runs[j] # 0
  BY <1>4, <1>5 DEF Phase
<1>7. /\ op[j] = MethodOf(j) /\ promise[j] # "unmade"
      /\ target[j] = ReservationOf(j) /\ items[j] = list[ReservationOf(j)[1]]
  BY <1>5, <1>6 DEF Bound
<1>8. pc[j] = "apply" <=> j[2] # "reserve"
  BY <1>4, <1>5, <1>7 DEF Phase, MethodOf, Rpcs
<1> QED
  BY <1>1, <1>2, <1>3, <1>4, <1>6, <1>7, <1>8

(* A reservation at work: nobody settles it yet.                           *)
LEMMA WithheldReserve ==
    ASSUME Correct, Known, Withheld, Sparing', [Next]_vars,
           NEW j \in Rpcs, j[2] = "reserve", Inv!Handle(j), UNCHANGED rpc
    PROVE  Withheld'
<1>1. Sparing /\ (\A q : Unstarted(q)' => Unstarted(q)) /\ (\A k \in Rpcs : runs'[k] <= 1 => runs[k] <= 1)
      /\ runs' = runs
  BY SparingBefore DEF rpc
<1>2. /\ InvP!Handle(j) /\ InvP!TypeOK /\ InvP!InRange(j)
      /\ UNCHANGED <<op, items, target>>
      /\ \A d \in Rpcs : d # j => pc'[d] = pc[d] /\ idx'[d] = idx[d]
                                  /\ undone'[d] = undone[d] /\ result'[d] = result[d]
      /\ pc[j] \in {"check", "write", "rollback"} /\ result[j] = "none"
      /\ op[j] = MethodOf(j)
  BY HandlerFrame
<1>t. /\ open \in [Rpcs -> SUBSET Nat] /\ pc \in [Rpcs -> Inv!Steps]
      /\ items \in [Rpcs -> Seq(Inv!Item)] /\ idx \in [Rpcs -> Nat \ {0}]
      /\ undone \in [Rpcs -> Nat] /\ result \in [Rpcs -> Inv!Results] /\ Len(items[j]) \in Nat
  BY HandlerFrame
<1>3. PICK o0 \in Orders : j = Reservation(o0)
  BY CheckoutAssumption DEF Rpcs, Reservation
<1>4. op[j] = "reserve"
  BY <1>2 DEF MethodOf
<1>5. Holding(o0) /\ Balance
  BY <1>1 DEF Withheld
<1>6. /\ open[j] \subseteq 1 .. Len(items[j])
      /\ pc[j] \in {"check", "write"} =>
            /\ 1 .. (idx[j] - 1) \subseteq open[j]
            /\ runs[j] <= 1 => open[j] \subseteq 1 .. (idx[j] - 1)
            /\ idx[j] <= Len(items[j]) + 1 /\ undone[j] = 0
      /\ pc[j] = "rollback" => (undone[j] + 1) .. (idx[j] - 1) \subseteq open[j]
  BY <1>3, <1>5 DEF Holding
<1>7. \/ open' = open
      \/ open' = [open EXCEPT ![j] = @ \union {idx[j]}]
      \/ open' = [open EXCEPT ![j] = @ \ {InvP!Undoing(j)}]
  BY <1>2, InvP!ReserveEffect, StockAssumed DEF InvP!Returns
<1>8. \A k \in Rpcs : k # j => open'[k] = open[k]
  BY <1>t, <1>7
<1>9. Balance'
  <2>1. CASE UNCHANGED <<open, reserved>>
    BY <1>1, <1>2, <1>5, <2>1, BalanceKeeps
  <2>2. CASE /\ pc[j] = "write" /\ idx[j] \in Nat /\ open' = [open EXCEPT ![j] = @ \union {idx[j]}]
             /\ InvP!Adds(reserved, reserved', items, j, idx[j])
    <3>1. InvP!Covered(open', items, reserved')
      BY <1>5, <1>t, <2>2, InvP!CoveredEnter, StockAssumed DEF Balance
    <3>2. ASSUME \A k \in Rpcs : runs[k] <= 1 PROVE InvP!Balanced(open', items, reserved')
      <4>1. idx[j] \notin open[j]
        BY <1>6, <1>t, <2>2, <3>2
      <4>2. InvP!Opens(open, open', j, idx[j])
        BY <1>t, <2>2, <4>1 DEF InvP!Opens
      <4>3. InvP!Balanced(open, items, reserved)
        BY <1>5, <3>2 DEF Balance, InvP!Ledger
      <4> QED
        BY <2>2, <4>2, <4>3, InvP!BalancedOpen, StockAssumed
    <3> QED
      BY <1>1, <1>2, <3>1, <3>2 DEF Balance, InvP!Ledger
  <2>3. CASE /\ pc[j] = "rollback" /\ InvP!Undoing(j) < idx[j] /\ InvP!Undoing(j) \in Nat
             /\ open' = [open EXCEPT ![j] = @ \ {InvP!Undoing(j)}]
             /\ InvP!Subtracts(reserved, reserved', items, j, InvP!Undoing(j))
    <3>1. InvP!Undoing(j) \in open[j]
      <4>1. InvP!Undoing(j) = undone[j] + 1 /\ undone[j] \in Nat /\ idx[j] \in Nat
        BY <1>t DEF InvP!Undoing
      <4>2. undone[j] + 1 < idx[j] /\ (undone[j] + 1) .. (idx[j] - 1) \subseteq open[j]
        BY <1>6, <2>3, <4>1
      <4> QED
        BY <4>1, <4>2
    <3>2. InvP!Opens(open', open, j, InvP!Undoing(j))
      BY <1>2, <2>3, <3>1, InvP!Reopens, StockAssumed
    <3>3. InvP!Covered(open', items, reserved')
      BY <1>5, <2>3, <3>2, InvP!CoveredClose, StockAssumed DEF Balance
    <3>4. ASSUME \A k \in Rpcs : runs[k] <= 1 PROVE InvP!Balanced(open', items, reserved')
      BY <1>5, <2>3, <3>2, <3>4, InvP!BalancedClose, StockAssumed DEF Balance, InvP!Ledger
    <3> QED
      BY <1>1, <1>2, <3>3, <3>4 DEF Balance, InvP!Ledger
  <2> QED
    BY <1>2, <2>1, <2>2, <2>3, InvP!TableEffect, StockAssumed
<1>10. pc'[j] # "apply"
  BY <1>2, <1>t, InvP!ReserveEffect, StockAssumed DEF InvP!Returns
<1>11. ASSUME NEW k \in Rpcs PROVE Taking(k)'
  <2>1. Taking(k)
    BY <1>1 DEF Withheld
  <2>2. CASE pc'[k] = "apply"
    <3>1. k # j /\ pc[k] = "apply"
      BY <1>2, <1>10, <2>2
    <3>2. target[k] # j
      <4>1. target[k] = ReservationOf(k) /\ promise[k] # "unmade" /\ k[2] # "reserve"
        BY <3>1 DEF Known, Phase, Bound, MethodOf
      <4>2. ReservationOf(k)[1] \in Orders /\ Reservation(ReservationOf(k)[1]) = ReservationOf(k)
        BY DEF ReservationOf, Reservation, Rpcs, Correct, Typed
      <4>3. pc[target[k]] = "done"
        BY <4>1, <4>2 DEF Known, Earned, Reserves
      <4> QED
        BY <1>2, <4>3
    <3>3. target[k] \in Rpcs
      BY <1>2 DEF InvP!TypeOK
    <3> QED
      BY <1>2, <1>8, <2>1, <3>1, <3>2, <3>3 DEF Taking
  <2>3. k[2] # "reserve" => open'[k] = {}
    BY <1>8, <2>1 DEF Taking
  <2> QED
    BY <2>2, <2>3 DEF Taking
<1>12. ASSUME NEW o \in Orders PROVE Holding(o)'
  <2>1. Reservation(o)' = Reservation(o) /\ Reservation(o) \in Rpcs /\ Holding(o)
    BY <1>1, Reservations DEF Reservation, Withheld
  <2>2. CASE Reservation(o) # j
    BY <1>1, <1>2, <1>8, <2>1, <2>2 DEF Holding
  <2>3. CASE Reservation(o) = j
    <3>1. \/ /\ pc[j] = "check" /\ InvP!More(j) /\ UNCHANGED <<open, idx, undone, result>>
             /\ \E s \in {"write", "rollback"} : pc' = [pc EXCEPT ![j] = s]
          \/ /\ pc[j] = "write" /\ pc' = [pc EXCEPT ![j] = "check"]
             /\ open' = [open EXCEPT ![j] = @ \union {idx[j]}]
             /\ idx' = [idx EXCEPT ![j] = @ + 1] /\ UNCHANGED <<undone, result>>
          \/ /\ pc[j] = "rollback" /\ open' = [open EXCEPT ![j] = @ \ {InvP!Undoing(j)}]
             /\ undone' = [undone EXCEPT ![j] = @ + 1] /\ UNCHANGED <<pc, idx, result>>
             /\ InvP!Undoing(j) < idx[j]
          \/ pc[j] = "check" /\ ~InvP!More(j) /\ InvP!Returns(j, "success")
          \/ pc[j] = "rollback" /\ InvP!Undoing(j) = idx[j] /\ InvP!Returns(j, "insufficient")
          \/ InvP!Returns(j, "error")
      BY <1>2, InvP!ReserveEffect, StockAssumed
    <3>2. CASE pc[j] = "check" /\ InvP!More(j) /\ UNCHANGED <<open, idx, undone, result>>
               /\ \E s \in {"write", "rollback"} : pc' = [pc EXCEPT ![j] = s]
      <4>1. pc'[j] \in {"write", "rollback"}
        BY <1>t, <3>2
      <4> QED
        BY <1>1, <1>2, <1>4, <1>6, <1>t, <2>1, <2>3, <3>2, <4>1 DEF Holding
    <3>3. CASE pc[j] = "write" /\ pc' = [pc EXCEPT ![j] = "check"]
               /\ open' = [open EXCEPT ![j] = @ \union {idx[j]}]
               /\ idx' = [idx EXCEPT ![j] = @ + 1] /\ UNCHANGED <<undone, result>>
      <4>1. pc'[j] = "check" /\ idx'[j] = idx[j] + 1 /\ open'[j] = open[j] \union {idx[j]}
            /\ undone'[j] = 0 /\ result'[j] = "none"
        BY <1>2, <1>6, <1>t, <3>3
      <4>2. idx[j] \in 1 .. Len(items[j])
        BY <1>2, <3>3 DEF InvP!InRange
      <4>3. 1 .. (idx'[j] - 1) \subseteq open'[j]
            /\ (runs[j] <= 1 => open'[j] \subseteq 1 .. (idx'[j] - 1))
            /\ open'[j] \subseteq 1 .. Len(items[j])
        BY <1>6, <1>t, <3>3, <4>1, <4>2
      <4> QED
        BY <1>1, <1>2, <1>4, <1>t, <2>1, <2>3, <4>1, <4>2, <4>3 DEF Holding
    <3>4. CASE pc[j] = "rollback" /\ open' = [open EXCEPT ![j] = @ \ {InvP!Undoing(j)}]
               /\ undone' = [undone EXCEPT ![j] = @ + 1] /\ UNCHANGED <<pc, idx, result>>
               /\ InvP!Undoing(j) < idx[j]
      <4>1. undone'[j] = undone[j] + 1 /\ open'[j] = open[j] \ {undone[j] + 1}
        BY <1>t, <3>4 DEF InvP!Undoing
      <4>2. (undone'[j] + 1) .. (idx[j] - 1) \subseteq open'[j] /\ open'[j] \subseteq 1 .. Len(items[j])
        BY <1>6, <1>t, <3>4, <4>1
      <4> QED
        BY <1>1, <1>2, <1>4, <2>1, <2>3, <3>4, <4>2 DEF Holding
    <3>5. CASE pc[j] = "check" /\ ~InvP!More(j) /\ InvP!Returns(j, "success")
      <4>1. 1 .. Len(items[j]) \subseteq open[j]
        BY <1>6, <1>t, <3>5 DEF InvP!More
      <4>2. pc'[j] = "done" /\ result'[j] = "success" /\ open'[j] = open[j]
        BY <1>t, <3>5 DEF InvP!Returns
      <4> QED
        BY <1>2, <1>4, <1>6, <2>1, <2>3, <4>1, <4>2 DEF Holding
    <3>6. CASE \E v \in {"insufficient", "error"} : InvP!Returns(j, v)
      <4>1. pc'[j] = "done" /\ result'[j] # "success" /\ open'[j] = open[j]
        BY <1>t, <3>6 DEF InvP!Returns
      <4> QED
        BY <1>2, <1>4, <1>6, <2>1, <2>3, <4>1 DEF Holding
    <3> QED
      BY <3>1, <3>2, <3>3, <3>4, <3>5, <3>6
  <2> QED
    BY <2>2, <2>3
<1> QED
  BY <1>9, <1>11, <1>12 DEF Withheld

(* The one call that settles a reservation, executed once.                 *)
LEMMA WithheldSettle ==
    ASSUME Correct, Known, Withheld, Sparing', [Next]_vars,
           NEW j \in Rpcs, j[2] # "reserve", Inv!Handle(j), UNCHANGED rpc
    PROVE  Withheld'
<1>1. Sparing /\ (\A q : Unstarted(q)' => Unstarted(q)) /\ (\A k \in Rpcs : runs'[k] <= 1 => runs[k] <= 1)
      /\ runs' = runs /\ promise' = promise
  BY SparingBefore DEF rpc
<1>2. /\ InvP!Handle(j) /\ InvP!TypeOK /\ InvP!InRange(j)
      /\ UNCHANGED <<op, items, target>>
      /\ \A d \in Rpcs : d # j => pc'[d] = pc[d] /\ idx'[d] = idx[d]
                                  /\ undone'[d] = undone[d] /\ result'[d] = result[d]
      /\ pc[j] = "apply" /\ result[j] = "none" /\ promise[j] # "unmade" /\ runs[j] # 0
      /\ target[j] = ReservationOf(j) /\ items[j] = list[ReservationOf(j)[1]]
  BY HandlerFrame
<1>t. /\ open \in [Rpcs -> SUBSET Nat] /\ pc \in [Rpcs -> Inv!Steps]
      /\ items \in [Rpcs -> Seq(Inv!Item)] /\ idx \in [Rpcs -> Nat \ {0}]
      /\ undone \in [Rpcs -> Nat] /\ result \in [Rpcs -> Inv!Results] /\ Len(items[j]) \in Nat
      /\ target \in [Rpcs -> Rpcs]
  BY HandlerFrame
<1>r. PICK r \in Rpcs : r = target[j] /\ r = ReservationOf(j)
  BY <1>2, <1>t
<1>3. r[1] \in Orders /\ Reservation(r[1]) = r /\ ReservationOf(r) = r /\ MethodOf(r) = "reserve" /\ r # j
  BY <1>r DEF ReservationOf, Reservation, MethodOf, Rpcs, Correct, Typed
<1>4. pc[r] = "done" /\ result[r] = "success"
  BY <1>2, <1>3, <1>r DEF Known, Earned, Reserves
<1>5. items[r] = items[j] /\ op[r] = "reserve"
  BY <1>2, <1>3, <1>4, <1>r DEF Known, Phase, Bound
<1>6. Taking(j) /\ Balance /\ idx[j] .. Len(items[j]) \subseteq open[r]
  BY <1>1, <1>2, <1>r DEF Withheld, Taking
<1>7. \/ /\ InvP!More(j) /\ open' = [open EXCEPT ![r] = @ \ {idx[j]}]
         /\ idx' = [idx EXCEPT ![j] = @ + 1] /\ UNCHANGED <<pc, undone, result>>
      \/ \E v \in {"success", "error"} : InvP!Returns(j, v)
  BY <1>2, <1>r, InvP!SettleEffect, StockAssumed
<1>8. Settles(j) /\ Settles(j)' /\ ReservationOf(j)' = ReservationOf(j)
  <2>1. MethodOf(j) \in {"release", "confirm"} /\ MethodOf(j)' = MethodOf(j)
    BY DEF MethodOf, Rpcs
  <2>2. ReservationOf(j)' = ReservationOf(j)
    BY OnwardNext DEF Onward, inputs, ReservationOf
  <2> QED
    BY <1>1, <1>2, <2>1, <2>2 DEF Settles
<1>9. open'[r] \subseteq open[r] /\ \A k \in Rpcs : k # r => open'[k] = open[k]
  BY <1>7, <1>t DEF InvP!Returns
<1>10. Balance'
  <2>1. CASE UNCHANGED <<open, reserved>>
    BY <1>1, <1>2, <1>6, <2>1, BalanceKeeps
  <2>2. CASE /\ InvP!More(j) /\ idx[j] \in Nat
             /\ open' = [open EXCEPT ![r] = @ \ {idx[j]}]
             /\ InvP!Subtracts(reserved, reserved', items, j, idx[j])
    <3>1. idx[j] \in open[r]
      BY <1>6, <1>t, <2>2 DEF InvP!More
    <3>2. InvP!Opens(open', open, r, idx[j])
      BY <1>2, <2>2, <3>1, InvP!Reopens, StockAssumed
    <3>3. InvP!Subtracts(reserved, reserved', items, r, idx[j])
      BY <1>5, <2>2 DEF InvP!Subtracts
    <3>4. InvP!Covered(open', items, reserved')
      BY <1>6, <2>2, <3>2, <3>3, InvP!CoveredClose, StockAssumed DEF Balance
    <3>5. ASSUME \A k \in Rpcs : runs[k] <= 1 PROVE InvP!Balanced(open', items, reserved')
      BY <1>6, <2>2, <3>2, <3>3, <3>5, InvP!BalancedClose, StockAssumed DEF Balance, InvP!Ledger
    <3> QED
      BY <1>1, <1>2, <3>4, <3>5 DEF Balance, InvP!Ledger
  <2> QED
    BY <1>2, <1>r, <2>1, <2>2, InvP!TableEffect, StockAssumed
<1>11. ASSUME NEW k \in Rpcs PROVE Taking(k)'
  <2>1. Taking(k)
    BY <1>1 DEF Withheld
  <2>2. k[2] # "reserve" => open'[k] = {}
    BY <1>3, <1>9, <2>1 DEF Taking, MethodOf
  <2>3. CASE k = j
    <3>1. CASE InvP!More(j) /\ open' = [open EXCEPT ![r] = @ \ {idx[j]}]
               /\ idx' = [idx EXCEPT ![j] = @ + 1]
      <4>1. idx'[j] = idx[j] + 1 /\ open'[r] = open[r] \ {idx[j]}
        BY <1>t, <3>1
      <4>2. idx'[j] .. Len(items[j]) \subseteq open'[r]
        BY <1>6, <1>t, <4>1
      <4> QED
        BY <1>2, <1>r, <2>2, <2>3, <4>2 DEF Taking
    <3>2. CASE \E v \in {"success", "error"} : InvP!Returns(j, v)
      <4>1. pc'[j] = "done"
        BY <1>t, <3>2 DEF InvP!Returns
      <4> QED
        BY <2>2, <2>3, <4>1 DEF Taking
    <3> QED
      BY <1>7, <3>1, <3>2
  <2>4. CASE k # j /\ pc[k] = "apply"
    <3>1. target[k] = ReservationOf(k) /\ Settles(k)
      <4>1. op[k] # "none" /\ op[k] # "reserve" /\ Bound(k)
        BY <2>4 DEF Known, Phase
      <4> QED
        BY <4>1 DEF Bound, Settles, MethodOf, Rpcs
    <3>2. target[k] # r
      BY <1>1, <1>8, <1>r, <2>4, <3>1 DEF Sparing, SettledOnce
    <3> QED
      BY <1>2, <1>9, <1>t, <2>1, <2>2, <2>4, <3>2 DEF Taking
  <2>5. CASE k # j /\ pc[k] # "apply"
    BY <1>2, <2>2, <2>5 DEF Taking
  <2> QED
    BY <2>3, <2>4, <2>5
<1>12. ASSUME NEW o \in Orders PROVE Holding(o)'
  <2>1. Reservation(o)' = Reservation(o) /\ Reservation(o) \in Rpcs /\ Holding(o) /\ Reservation(o) # j
    BY <1>1, Reservations DEF Reservation, Withheld
  <2>2. CASE Reservation(o) # r
    BY <1>1, <1>2, <1>9, <2>1, <2>2 DEF Holding
  <2>3. CASE Reservation(o) = r
    <3>1. ~Unstarted(r)'
      BY <1>1, <1>2, <1>8, <1>r DEF Unstarted
    <3>2. pc'[r] = "done" /\ open'[r] \subseteq 1 .. Len(items'[r]) /\ op'[r] # "none"
      BY <1>2, <1>3, <1>4, <1>5, <1>9, <2>1, <2>3 DEF Holding
    <3> QED
      BY <2>1, <2>3, <3>1, <3>2 DEF Holding
  <2> QED
    BY <2>2, <2>3
<1> QED
  BY <1>10, <1>11, <1>12 DEF Withheld

LEMMA WithheldNext == Correct /\ Known /\ Withheld /\ [Next]_vars => Withheld'
<1> SUFFICES ASSUME Correct, Known, Withheld, [Next]_vars, Sparing' PROVE Withheld'
  BY DEF Withheld
<1>1. CASE UNCHANGED inventory
  BY <1>1, WithheldQuiet DEF inventory
<1>2. ASSUME NEW r \in Requests, Own(r) PROVE UNCHANGED inventory
  BY <1>2, CallMoves DEF Own
<1>3. ASSUME NEW j \in Rpcs, StockStep(j) PROVE Withheld'
  BY <1>3, WithheldBegin, WithheldReserve, WithheldSettle DEF StockStep
<1>4. CASE StockCrash
  BY <1>4, WithheldQuiet DEF StockCrash
<1>5. CASE OrderCrash
  BY <1>1, <1>5 DEF OrderCrash
<1>6. CASE UNCHANGED vars
  BY <1>1, <1>6 DEF vars
<1> QED
  BY <1>1, <1>2, <1>3, <1>4, <1>5, <1>6, CreateOwns, CancelOwns DEF Next, Done, Requests

LEMMA WithheldInit == Init => Withheld
<1> SUFFICES ASSUME Init PROVE Withheld
  OBVIOUS
<1>1. \A k \in Rpcs : op[k] = "none" /\ pc[k] = "idle" /\ result[k] = "none" /\ open[k] = {}
  BY DEF Init, Inv!Init
<1>2. InvP!Ledger
  <2>1. InvP!Init
    BY SameInit DEF Init
  <2> QED
    BY <2>1, InvP!LedgerInit, StockAssumed
<1>3. InvP!Covered(open, items, reserved)
  <2>1. \A p \in Products : reserved[p] = 0
    BY DEF Init, Inv!Init
  <2> QED
    BY <1>2, <2>1 DEF InvP!Ledger, InvP!Balanced, InvP!Covered
<1>4. \A o \in Orders : Holding(o)
  BY <1>1, Reservations DEF Holding
<1> QED
  BY <1>1, <1>2, <1>3, <1>4 DEF Withheld, Balance, Taking

LEMMA SameAccounting == Inv!Accounting <=> InvP!Accounting
  BY SameSize DEF Inv!Accounting, InvP!Accounting, Inv!Units, InvP!Units, Inv!Places, InvP!Places,
     Inv!QtyAt, InvP!QtyAt, Inv!ProductAt, InvP!ProductAt

LEMMA SameUnitsOf == \A p : Inv!Units(p) = InvP!UnitsOf(open, items, p)
<1>1. \A p : Inv!Units(p) = InvP!Units(p)
  BY DEF Inv!Units, InvP!Units, Inv!Places, InvP!Places, Inv!QtyAt, InvP!QtyAt, Inv!ProductAt, InvP!ProductAt
<1> QED
  BY <1>1, InvP!UnitsIsUnitsOf, StockAssumed

LEMMA AlwaysWithheld == Spec => [](Correct /\ Known /\ Withheld)
<1>1. Init => Withheld
  BY WithheldInit
<1>2. Correct /\ Known /\ Withheld /\ [Next]_vars => Withheld'
  BY WithheldNext
<1> QED
  BY <1>1, <1>2, AlwaysKnown, PTL DEF Spec

(* Until a call is executed twice or a reservation settled by two:         *)
(* reservedQuantity is what reservations hold, whichever RPCs time out,    *)
(* statements throw, handlers are cut short and orders contend.            *)
THEOREM StockAccounted == Spec => []StockIsAccountedFor
<1>1. Correct /\ Withheld => StockIsAccountedFor
  <2> SUFFICES ASSUME Correct, Withheld, SettledOnce, \A k \in Rpcs : runs[k] <= 1
               PROVE  Inv!Accounting
    BY DEF StockIsAccountedFor
  <2>1. InvP!Ledger /\ InvP!TypeOK
    BY SameTypes DEF Withheld, Sparing, Balance, Correct, Within
  <2>2. InvP!Accounting
    BY <2>1, InvP!LedgerAccounts, StockAssumed
  <2> QED
    BY <2>2, SameAccounting
<1> QED
  BY <1>1, AlwaysWithheld, PTL

(* A reservation that a crash has entered twice makes reservedQuantity too *)
(* large, never too small, as long as what settles reservations is         *)
(* executed once.                                                          *)
THEOREM RedeliveryWithholds == Spec => []RedeliveryOnlyWithholds
<1>1. Correct /\ Withheld => RedeliveryOnlyWithholds
  <2> SUFFICES ASSUME Correct, Withheld, Sparing, NEW p \in rows
               PROVE  reserved[p] >= Cardinality(Inv!Units(p))
    BY DEF RedeliveryOnlyWithholds, Sparing
  <2>1. p \in Products /\ reserved[p] \in Int
    BY DEF Correct, Within, Inv!TypeOK
  <2>2. /\ IsFiniteSet(InvP!UnitsOf(open, items, p))
        /\ Cardinality(InvP!UnitsOf(open, items, p)) <= reserved[p]
    BY <2>1, SameFinite DEF Withheld, Balance, InvP!Covered
  <2>3. Cardinality(InvP!UnitsOf(open, items, p)) \in Nat
    BY <2>2, FS_CardinalityType
  <2> QED
    BY <2>1, <2>2, <2>3, SameUnitsOf
<1> QED
  BY <1>1, AlwaysWithheld, PTL

-----------------------------------------------------------------------------
(* The stock of one order, whatever becomes of the table as a whole.       *)

Settlers(o) == {<<o, "confirm">>, <<o, "release">>, <<o, "undo">>}

(* What its reservation holds, as far as it has come.                      *)
Reserving(o) ==
    LET r == Reservation(o)
    IN  /\ open[r] \subseteq 1 .. Len(items[r])
        /\ op[r] = "none" => open[r] = {}
        /\ pc[r] \in {"check", "write"} =>
              open[r] = 1 .. (idx[r] - 1) /\ idx[r] <= Len(items[r]) + 1 /\ undone[r] = 0
        /\ pc[r] = "rollback" => open[r] = (undone[r] + 1) .. (idx[r] - 1) /\ undone[r] < idx[r]
        /\ result[r] = "insufficient" => open[r] = {}
        /\ result[r] = "success" /\ (\A k \in Settlers(o) : op[k] = "none") =>
              open[r] = 1 .. Len(items[r])

(* What a settler k leaves it, and it may be the second to settle.         *)
Giving(o, k) ==
    /\ pc[k] = "apply" => open[Reservation(o)] \subseteq idx[k] .. Len(items[k])
    /\ result[k] = "success" => open[Reservation(o)] = {}

Follows(o) == Undisturbed(o) => Reserving(o) /\ \A k \in Settlers(o) : Giving(o, k)

LEMMA UndisturbedBefore ==
    ASSUME Correct, Known, [Next]_vars, NEW o \in Orders, Undisturbed(o)'
    PROVE  Undisturbed(o)
<1>1. Onward
  BY OnwardNext
<1>2. \A x \in Cancels : <<x, "release">> \in Rpcs
  BY DEF Rpcs
<1>3. runs \in [Rpcs -> Nat] /\ \A k \in Rpcs : runs'[k] <= 1 /\ runs[k] <= runs'[k] => runs[k] <= 1
  <2>1. runs \in [Rpcs -> Nat]
    BY DEF Correct, OrderTypes
  <2>2. runs' \in [Rpcs -> Nat]
    BY RunTypes
  <2> QED
    BY <2>1, <2>2
<1> QED
  BY <1>1, <1>2, <1>3 DEF Onward, inputs, Undisturbed, Unmade

(* Whoever settles an order's reservation has found it granted.            *)
LEMMA SettlerFinds ==
    ASSUME Correct, Known, NEW o \in Orders, NEW k \in Settlers(o), promise[k] # "unmade"
    PROVE  LET r == Reservation(o) IN
             /\ pc[r] = "done" /\ result[r] = "success" /\ op[r] = "reserve" /\ items[r] = list[o]
<1>1. k \in Rpcs /\ k[2] # "reserve" /\ ReservationOf(k) = Reservation(o)
  <2>1. k[1] = o /\ k[2] # "reserve"
    BY DEF Settlers
  <2>2. k \in Rpcs
    BY DEF Settlers, Rpcs
  <2>3. ReservationOf(k) = Reservation(o)
    BY <2>1 DEF ReservationOf, Reservation
  <2> QED
    BY <2>1, <2>2, <2>3
<1>2. Reservation(o) \in Rpcs /\ Reservation(o)[1] = o
      /\ ReservationOf(Reservation(o)) = Reservation(o) /\ MethodOf(Reservation(o)) = "reserve"
  BY OrderRpcs DEF Reservation, MethodOf
<1>3. pc[Reservation(o)] = "done" /\ result[Reservation(o)] = "success"
  BY <1>1, <1>2 DEF Known, Earned, Reserves
<1>4. op[Reservation(o)] = "reserve" /\ items[Reservation(o)] = list[o]
  BY <1>2, <1>3 DEF Known, Phase, Bound
<1> QED
  BY <1>3, <1>4

(* A handler that works for others leaves the order's calls alone.         *)
Elsewhere(o) ==
    \A k \in Rpcs : k[1] = o =>
        /\ pc'[k] = pc[k] /\ op'[k] = op[k] /\ items'[k] = items[k] /\ idx'[k] = idx[k]
        /\ undone'[k] = undone[k] /\ result'[k] = result[k] /\ open'[k] = open[k]

LEMMA FollowsElsewhere ==
    ASSUME NEW o \in Orders, Follows(o), Undisturbed(o), Elsewhere(o)
    PROVE  Follows(o)'
<1>1. Reservation(o)' = Reservation(o) /\ Settlers(o)' = Settlers(o)
  BY DEF Reservation, Settlers
<1>2. Reservation(o) \in Rpcs /\ Reservation(o)[1] = o
      /\ \A k \in Settlers(o) : k \in Rpcs /\ k[1] = o
  BY OrderRpcs DEF Settlers
<1>3. Reserving(o)'
  BY <1>1, <1>2 DEF Follows, Reserving, Elsewhere
<1>4. \A k \in Settlers(o) : Giving(o, k)'
  BY <1>1, <1>2 DEF Follows, Giving, Elsewhere
<1> QED
  BY <1>1, <1>3, <1>4 DEF Follows

LEMMA OthersElsewhere ==
    ASSUME Correct, Known, NEW o \in Orders, Undisturbed(o), NEW j \in Rpcs, j[1] # o, StockStep(j)
    PROVE  Elsewhere(o)
<1>1. Inv!TypeOK /\ InvP!TypeOK /\ InvP!InRange(j) /\ Bound(j) /\ Phase(j)
  BY SameTypes DEF Correct, Within, Known
<1>2. promise[j] # "unmade" => ReservationOf(j) # Reservation(o)
  BY CheckoutAssumption DEF Undisturbed, ReservationOf, Reservation, Rpcs
<1>3. CASE Requested(j)
  BY <1>1, <1>3 DEF Requested, Inv!Begin, Elsewhere, Inv!TypeOK
<1>4. CASE Inv!Handle(j)
  <2>1. InvP!Handle(j)
    BY <1>4, SameHandle
  <2>2. /\ InvP!Running(j) /\ UNCHANGED <<op, items>>
        /\ \A d \in Rpcs : d # j =>
              pc'[d] = pc[d] /\ idx'[d] = idx[d] /\ undone'[d] = undone[d] /\ result'[d] = result[d]
    BY <1>1, <2>1, InvP!HandleFrame, StockAssumed
  <2>3. target[j] = ReservationOf(j) /\ target[j] # Reservation(o)
    BY <1>1, <1>2, <2>2 DEF Phase, Bound, InvP!Running
  <2>4. \A k \in Rpcs : k[1] = o => k # target[j]
    <3>1. ASSUME NEW k \in Rpcs, k[1] = o, k = target[j] PROVE FALSE
      BY <2>3, <3>1 DEF ReservationOf, Reservation
    <3> QED
      BY <3>1
  <2>5. \A k \in Rpcs : k[1] = o => open'[k] = open[k]
    <3>1. open \in [Rpcs -> SUBSET Nat]
      BY <1>1 DEF Inv!TypeOK
    <3>2. CASE pc[j] = "apply"
      <4>1. open' = open \/ open' = [open EXCEPT ![target[j]] = @ \ {idx[j]}]
        BY <1>1, <2>1, <3>2, InvP!SettleEffect, StockAssumed DEF InvP!Returns
      <4> QED
        BY <2>4, <3>1, <4>1
    <3>3. CASE pc[j] # "apply"
      <4>1. \/ open' = open
            \/ open' = [open EXCEPT ![j] = @ \union {idx[j]}]
            \/ open' = [open EXCEPT ![j] = @ \ {InvP!Undoing(j)}]
        BY <1>1, <2>1, <3>3, InvP!ReserveEffect, StockAssumed DEF InvP!Returns
      <4> QED
        BY <3>1, <4>1
    <3> QED
      BY <3>2, <3>3
  <2> QED
    BY <2>2, <2>5 DEF Elsewhere
<1> QED
  BY <1>3, <1>4 DEF StockStep

(* The reservation itself at work: nobody is settling yet.                 *)
LEMMA FollowsReserve ==
    ASSUME Correct, Known, NEW o \in Orders, Follows(o), Undisturbed(o), Undisturbed(o)',
           StockStep(Reservation(o))
    PROVE  Follows(o)'
<1>r. PICK r \in Rpcs : r = Reservation(o) /\ r = <<o, "reserve">> /\ r[1] = o
                        /\ ReservationOf(r)[1] = o /\ MethodOf(r) = "reserve"
  BY Reservations DEF Reservation, MethodOf, ReservationOf
<1>1. /\ Inv!TypeOK /\ InvP!TypeOK /\ InvP!InRange(r) /\ Bound(r) /\ Phase(r)
      /\ StockStep(r) /\ Reserving(o) /\ promise' = promise
  <2>1. promise' = promise
    BY DEF StockStep, Requested, Rpc!Execute, rpc
  <2> QED
    BY <1>r, <2>1, SameTypes DEF Correct, Within, Known, Follows, Undisturbed
<1>2. \A k \in Settlers(o) : k \in Rpcs /\ k # r
  BY <1>r DEF Settlers, Rpcs
<1>3. Reservation(o)' = r /\ Settlers(o)' = Settlers(o)
  BY <1>r DEF Reservation, Settlers
<1>4. pc[r] # "done"
  <2>1. CASE Requested(r)
    BY <2>1 DEF Requested, Inv!Begin
  <2>2. CASE Inv!Handle(r)
    <3>1. InvP!Handle(r)
      BY <2>2, SameHandle
    <3> QED
      BY <1>1, <3>1, InvP!HandleFrame, StockAssumed DEF InvP!Running
  <2> QED
    BY <1>1, <2>1, <2>2 DEF StockStep
<1>5. ASSUME NEW k \in Settlers(o) PROVE Giving(o, k)'
  <2>1. op[k] = "none" /\ pc[k] = "idle" /\ result[k] = "none"
    BY <1>2, <1>4, <1>r, SettlerFinds DEF Known, Bound, Phase
  <2>2. pc'[k] = pc[k] /\ result'[k] = result[k]
    <3>1. CASE Requested(r)
      BY <1>1, <1>2, <3>1 DEF Requested, Inv!Begin, Inv!TypeOK
    <3>2. CASE Inv!Handle(r)
      <4>1. InvP!Handle(r)
        BY <3>2, SameHandle
      <4> QED
        BY <1>1, <1>2, <4>1, InvP!HandleFrame, StockAssumed
    <3> QED
      BY <1>1, <3>1, <3>2 DEF StockStep
  <2> QED
    BY <2>1, <2>2 DEF Giving
<1>6. Reserving(o)'
  <2>1. CASE Requested(r)
    <3>1. /\ pc[r] = "idle" /\ pc'[r] = "check" /\ op'[r] = "reserve" /\ idx'[r] = 1 /\ undone'[r] = 0
          /\ items'[r] = list[o] /\ UNCHANGED <<open, result>>
      BY <1>r, <1>1, <2>1 DEF Requested, Inv!Begin, Inv!TypeOK
    <3>2. op[r] = "none" /\ result[r] = "none"
      <4>1. runs'[r] = runs[r] + 1 /\ runs[r] \in Nat /\ runs'[r] <= 1
        BY <1>r, <2>1 DEF Requested, Rpc!Execute, Correct, OrderTypes, Undisturbed
      <4> QED
        BY <1>1, <3>1, <4>1 DEF Phase
    <3>3. open[r] = {}
      BY <1>r, <1>1, <3>2 DEF Reserving
    <3>4. Len(list[o]) \in Nat
      BY CheckoutAssumption DEF Correct, OrderTypes
    <3>5. 1 .. (1 - 1) = {}
      OBVIOUS
    <3> QED
      BY <1>3, <3>1, <3>2, <3>3, <3>4, <3>5 DEF Reserving
  <2>2. CASE Inv!Handle(r)
    <3>1. InvP!Handle(r)
      BY <2>2, SameHandle
    <3>2. InvP!Running(r) /\ UNCHANGED <<op, items, target>> /\ InvP!InRange(r)'
      BY <1>1, <3>1, InvP!HandleFrame, StockAssumed
    <3>3. op[r] = "reserve" /\ pc[r] # "apply" /\ pc[r] # "idle" /\ pc[r] # "done" /\ result[r] = "none"
      BY <1>1, <1>r, <3>2 DEF Phase, Bound, InvP!Running
    <3>t. /\ open \in [Rpcs -> SUBSET Nat] /\ pc \in [Rpcs -> Inv!Steps] /\ idx[r] \in Nat \ {0}
          /\ undone \in [Rpcs -> Nat] /\ idx \in [Rpcs -> Nat \ {0}] /\ result \in [Rpcs -> Inv!Results]
          /\ Len(items[r]) \in Nat
      BY <1>1 DEF Inv!TypeOK
    <3>e. \/ /\ pc[r] = "check" /\ InvP!More(r) /\ UNCHANGED <<open, idx, undone, result>>
             /\ \E s \in {"write", "rollback"} : pc' = [pc EXCEPT ![r] = s]
          \/ /\ pc[r] = "write" /\ pc' = [pc EXCEPT ![r] = "check"]
             /\ open' = [open EXCEPT ![r] = @ \union {idx[r]}]
             /\ idx' = [idx EXCEPT ![r] = @ + 1] /\ UNCHANGED <<undone, result>>
          \/ /\ pc[r] = "rollback" /\ open' = [open EXCEPT ![r] = @ \ {InvP!Undoing(r)}]
             /\ undone' = [undone EXCEPT ![r] = @ + 1] /\ UNCHANGED <<pc, idx, result>>
             /\ InvP!Undoing(r) < idx[r]
          \/ pc[r] = "check" /\ ~InvP!More(r) /\ InvP!Returns(r, "success")
          \/ pc[r] = "rollback" /\ InvP!Undoing(r) = idx[r] /\ InvP!Returns(r, "insufficient")
          \/ InvP!Returns(r, "error")
      BY <1>1, <3>1, <3>3, InvP!ReserveEffect, StockAssumed
    <3>4. CASE pc[r] = "check" /\ InvP!More(r) /\ UNCHANGED <<open, idx, undone, result>>
               /\ \E s \in {"write", "rollback"} : pc' = [pc EXCEPT ![r] = s]
      <4>1. pc'[r] \in {"write", "rollback"}
        BY <3>4, <3>t
      <4>2. open[r] = 1 .. (idx[r] - 1) /\ undone[r] = 0 /\ idx[r] <= Len(items[r])
        BY <1>r, <1>1, <3>4 DEF Reserving, InvP!More
      <4> QED
        BY <1>r, <1>1, <1>3, <3>2, <3>3, <3>4, <3>t, <4>1, <4>2 DEF Reserving
    <3>5. CASE pc[r] = "write" /\ pc' = [pc EXCEPT ![r] = "check"]
               /\ open' = [open EXCEPT ![r] = @ \union {idx[r]}]
               /\ idx' = [idx EXCEPT ![r] = @ + 1] /\ UNCHANGED <<undone, result>>
      <4>1. open[r] = 1 .. (idx[r] - 1) /\ undone[r] = 0 /\ idx[r] \in 1 .. Len(items[r])
        BY <1>r, <1>1, <3>5 DEF Reserving, InvP!InRange
      <4>2. pc'[r] = "check" /\ idx'[r] = idx[r] + 1 /\ open'[r] = open[r] \union {idx[r]}
            /\ undone'[r] = 0 /\ result'[r] = "none"
        BY <3>3, <3>5, <3>t, <4>1
      <4>3. open'[r] = 1 .. (idx'[r] - 1)
        BY <3>t, <4>1, <4>2
      <4>4. open'[r] \subseteq 1 .. Len(items[r])
        BY <3>t, <4>1, <4>2
      <4> QED
        BY <1>3, <3>2, <3>3, <3>t, <4>1, <4>2, <4>3, <4>4 DEF Reserving
    <3>6. CASE pc[r] = "rollback" /\ open' = [open EXCEPT ![r] = @ \ {InvP!Undoing(r)}]
               /\ undone' = [undone EXCEPT ![r] = @ + 1] /\ UNCHANGED <<pc, idx, result>>
               /\ InvP!Undoing(r) < idx[r]
      <4>1. open[r] = (undone[r] + 1) .. (idx[r] - 1) /\ undone[r] + 1 < idx[r]
            /\ open[r] \subseteq 1 .. Len(items[r])
        BY <1>r, <1>1, <3>6 DEF Reserving, InvP!Undoing
      <4>2. undone'[r] = undone[r] + 1 /\ open'[r] = open[r] \ {undone[r] + 1}
        BY <3>6, <3>t DEF InvP!Undoing
      <4>3. open'[r] = (undone'[r] + 1) .. (idx[r] - 1) /\ open'[r] \subseteq 1 .. Len(items[r])
        BY <3>t, <4>1, <4>2
      <4> QED
        BY <1>3, <3>2, <3>3, <3>6, <3>t, <4>1, <4>2, <4>3 DEF Reserving
    <3>7. CASE pc[r] = "check" /\ ~InvP!More(r) /\ InvP!Returns(r, "success")
      <4>1. open[r] = 1 .. (idx[r] - 1) /\ idx[r] = Len(items[r]) + 1
        BY <1>r, <1>1, <3>7, <3>t DEF Reserving, InvP!More
      <4>2. pc'[r] = "done" /\ result'[r] = "success" /\ open'[r] = open[r]
        BY <3>7, <3>t DEF InvP!Returns
      <4>3. open'[r] = 1 .. Len(items[r])
        BY <3>t, <4>1, <4>2
      <4> QED
        BY <1>3, <3>2, <3>3, <4>2, <4>3 DEF Reserving
    <3>8. CASE pc[r] = "rollback" /\ InvP!Undoing(r) = idx[r] /\ InvP!Returns(r, "insufficient")
      <4>1. open[r] = (undone[r] + 1) .. (idx[r] - 1) /\ undone[r] + 1 = idx[r]
        BY <1>r, <1>1, <3>8 DEF Reserving, InvP!Undoing
      <4>2. open[r] = {}
        BY <3>t, <4>1
      <4>3. pc'[r] = "done" /\ result'[r] = "insufficient" /\ open'[r] = {}
        BY <3>8, <3>t, <4>2 DEF InvP!Returns
      <4> QED
        BY <1>3, <3>2, <3>3, <4>3 DEF Reserving
    <3>9. ~InvP!Returns(r, "error")
      BY <1>r, <3>t DEF InvP!Returns, Undisturbed
    <3> QED
      BY <3>e, <3>4, <3>5, <3>6, <3>7, <3>8, <3>9
  <2> QED
    BY <1>1, <2>1, <2>2 DEF StockStep
<1> QED
  BY <1>3, <1>5, <1>6 DEF Follows

(* A settler at work: it takes back from the front, alone or not.          *)
LEMMA FollowsSettle ==
    ASSUME Correct, Known, NEW o \in Orders, Follows(o), Undisturbed(o), Undisturbed(o)',
           NEW j \in Settlers(o), StockStep(j)
    PROVE  Follows(o)'
<1>r. PICK r \in Rpcs : r = Reservation(o) /\ r[1] = o
  BY Reservations DEF Reservation
<1>j. j \in Rpcs /\ j[1] = o /\ j[2] # "reserve" /\ MethodOf(j) \in {"release", "confirm"} /\ j # r
      /\ ReservationOf(j) = r
  BY <1>r DEF Settlers, Rpcs, MethodOf, Reservation, ReservationOf
<1>1. /\ Inv!TypeOK /\ InvP!TypeOK /\ InvP!InRange(j) /\ Bound(j) /\ Phase(j) /\ Reserving(o)
      /\ \A k \in Settlers(o) : Giving(o, k)
  BY <1>j, SameTypes DEF Correct, Within, Known, Follows
<1>2. \A k \in Settlers(o) : k \in Rpcs /\ k # r
  BY <1>r DEF Settlers, Rpcs, Reservation
<1>3. Reservation(o)' = r /\ Settlers(o)' = Settlers(o)
  BY <1>r DEF Reservation, Settlers
<1>t. /\ open \in [Rpcs -> SUBSET Nat] /\ pc \in [Rpcs -> Inv!Steps] /\ items \in [Rpcs -> Seq(Inv!Item)]
      /\ idx \in [Rpcs -> Nat \ {0}] /\ result \in [Rpcs -> Inv!Results] /\ op \in [Rpcs -> Inv!Methods]
      /\ undone \in [Rpcs -> Nat]
  BY <1>1 DEF Inv!TypeOK
<1>4. CASE Requested(j)
  <2>1. /\ promise[j] # "unmade" /\ pc' = [pc EXCEPT ![j] = IF MethodOf(j) = "reserve" THEN "check" ELSE "apply"]
        /\ pc[j] = "idle" /\ op' = [op EXCEPT ![j] = MethodOf(j)]
        /\ items' = [items EXCEPT ![j] = list[r[1]]] /\ idx' = [idx EXCEPT ![j] = 1]
        /\ undone' = [undone EXCEPT ![j] = 0] /\ UNCHANGED <<open, result>>
    BY <1>j, <1>4 DEF Requested, Rpc!Execute, Inv!Begin
  <2>2. items[r] = list[o] /\ op[r] = "reserve"
    BY <1>r, <2>1, SettlerFinds
  <2>3. /\ items'[j] = items[r] /\ idx'[j] = 1 /\ op'[j] # "none" /\ result'[j] = "none"
    BY <1>j, <1>r, <1>1, <1>t, <2>1, <2>2 DEF Phase
  <2>4. \A k \in Rpcs : k # j => pc'[k] = pc[k] /\ op'[k] = op[k] /\ items'[k] = items[k]
           /\ idx'[k] = idx[k] /\ undone'[k] = undone[k] /\ result'[k] = result[k]
    BY <1>t, <2>1
  <2>5. Reserving(o)'
    BY <1>r, <1>j, <1>1, <1>3, <2>1, <2>2, <2>3, <2>4 DEF Reserving
  <2>6. ASSUME NEW k \in Settlers(o) PROVE Giving(o, k)'
    <3>1. CASE k = j
      BY <1>r, <1>1, <1>3, <2>1, <2>3, <3>1 DEF Giving, Reserving
    <3>2. CASE k # j
      BY <1>r, <1>1, <1>2, <1>3, <2>1, <2>4, <3>2 DEF Giving
    <3> QED
      BY <3>1, <3>2
  <2> QED
    BY <1>3, <2>5, <2>6 DEF Follows
<1>5. CASE Inv!Handle(j)
  <2>1. InvP!Handle(j)
    BY <1>5, SameHandle
  <2>2. /\ InvP!Running(j) /\ UNCHANGED <<op, items, target>>
        /\ \A d \in Rpcs : d # j =>
              pc'[d] = pc[d] /\ idx'[d] = idx[d] /\ undone'[d] = undone[d] /\ result'[d] = result[d]
    BY <1>j, <1>1, <2>1, InvP!HandleFrame, StockAssumed
  <2>3. op[j] # "none" /\ op[j] = MethodOf(j) /\ promise[j] # "unmade" /\ target[j] = r
        /\ items[j] = list[o] /\ pc[j] = "apply" /\ result[j] = "none"
    BY <1>j, <1>r, <1>1, <1>t, <2>2 DEF Phase, Bound, InvP!Running, Inv!Steps
  <2>4. pc[r] = "done" /\ result[r] = "success" /\ op[r] = "reserve" /\ items[r] = list[o]
    BY <1>r, <2>3, SettlerFinds
  <2>5. open[r] \subseteq idx[j] .. Len(items[j]) /\ Len(items[j]) \in Nat
    BY <1>r, <1>1, <1>j, <1>t, <2>3 DEF Giving
  <2>6. CASE InvP!More(j) /\ open' = [open EXCEPT ![target[j]] = @ \ {idx[j]}]
             /\ idx' = [idx EXCEPT ![j] = @ + 1] /\ UNCHANGED <<pc, undone, result>>
    <3>1. open'[r] = open[r] \ {idx[j]} /\ idx'[j] = idx[j] + 1
      BY <1>j, <1>t, <2>3, <2>6
    <3>2. open'[r] \subseteq idx'[j] .. Len(items[j])
      BY <1>j, <1>t, <2>5, <3>1
    <3>3. Reserving(o)'
      BY <1>r, <1>1, <1>3, <2>2, <2>3, <2>4, <2>6, <3>1 DEF Reserving
    <3>4. ASSUME NEW k \in Settlers(o) PROVE Giving(o, k)'
      <4>1. CASE k = j
        BY <1>3, <2>2, <2>3, <2>6, <3>2, <4>1 DEF Giving
      <4>2. CASE k # j
        BY <1>r, <1>1, <1>2, <1>3, <2>2, <2>6, <3>1, <4>2 DEF Giving
      <4> QED
        BY <4>1, <4>2
    <3> QED
      BY <1>3, <3>3, <3>4 DEF Follows
  <2>7. CASE ~InvP!More(j) /\ InvP!Returns(j, "success")
    <3>1. open[r] = {} /\ open' = open
      BY <1>t, <1>j, <2>5, <2>7 DEF InvP!More, InvP!Returns
    <3>2. pc'[j] = "done" /\ result'[j] = "success"
      BY <1>j, <1>t, <2>7 DEF InvP!Returns
    <3>3. Reserving(o)'
      BY <1>r, <1>j, <1>1, <1>3, <2>2, <2>3, <2>4, <3>1 DEF Reserving
    <3>4. ASSUME NEW k \in Settlers(o) PROVE Giving(o, k)'
      BY <1>3, <3>1, <3>2 DEF Giving
    <3> QED
      BY <1>3, <3>3, <3>4 DEF Follows
  <2>8. ~InvP!Returns(j, "error")
    BY <1>j, <1>t DEF InvP!Returns, Undisturbed
  <2> QED
    BY <1>j, <1>1, <2>1, <2>3, <2>6, <2>7, <2>8, InvP!SettleEffect, StockAssumed
<1> QED
  BY <1>4, <1>5 DEF StockStep

(* A crash makes handlers forget where they were, not what they did.       *)
LEMMA FollowsCrash ==
    ASSUME Correct, NEW o \in Orders, Follows(o), Undisturbed(o), StockCrash
    PROVE  Follows(o)'
<1>1. Reservation(o)' = Reservation(o) /\ Settlers(o)' = Settlers(o)
  BY DEF Reservation, Settlers
<1>2. Reservation(o) \in Rpcs /\ \A k \in Settlers(o) : k \in Rpcs
  BY OrderRpcs DEF Settlers
<1>3. /\ UNCHANGED <<op, items, idx, undone, result, open>>
      /\ \A k \in Rpcs : pc'[k] = pc[k] \/ pc'[k] = "idle"
  BY DEF StockCrash
<1>4. Reserving(o)'
  BY <1>1, <1>2, <1>3 DEF Follows, Reserving
<1>5. \A k \in Settlers(o) : Giving(o, k)'
  BY <1>1, <1>2, <1>3 DEF Follows, Giving
<1> QED
  BY <1>1, <1>4, <1>5 DEF Follows

LEMMA FollowsNext ==
    ASSUME Correct, Known, [Next]_vars, NEW o \in Orders, Follows(o)
    PROVE  Follows(o)'
<1> SUFFICES ASSUME Undisturbed(o)' PROVE Follows(o)'
  BY DEF Follows
<1>1. Undisturbed(o)
  BY UndisturbedBefore
<1>2. CASE UNCHANGED inventory
  <2>1. Elsewhere(o)
    BY <1>2 DEF inventory, Elsewhere
  <2> QED
    BY <1>1, <2>1, FollowsElsewhere
<1>3. ASSUME NEW r \in Requests, Own(r) PROVE UNCHANGED inventory
  BY <1>3, CallMoves DEF Own
<1>4. ASSUME NEW j \in Rpcs, StockStep(j) PROVE Follows(o)'
  <2>1. CASE j[1] # o
    BY <1>1, <1>4, <2>1, OthersElsewhere, FollowsElsewhere
  <2>2. CASE j[1] = o
    <3>1. j = Reservation(o) \/ j \in Settlers(o)
      BY <2>2, OrderRpcs DEF Settlers
    <3> QED
      BY <1>1, <1>4, <3>1, FollowsReserve, FollowsSettle
  <2> QED
    BY <2>1, <2>2
<1>5. CASE StockCrash \/ OrderCrash
  <2>1. CASE OrderCrash
    BY <1>2, <2>1 DEF OrderCrash
  <2>2. CASE StockCrash
    BY <1>1, <2>2, FollowsCrash
  <2> QED
    BY <1>5, <2>1, <2>2
<1>6. CASE UNCHANGED vars
  BY <1>2, <1>6 DEF vars
<1> QED
  BY <1>2, <1>3, <1>4, <1>5, <1>6, CreateOwns, CancelOwns DEF Next, Done, Requests

LEMMA FollowsInit == ASSUME Init, NEW o \in Orders PROVE Follows(o)
<1>1. Reservation(o) \in Rpcs /\ \A k \in Settlers(o) : k \in Rpcs
  BY DEF Reservation, Settlers, Rpcs
<1>2. \A k \in Rpcs : op[k] = "none" /\ pc[k] = "idle" /\ result[k] = "none" /\ open[k] = {}
  BY DEF Init, Inv!Init
<1> QED
  BY <1>1, <1>2 DEF Follows, Reserving, Giving

(* What a create has answered tells which of its RPCs were answered, and   *)
(* those what is left of the reservation.                                  *)
LEMMA OutcomeFollows ==
    ASSUME Correct, Known, NEW o \in Orders, Follows(o), Undisturbed(o)
    PROVE  /\ reply[o] \in {"400", "500"} => Holds(o) = {}
           /\ reply[o] = "201" => Holds(o) = IF charged[o] THEN {} ELSE DOMAIN list[o]
<1> DEFINE R == <<o, "reserve">>
           C == <<o, "confirm">>
           L == <<o, "release">>
           U == <<o, "undo">>
<1>1. /\ R \in Rpcs /\ C \in Rpcs /\ L \in Rpcs /\ U \in Rpcs /\ Reservation(o) = R
      /\ Settlers(o) = {C, L, U} /\ Holds(o) = open[R]
      /\ ReservationOf(R) = R /\ R[1] = o /\ MethodOf(R) = "reserve"
      /\ \A k \in {C, L, U} : MethodOf(k) # "reserve" /\ k[1] = o
  BY DEF Rpcs, Reservation, Settlers, Holds, ReservationOf, MethodOf
<1>2. Made(o) /\ Reserving(o) /\ Giving(o, C) /\ Giving(o, U)
  BY <1>1 DEF Known, Follows
<1>3. result \in [Rpcs -> Inv!Results]
  BY DEF Correct, Typed
<1>4. \A k \in {R, C, U} : Answered(k) => promise[k] = "resolved" /\ pc[k] = "done"
                                         /\ result[k] \in {"success", "insufficient"}
  <2> SUFFICES ASSUME NEW k \in {R, C, U}, Answered(k)
               PROVE  promise[k] = "resolved" /\ pc[k] = "done" /\ result[k] \in {"success", "insufficient"}
    OBVIOUS
  <2>1. k \in Rpcs /\ k[1] = o
    BY <1>1
  <2>2. promise[k] = "resolved" /\ result[k] # "error"
    BY <2>1 DEF Answered, Undisturbed
  <2>3. pc[k] = "done" /\ result[k] # "none"
    BY <2>1, <2>2 DEF Known, Heard, Phase
  <2> QED
    BY <1>3, <2>1, <2>2, <2>3 DEF Inv!Results
<1>5. \A k \in {C, U} : Answered(k) => open[R] = {}
  <2> SUFFICES ASSUME NEW k \in {C, U}, Answered(k) PROVE open[R] = {}
    OBVIOUS
  <2>1. k \in Rpcs /\ pc[k] = "done" /\ result[k] \in {"success", "insufficient"} /\ Giving(o, k)
    BY <1>1, <1>2, <1>4
  <2>2. op[k] = MethodOf(k)
    BY <2>1 DEF Known, Phase, Bound
  <2>3. result[k] = "success"
    BY <1>1, <2>1, <2>2 DEF Known, Phase
  <2> QED
    BY <1>1, <2>1, <2>3 DEF Giving
<1>6. ASSUME reply[o] \in {"400", "500"} PROVE open[R] = {}
  <2>1. CASE Answered(U)
    BY <1>5, <2>1
  <2>2. CASE Answered(R) /\ (promise[R] = "resolved" => result[R] # "success")
    <3>1. result[R] = "insufficient"
      BY <1>4, <2>2
    <3> QED
      BY <1>1, <1>2, <3>1 DEF Reserving
  <2> QED
    BY <1>1, <1>2, <1>6, <2>1, <2>2 DEF Made
<1>7. ASSUME reply[o] = "201", charged[o] PROVE open[R] = {}
  BY <1>2, <1>5, <1>7 DEF Made
<1>8. ASSUME reply[o] = "201", ~charged[o] PROVE open[R] = DOMAIN list[o]
  <2>1. Unmade(C) /\ Unmade(L) /\ Unmade(U) /\ Reserves(o)
    BY <1>2, <1>8 DEF Made
  <2>2. \A k \in {C, L, U} : op[k] = "none"
    BY <1>1, <2>1 DEF Known, Bound, Unmade
  <2>3. result[R] = "success" /\ pc[R] = "done"
    BY <1>1, <2>1 DEF Reserves
  <2>4. open[R] = 1 .. Len(items[R])
    BY <1>1, <1>2, <2>2, <2>3 DEF Reserving
  <2>5. items[R] = list[o]
    BY <1>1, <2>3 DEF Known, Phase, Bound
  <2>6. list[o] \in Seq([productId : Products, quantity : Nat \ {0}])
    BY CheckoutAssumption DEF Correct, OrderTypes
  <2> QED
    BY <2>4, <2>5, <2>6
<1> HIDE DEF R
<1> QED
  BY <1>1, <1>6, <1>7, <1>8

(* An order that nothing failed for, that nobody cancelled and that no     *)
(* crash touched holds the stock its answer says: for any other orders,    *)
(* whatever their RPCs, their payments and their cancels come to.          *)
THEOREM StockFollows == Spec => []StockFollowsOutcome
<1>1. Init => \A o \in Orders : Follows(o)
  BY FollowsInit
<1>2. Correct /\ Known /\ (\A o \in Orders : Follows(o)) /\ [Next]_vars =>
         (\A o \in Orders : Follows(o))'
  BY FollowsNext
<1>3. Correct /\ Known /\ (\A o \in Orders : Follows(o)) => StockFollowsOutcome
  BY OutcomeFollows DEF StockFollowsOutcome
<1> QED
  BY <1>1, <1>2, <1>3, AlwaysKnown, PTL DEF Spec
=============================================================================
