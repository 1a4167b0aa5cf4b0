------------------------------ MODULE Checkout ------------------------------
(***************************************************************************)
(* Orders across two services: OrderService.create and OrderService.cancel *)
(* in the order service, the RPCs they make, the inventory service that    *)
(* executes them, and Stripe.  There is no transaction around an order:    *)
(* each RPC, each database statement and the payment is a step of its own, *)
(* and any other request may run in between.                               *)
(*                                                                         *)
(* The RPCs are those of RpcContract, the handlers those of Inventory.     *)
(***************************************************************************)
EXTENDS Integers, Sequences, FiniteSets

CONSTANTS
    Orders,      \* requests to create an order
    Cancels,     \* requests to cancel one
    Products, ItemLists, Stock, MaxConcurrent,   \* see Inventory
    Declines,    \* may a payment fail?
    Timeouts,    \* may an RPC time out before its answer arrives?
    DbFaults,    \* may a statement of the order service throw?
    StockFaults, \* may a statement of the inventory service throw?
    MaxCrashes   \* bound on crashes of the two services

ASSUME CheckoutAssumption ==
    /\ IsFiniteSet(Orders) /\ IsFiniteSet(Cancels) /\ Orders \intersect Cancels = {}
    /\ {Declines, Timeouts, DbFaults, StockFaults} \subseteq BOOLEAN
    /\ MaxCrashes \in Nat
    /\ ItemLists \subseteq Seq([productId : Products, quantity : Nat \ {0}])
    /\ Stock \subseteq Nat /\ MaxConcurrent \in Nat \ {0}

(* One RPC per place in the code that makes one.  "release" is the release *)
(* of a cancel or after a failed payment, "undo" that of create's catch.   *)
Rpcs == (Orders \X {"reserve", "confirm", "release", "undo"}) \union (Cancels \X {"release"})

VARIABLES
    at,       \* where each create and each cancel stands
    reply,    \* the HTTP status it was answered with
    list,     \* the items of each order
    victim,   \* the order each cancel names
    status,   \* Order.status, "absent" before the row exists
    payment,  \* Order.paymentStatus
    charged,  \* history: Stripe has taken the money
    events,   \* order events published to orders.exchange
    crashes,  \* crashes so far
    promise, runs,                                   \* RpcContract
    rows, quantity, reserved,                        \* Inventory
    pc, op, items, idx, undone, seen, result, target, open

order     == <<status, payment, charged, events>>
inputs    == <<list, victim>>
rpc       == <<promise, runs>>
inventory == <<rows, quantity, reserved, pc, op, items, idx, undone, seen, result, target, open>>
vars      == <<at, reply, order, inputs, rpc, inventory, crashes>>

Rpc == INSTANCE RpcContract WITH Calls <- Rpcs
Inv == INSTANCE Inventory
          WITH Calls <- Rpcs, Updates <- {}, Deletes <- FALSE, DbFaults <- StockFaults

Requests  == Orders \union Cancels
Positions == {"new", "reserving", "creating", "paying", "completing", "confirming",
              "settling", "releasing", "marking", "caught", "undoing", "publishing",
              "answered", "crashed"}

TypeOK ==
    /\ promise \in [Rpcs -> Rpc!Promises]
    /\ runs \in [Rpcs -> Nat]
    /\ Inv!TypeOK
    /\ at \in [Requests -> Positions]
    /\ reply \in [Requests -> {"none", "200", "201", "400", "404", "500"}]
    /\ list \in [Orders -> ItemLists]
    /\ victim \in [Cancels -> Orders]
    /\ status \in [Orders -> {"absent", "PENDING", "CONFIRMED", "CANCELLED"}]
    /\ payment \in [Orders -> {"PENDING", "COMPLETED"}]
    /\ charged \in [Orders -> BOOLEAN]
    /\ events \subseteq Requests
    /\ crashes \in 0 .. MaxCrashes

Init ==
    /\ Rpc!Init
    /\ Inv!Init
    /\ at = [r \in Requests |-> "new"]
    /\ reply = [r \in Requests |-> "none"]
    /\ list \in [Orders -> ItemLists]
    /\ victim \in [Cancels -> Orders]
    /\ status = [o \in Orders |-> "absent"]
    /\ payment = [o \in Orders |-> "PENDING"]
    /\ charged = [o \in Orders |-> FALSE]
    /\ events = {}
    /\ crashes = 0

-----------------------------------------------------------------------------
(* How a request moves.                                                    *)

Go(r, from, to) ==
    at[r] = from /\ at' = [at EXCEPT ![r] = to] /\ UNCHANGED <<inputs, crashes>>

Answer(r, from, code) == Go(r, from, "answered") /\ reply' = [reply EXCEPT ![r] = code]

Quiet == UNCHANGED <<reply, order>>

Send(k) == Rpc!Make(k) /\ UNCHANGED inventory

(* Mutant: an answer is waited for without a timeout.                      *)
DeniedByServer(k) ==
    /\ pc[k] = "done" /\ result[k] # "success" /\ Rpc!Resolve(k)
    /\ UNCHANGED inventory

(* MessagingService turns a rejected RPC into {success: false}.            *)
Granted(k) ==
    pc[k] = "done" /\ result[k] = "success" /\ Rpc!Resolve(k) /\ UNCHANGED inventory
Denied(k) ==
    /\ \/ pc[k] = "done" /\ result[k] # "success" /\ Rpc!Resolve(k)
       \/ Timeouts /\ Rpc!Reject(k)
    /\ UNCHANGED inventory
Settled(k) == Granted(k) \/ Denied(k)

Local == UNCHANGED <<rpc, inventory>>

-----------------------------------------------------------------------------
(* OrderService.create.                                                    *)

Create(o) == Go(o, "new", "reserving") /\ Send(<<o, "reserve">>) /\ Quiet

(* Mutants: the answer is not looked at; the try begins before the RPC.    *)
ReservedAnyway(o) ==
    UNCHANGED <<order, reply>> /\ Go(o, "reserving", "creating") /\ Settled(<<o, "reserve">>)

ReservedInTry(o) ==
    /\ UNCHANGED <<order, reply>>
    /\ \/ Go(o, "reserving", "creating") /\ Granted(<<o, "reserve">>)
       \/ Go(o, "reserving", "caught") /\ Denied(<<o, "reserve">>)

Reserved(o) ==
    /\ UNCHANGED order
    /\ \/ Go(o, "reserving", "creating") /\ Granted(<<o, "reserve">>) /\ UNCHANGED reply
       \/ Answer(o, "reserving", "400") /\ Denied(<<o, "reserve">>)

(* The row is written; a request without a payment method is done with it. *)
CreateRow(o) ==
    /\ Go(o, "creating", "paying") \/ Go(o, "creating", "publishing")
    /\ status' = [status EXCEPT ![o] = "PENDING"]
    /\ UNCHANGED <<reply, payment, charged, events>> /\ Local

(* Mutant: the order is confirmed without its payment being recorded.      *)
PayUnrecorded(o) ==
    /\ \/ Go(o, "paying", "confirming") /\ charged' = [charged EXCEPT ![o] = TRUE]
       \/ /\ Declines /\ Go(o, "paying", "releasing")
          /\ \E taken \in BOOLEAN : charged' = [charged EXCEPT ![o] = taken]
    /\ UNCHANGED <<reply, status, payment, events>>
    /\ IF at'[o] = "releasing" THEN Send(<<o, "release">>) ELSE Local

(* processPayment turns every exception into success: false, one that      *)
(* comes after Stripe took the money included.                             *)
Pay(o) ==
    /\ \/ Go(o, "paying", "completing") /\ charged' = [charged EXCEPT ![o] = TRUE]
       \/ /\ Declines /\ Go(o, "paying", "releasing")
          /\ \E taken \in BOOLEAN : charged' = [charged EXCEPT ![o] = taken]
    /\ UNCHANGED <<reply, status, payment, events>>
    /\ IF at'[o] = "releasing" THEN Send(<<o, "release">>) ELSE Local

CompletePayment(o) ==
    /\ Go(o, "completing", "confirming")
    /\ payment' = [payment EXCEPT ![o] = "COMPLETED"]
    /\ UNCHANGED <<reply, status, charged, events>> /\ Local

(* The status is set whatever it has become since the row was created.     *)
Confirm(o) ==
    /\ Go(o, "confirming", "settling")
    /\ status' = [status EXCEPT ![o] = "CONFIRMED"]
    /\ UNCHANGED <<reply, payment, charged, events>> /\ Send(<<o, "confirm">>)

(* Mutant: a confirmReservation that fails is thrown.                      *)
ConfirmedOrThrows(o) ==
    /\ \/ Go(o, "settling", "publishing") /\ Granted(<<o, "confirm">>)
       \/ Go(o, "settling", "caught") /\ Denied(<<o, "confirm">>)
    /\ Quiet

(* confirmReservation's answer is not looked at.                           *)
Confirmed(o) == Go(o, "settling", "publishing") /\ Settled(<<o, "confirm">>) /\ Quiet

(* Nor is releaseStock's, before the throw that leads to the catch block.  *)
Released(o) == Go(o, "releasing", "caught") /\ Settled(<<o, "release">>) /\ Quiet

PublishCreated(o) ==
    /\ Answer(o, "publishing", "201")
    /\ events' = events \union {o}
    /\ UNCHANGED <<status, payment, charged>> /\ Local

(* Mutant: the exception leaves create without the release.                *)
ThrowsThrough(o) ==
    /\ DbFaults
    /\ \E from \in {"creating", "completing", "confirming"} : Answer(o, from, "500")
    /\ UNCHANGED order /\ Local

(* A statement inside the try throws.                                      *)
CreateThrows(o) ==
    /\ DbFaults
    /\ \E from \in {"creating", "completing", "confirming"} : Go(o, from, "caught")
    /\ Quiet /\ Local

Undo(o) == Go(o, "caught", "undoing") /\ Send(<<o, "undo">>) /\ Quiet

(* A failed payment is a BadRequestError; anything else is a server error. *)
PaymentFailed(o) == promise[<<o, "release">>] # "unmade"

Undone(o) ==
    /\ Answer(o, "undoing", IF PaymentFailed(o) THEN "400" ELSE "500")
    /\ Settled(<<o, "undo">>) /\ UNCHANGED order

CreateStep(o) ==
    \/ Create(o) \/ Reserved(o) \/ CreateRow(o) \/ Pay(o) \/ CompletePayment(o)
    \/ Confirm(o) \/ Confirmed(o) \/ Released(o) \/ PublishCreated(o)
    \/ CreateThrows(o) \/ Undo(o) \/ Undone(o)

-----------------------------------------------------------------------------
(* OrderService.cancel.                                                    *)

Cancellable == {"PENDING", "CONFIRMED"}

(* The order is read and its status checked, once, before the release.     *)
Cancel(x) ==
    LET s == status[victim[x]]
    IN  /\ UNCHANGED order
        /\ \/ DbFaults /\ Answer(x, "new", "500") /\ Local
           \/ s = "absent" /\ Answer(x, "new", "404") /\ Local
           \/ s \notin Cancellable \union {"absent"} /\ Answer(x, "new", "400") /\ Local
           \/ /\ s \in Cancellable /\ Go(x, "new", "releasing")
              /\ Send(<<x, "release">>) /\ UNCHANGED reply

CancelReleased(x) == Go(x, "releasing", "marking") /\ Settled(<<x, "release">>) /\ Quiet

MarkCancelled(x) ==
    /\ \/ /\ Answer(x, "marking", "200")
          /\ status' = [status EXCEPT ![victim[x]] = "CANCELLED"]
          /\ events' = events \union {x}
       \/ DbFaults /\ Answer(x, "marking", "500") /\ UNCHANGED <<status, events>>
    /\ UNCHANGED <<payment, charged>> /\ Local

CancelStep(x) == Cancel(x) \/ CancelReleased(x) \/ MarkCancelled(x)

-----------------------------------------------------------------------------
(* The inventory service takes a request from the queue and works on it.   *)

ReservationOf(k) == <<IF k[1] \in Orders THEN k[1] ELSE victim[k[1]], "reserve">>
MethodOf(k) == IF k[2] = "undo" THEN "release" ELSE k[2]

Requested(k) ==
    /\ Rpc!Execute(k)
    /\ Inv!Begin(k, MethodOf(k), list[ReservationOf(k)[1]], ReservationOf(k))

StockStep(k) ==
    /\ Requested(k) \/ (Inv!Handle(k) /\ UNCHANGED rpc)
    /\ UNCHANGED <<at, reply, order, inputs, crashes>>

-----------------------------------------------------------------------------
(* Crashes.                                                                *)

Crash == crashes < MaxCrashes /\ crashes' = crashes + 1

(* Requests the inventory service was working on are not acked: when it is *)
(* back they are delivered again, and start from their first item.         *)
StockCrash ==
    /\ Crash
    /\ \E k \in Rpcs : Inv!Running(k)
    /\ pc' = [k \in Rpcs |-> IF Inv!Running(k) THEN "idle" ELSE pc[k]]
    /\ UNCHANGED <<at, reply, order, inputs, rpc, rows, quantity, reserved,
                   op, items, idx, undone, seen, result, target, open>>

(* Requests the order service was working on are simply gone.              *)
OrderCrash ==
    /\ Crash
    /\ LET busy == {r \in Requests : at[r] \notin {"new", "answered", "crashed"}}
       IN  /\ busy # {}
           /\ at' = [r \in Requests |-> IF r \in busy THEN "crashed" ELSE at[r]]
    /\ Rpc!Abandon({k \in Rpcs : promise[k] = "pending"})
    /\ UNCHANGED <<reply, order, inputs, inventory>>

Done ==
    /\ \A r \in Requests : at[r] \in {"answered", "crashed"}
    /\ \A k \in Rpcs : promise[k] # "unmade" => pc[k] = "done"
    /\ UNCHANGED vars

Next ==
    \/ \E o \in Orders : CreateStep(o)
    \/ \E x \in Cancels : CancelStep(x)
    \/ \E k \in Rpcs : StockStep(k)
    \/ StockCrash \/ OrderCrash
    \/ Done

Spec == Init /\ [][Next]_vars

(* The order service resumes what it has started; timers included.  Of the *)
(* inventory service nothing is assumed.                                   *)
FairSpec ==
    /\ Spec
    /\ \A o \in Orders : WF_vars(CreateStep(o) /\ at[o] # "new")
    /\ \A x \in Cancels : WF_vars(CancelStep(x) /\ at[x] # "new")

-----------------------------------------------------------------------------
(* Properties.                                                             *)

Reservation(o) == <<o, "reserve">>
Holds(o)       == open[Reservation(o)]

(* An order is CONFIRMED only once its payment is recorded, and a payment  *)
(* is recorded only once Stripe has taken the money; whatever cancels,     *)
(* timeouts, failing statements and crashes come in between.               *)
ConfirmedIsPaid ==
    \A o \in Orders :
        /\ status[o] = "CONFIRMED" => payment[o] = "COMPLETED"
        /\ payment[o] = "COMPLETED" => charged[o]

(* No order row, and so no charge, without a reservation the inventory     *)
(* service granted in full.                                                *)
NoOrderWithoutStock ==
    \A o \in Orders :
        status[o] # "absent" \/ charged[o] => result[Reservation(o)] = "success"

(* A create that answers an error never leaves a confirmed order behind:   *)
(* after the CONFIRMED statement nothing in create's try can throw.        *)
FailureIsNotConfirmed ==
    \A o \in Orders : reply[o] \in {"400", "500"} => status[o] # "CONFIRMED"

(* When none of its RPCs timed out, met an error or was executed twice,    *)
(* and nobody cancels it, an order's stock follows its outcome, whatever   *)
(* befalls the orders beside it: an unpaid order keeps its reservation, a  *)
(* paid one has had it taken out of stock, a failed one has given it back. *)
Undisturbed(o) ==
    /\ \A k \in Rpcs : k[1] = o => promise[k] # "rejected" /\ result[k] # "error" /\ runs[k] <= 1
    /\ \A x \in Cancels : victim[x] = o => promise[<<x, "release">>] = "unmade"

StockFollowsOutcome ==
    \A o \in Orders : Undisturbed(o) =>
        /\ reply[o] \in {"400", "500"} => Holds(o) = {}
        /\ reply[o] = "201" =>
              Holds(o) = IF charged[o] THEN {} ELSE DOMAIN list[o]

(* A reservation is settled by one call, unless a payment fails (release   *)
(* and undo) or a cancel comes across a create or another cancel.          *)
Settles(k) == MethodOf(k) \in {"release", "confirm"} /\ promise[k] # "unmade"
SettledOnce ==
    \A j, k \in Rpcs : Settles(j) /\ Settles(k) /\ ReservationOf(j) = ReservationOf(k) => j = k

(* Until then, and until a crash has a call executed twice,                *)
(* reservedQuantity is what reservations hold, those that a timed-out      *)
(* create has abandoned and those that a crash cut short included.         *)
StockIsAccountedFor ==
    SettledOnce /\ (\A k \in Rpcs : runs[k] <= 1) => Inv!Accounting

(* A request that a crash cut short is delivered again, and its handler    *)
(* starts over from the first item: a reservation may be entered twice.    *)
(* As long as this befalls reservations only, reservedQuantity is never    *)
(* less than what they hold: stock may be withheld for good, but what an   *)
(* order has been granted is not offered to another.                       *)
RedeliveryOnlyWithholds ==
    SettledOnce /\ (\A k \in Rpcs : Settles(k) => runs[k] <= 1) =>
        \A p \in rows : reserved[p] >= Cardinality(Inv!Units(p))

(* Every create and every cancel that starts is answered, even when the    *)
(* inventory service never does, unless the order service itself dies.     *)
EveryRequestAnswered ==
    \A r \in Requests : at[r] # "new" ~> at[r] \in {"answered", "crashed"}

(* docs: "Release previously reserved stock": what create or cancel has    *)
(* released is still reserved, by the order it is released for.            *)
OnlyReservedIsReleased ==
    [][\A k \in Rpcs :
          MethodOf(k) = "release" /\ idx[k]' > idx[k]
              => idx[k] \in Holds(ReservationOf(k)[1])]_vars

(* docs: a cancel that answers 200 leaves the order CANCELLED.             *)
CancelSticks ==
    \A x \in Cancels : reply[x] = "200" => status[victim[x]] = "CANCELLED"
=============================================================================
