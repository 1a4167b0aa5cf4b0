--------------------------- MODULE Notifications ---------------------------
(***************************************************************************)
(* The order events on their way to a mail: the order service publishes,   *)
(* RabbitMQ keeps, and the processes of the notification service consume,  *)
(* mail, and acknowledge or reject.  With them the processes' boots, the   *)
(* connections that break under them, and their ends.                      *)
(*                                                                         *)
(* Nobody limits how much a process is given at once (no prefetch), so its *)
(* handlers run side by side, each for one delivery.                       *)
(***************************************************************************)
EXTENDS Integers, Sequences, FiniteSets

CONSTANTS
    Events,      \* order events, each published once
    Procs,       \* processes of the notification service
    Queues,      \* its queues, in the order in which it sets them up
    QueueOf,     \* the queue each event's routing key leads to
    MaxFaults    \* bound on breaks, crashes and shutdowns

Places == {"unpublished", "lost", "queued", "acked", "dropped"}

ASSUME NotificationsAssumption ==
    /\ Queues \in Seq(STRING)
    /\ QueueOf \in [Events -> {Queues[k] : k \in DOMAIN Queues}]
    /\ Procs \intersect Places = {}
    /\ IsFiniteSet(Procs)
    /\ MaxFaults \in Nat

VARIABLES
    where,      \* where each event is; a process: delivered to it, unacknowledged
    bound,      \* the queues that are bound to their exchange
    mode,       \* "leaving": SIGTERM was received
    chan,       \* each process's channel; "broken": gone, but not known to be
    stage,      \* how far each process is with setupQueues and startConsumers
    handler,    \* the handler each process runs for each event
    mails,      \* how many mails the SMTP server accepted for each event
    refused,    \* history: the events of which a mail was refused
    takenBack,  \* history: how often the broker took each event back
    faults

life  == <<mode, chan, stage, handler, faults>>
mail  == <<mails, refused>>
vars  == <<where, bound, mode, chan, stage, handler, mails, refused, takenBack, faults>>

TypeOK ==
    /\ where \in [Events -> Places \union Procs]
    /\ bound \subseteq {Queues[k] : k \in DOMAIN Queues}
    /\ mode \in [Procs -> {"down", "up", "leaving"}]
    /\ chan \in [Procs -> {"open", "broken", "closed"}]
    /\ stage \in [Procs -> 0 .. 2 * Len(Queues)]
    /\ handler \in [Procs -> [Events -> {"none", "sending", "accepted", "failing"}]]
    /\ mails \in [Events -> Nat]
    /\ refused \subseteq Events
    /\ takenBack \in [Events -> Nat]
    /\ faults \in 0 .. MaxFaults

Init ==
    /\ where = [e \in Events |-> "unpublished"]
    /\ bound = {}
    /\ mode = [p \in Procs |-> "down"]
    /\ chan = [p \in Procs |-> "closed"]
    /\ stage = [p \in Procs |-> 0]
    /\ handler = [p \in Procs |-> [e \in Events |-> "none"]]
    /\ mails = [e \in Events |-> 0]
    /\ refused = {}
    /\ takenBack = [e \in Events |-> 0]
    /\ faults = 0

Idle(p) == \A e \in Events : handler[p][e] = "none"

(* A step of the handler that p runs for e.                                *)
Step(p, e, from, to) ==
    /\ handler[p][e] = from
    /\ handler' = [handler EXCEPT ![p][e] = to]

Fault == faults < MaxFaults /\ faults' = faults + 1

(* The broker has lost p's channel: what p had not acknowledged is queued. *)
TakeBack(p) ==
    /\ where' = [e \in Events |-> IF where[e] = p THEN "queued" ELSE where[e]]
    /\ takenBack' = [e \in Events |->
                       IF where[e] = p THEN takenBack[e] + 1 ELSE takenBack[e]]

(* The process ends, and its handlers with it.                             *)
Exit(p) ==
    /\ mode[p] # "down" /\ mode' = [mode EXCEPT ![p] = "down"]
    /\ chan' = [chan EXCEPT ![p] = "closed"]
    /\ handler' = [handler EXCEPT ![p] = [e \in Events |-> "none"]]
    /\ TakeBack(p)

-----------------------------------------------------------------------------
(* The order service.                                                      *)

(* publishOrderCreated, publishOrderCancelled: fire and forget.  The event *)
(* is lost when the publisher's channel is, which is logged at most, and   *)
(* when the queue is not bound yet.                                        *)
Publish(e) ==
    /\ where[e] = "unpublished"
    /\ \/ QueueOf[e] \in bound /\ where' = [where EXCEPT ![e] = "queued"]
       \/ where' = [where EXCEPT ![e] = "lost"]
    /\ UNCHANGED <<bound, life, mail, takenBack>>

-----------------------------------------------------------------------------
(* A process of the notification service: its boot.                        *)

(* connect                                                                 *)
Start(p) ==
    /\ mode[p] = "down" /\ mode' = [mode EXCEPT ![p] = "up"]
    /\ chan' = [chan EXCEPT ![p] = "open"]
    /\ stage' = [stage EXCEPT ![p] = 0]
    /\ UNCHANGED <<where, bound, handler, mail, takenBack, faults>>

(* setupQueues binds the queues one by one, then startConsumers starts a   *)
(* consumer on each, one by one.                                           *)
Boot(p) ==
    /\ mode[p] = "up" /\ chan[p] = "open"
    /\ stage[p] < 2 * Len(Queues)
    /\ stage' = [stage EXCEPT ![p] = @ + 1]
    /\ bound' = IF stage[p] < Len(Queues) THEN bound \union {Queues[stage[p] + 1]}
                                          ELSE bound
    /\ UNCHANGED <<where, mode, chan, handler, mail, takenBack, faults>>

(* Mutant: start's catch only logs.                                        *)
BootFailureIsLogged(p) ==
    /\ chan[p] = "closed" /\ stage[p] < 2 * Len(Queues)
    /\ UNCHANGED vars

(* start's catch: the process ends.                                        *)
BootFails(p) ==
    /\ chan[p] = "closed" /\ stage[p] < 2 * Len(Queues)
    /\ Exit(p)
    /\ UNCHANGED <<bound, stage, mail, faults>>

Consuming(p) == {Queues[k] : k \in 1 .. stage[p] - Len(Queues)}

-----------------------------------------------------------------------------
(* consume, and the handlers.                                              *)

(* Mutant: the queue is consumed without acknowledgements (noAck).         *)
DeliverNoAck(p, e) ==
    /\ where[e] = "queued" /\ QueueOf[e] \in Consuming(p)
    /\ mode[p] # "down" /\ chan[p] = "open"
    /\ where' = [where EXCEPT ![e] = "acked"]
    /\ Step(p, e, "none", "sending")
    /\ UNCHANGED <<bound, mode, chan, stage, mail, takenBack, faults>>

(* The handler begins: sendOrderConfirmation, sendOrderCancellation.       *)
Deliver(p, e) ==
    /\ where[e] = "queued" /\ QueueOf[e] \in Consuming(p)
    /\ mode[p] # "down" /\ chan[p] = "open"
    /\ where' = [where EXCEPT ![e] = p]
    /\ Step(p, e, "none", "sending")
    /\ UNCHANGED <<bound, mode, chan, stage, mail, takenBack, faults>>

(* The SMTP server takes the mail; sendMail has not heard of it yet.       *)
Accept(p, e) ==
    /\ Step(p, e, "sending", "accepted")
    /\ mails' = [mails EXCEPT ![e] = @ + 1]
    /\ UNCHANGED <<where, bound, mode, chan, stage, refused, takenBack, faults>>

(* sendMail throws: the mail is refused or its connection breaks, before   *)
(* or after it was accepted.  The error is stored, twice.                  *)
MailFails(p, e) ==
    /\ \E from \in {"sending", "accepted"} : Step(p, e, from, "failing")
    /\ refused' = refused \union {e}
    /\ UNCHANGED <<where, bound, mode, chan, stage, mails, takenBack, faults>>

(* Mutant: the message that was rejected is queued again.                  *)
SettleRequeue(p, e, place) ==
    where' = [where EXCEPT ![e] = IF place = "dropped" THEN "queued" ELSE place]

(* ack, and nack without requeue.                                          *)
Settle(p, e, place) == where' = [where EXCEPT ![e] = place]

(* The handler is done.  On a channel that is gone, but not known to be,   *)
(* the broker never hears of it.  On a closed one ack throws, and so does  *)
(* the nack in the catch: the rejection is nobody's, and ends the process. *)
Done(p, e, from, place) ==
    /\ handler[p][e] = from
    /\ \/ /\ chan[p] # "closed"
          /\ Step(p, e, from, "none")
          /\ \/ chan[p] = "open" /\ Settle(p, e, place)
             \/ chan[p] = "broken" /\ UNCHANGED where
          /\ UNCHANGED <<mode, chan, takenBack>>
       \/ chan[p] = "closed" /\ Exit(p)
    /\ UNCHANGED <<bound, stage, mail, faults>>

(* Mutant: the handler's mail is not awaited.                              *)
AckUnawaited(p, e) == \E from \in {"sending", "accepted"} : Done(p, e, from, "acked")

Ack(p, e) == Done(p, e, "accepted", "acked")

(* Mutant: the catch only logs.                                            *)
NackForgotten(p, e) ==
    /\ Step(p, e, "failing", "none")
    /\ UNCHANGED <<where, bound, mode, chan, stage, mail, takenBack, faults>>

Nack(p, e) == Done(p, e, "failing", "dropped")

-----------------------------------------------------------------------------
(* What befalls a process.                                                 *)

(* The connection breaks; the broker sees it first.                        *)
Break(p) ==
    /\ mode[p] # "down" /\ chan[p] = "open"
    /\ chan' = [chan EXCEPT ![p] = "broken"]
    /\ Fault /\ TakeBack(p)
    /\ UNCHANGED <<bound, mode, stage, handler, mail>>

(* 'close' is only logged: nothing connects again.                         *)
Notice(p) ==
    /\ chan[p] = "broken"
    /\ chan' = [chan EXCEPT ![p] = "closed"]
    /\ UNCHANGED <<where, bound, mode, stage, handler, mail, takenBack, faults>>

Crash(p) ==
    /\ Exit(p) /\ Fault
    /\ UNCHANGED <<bound, stage, mail>>

(* SIGTERM: disconnect closes the channel under the handlers' feet.        *)
Shutdown(p) ==
    /\ mode[p] = "up" /\ mode' = [mode EXCEPT ![p] = "leaving"]
    /\ chan' = [chan EXCEPT ![p] = "closed"]
    /\ Fault /\ TakeBack(p)
    /\ UNCHANGED <<bound, stage, handler, mail>>

(* The workers are closed, and process.exit does not wait for a handler.   *)
Left(p) ==
    /\ mode[p] = "leaving" /\ Exit(p)
    /\ UNCHANGED <<bound, stage, mail, faults>>

Next ==
    \/ \E e \in Events : Publish(e)
    \/ \E p \in Procs :
          \/ Start(p) \/ Boot(p) \/ BootFails(p)
          \/ Break(p) \/ Notice(p) \/ Crash(p) \/ Shutdown(p) \/ Left(p)
    \/ \E p \in Procs : \E e \in Events :
          Deliver(p, e) \/ Accept(p, e) \/ MailFails(p, e) \/ Ack(p, e) \/ Nack(p, e)

Spec == Init /\ [][Next]_vars

(* Docker restarts what ends (restart: unless-stopped), a shutdown is a    *)
(* deployment's; SMTP and the database answer or time out, and a broken    *)
(* connection is noticed by its heartbeat.                                 *)
FairSpec ==
    /\ Spec
    /\ \A p \in Procs :
          /\ WF_vars(Start(p)) /\ WF_vars(Boot(p)) /\ WF_vars(BootFails(p))
          /\ WF_vars(Notice(p)) /\ WF_vars(Left(p))
    /\ \A e \in Events :
          /\ WF_vars(\E p \in Procs : Deliver(p, e))
          /\ \A p \in Procs :
                /\ WF_vars(Accept(p, e) \/ MailFails(p, e) \/ Ack(p, e))
                /\ WF_vars(Nack(p, e))

-----------------------------------------------------------------------------
(* Properties.                                                             *)

(* An event is acknowledged only when its mail was accepted, and dropped   *)
(* only when one was refused, whoever else has handled it.                 *)
SettledMeansTried ==
    \A e \in Events : /\ where[e] = "acked" => mails[e] >= 1
                      /\ where[e] = "dropped" => e \in refused

(* A customer gets a second mail only because the broker had to take the   *)
(* event back from a connection that was lost.                             *)
DuplicatesNeedRedelivery ==
    \A e \in Events : mails[e] <= 1 + takenBack[e]

(* What is delivered on a channel is being handled, and what is handled on *)
(* a channel that is open is delivered on it: no event is forgotten, none  *)
(* is acknowledged twice (for which the broker would close the channel).   *)
HandledIffHeld ==
    \A p \in Procs : \A e \in Events :
       where[e] = p <=> chan[p] = "open" /\ handler[p][e] # "none"

(* A mail that is sent for an event that is settled comes from a process   *)
(* that had lost its connection.                                           *)
LateMailsAreOrphans ==
    [][\A e \in Events :
          where[e] \in {"acked", "dropped"} /\ mails'[e] # mails[e] =>
             \E p \in Procs : chan[p] # "open" /\ handler[p][e] = "sending"]_vars

(* Every process has lost its connection with no handler at work: nothing  *)
(* will end it, and nothing will connect it again.                         *)
Deaf ==
    \A p \in Procs : /\ mode[p] = "up" /\ chan[p] = "closed" /\ Idle(p)
                     /\ stage[p] = 2 * Len(Queues)

(* An event that has reached its queue is mailed or dropped in the end,    *)
(* unless all processes are deaf.                                          *)
EveryEventSettles ==
    \A e \in Events :
       where[e] \in {"queued"} \union Procs ~> where[e] \in {"acked", "dropped"} \/ Deaf
=============================================================================
