------------------------ MODULE Notifications_proofs ------------------------
(***************************************************************************)
(* Proofs about Notifications: its types, that what is delivered is being  *)
(* handled, that an event is settled only for what became of its mail, and *)
(* that the broker's redeliveries are the only source of a second mail.    *)
(***************************************************************************)
EXTENDS Notifications, FiniteSetTheorems, TLAPS

Doings == {"none", "sending", "accepted", "failing"}

(* A process that is down has neither channel nor handlers.                *)
DownOK ==
    \A p \in Procs : mode[p] = "down" => chan[p] = "closed" /\ Idle(p)

(* What a handler knows of its mail is so.                                 *)
ToldOK ==
    \A p \in Procs : \A e \in Events :
       /\ handler[p][e] = "accepted" => mails[e] >= 1
       /\ handler[p][e] = "failing" => e \in refused

Sending(e) == {p \in Procs : handler[p][e] = "sending"}

(* 1 while the event's last delivery has not been taken back.              *)
Owed(e) == IF where[e] \in {"acked", "dropped"} \union Procs THEN 1 ELSE 0

(* The mails that were accepted and those that still may be are not more   *)
(* than the deliveries.                                                    *)
CountOK ==
    \A e \in Events : mails[e] + Cardinality(Sending(e)) <= takenBack[e] + Owed(e)

IInv == /\ TypeOK /\ DownOK /\ ToldOK
        /\ SettledMeansTried /\ HandledIffHeld /\ CountOK

-----------------------------------------------------------------------------
(* What changes, pointwise.                                                *)

LEMMA QueuesType == Len(Queues) \in Nat /\ DOMAIN Queues = 1 .. Len(Queues)
  BY NotificationsAssumption

LEMMA StepAt ==
  ASSUME TypeOK, NEW p \in Procs, NEW e \in Events, NEW from \in Doings,
         NEW to \in Doings, Step(p, e, from, to)
  PROVE  /\ handler' \in [Procs -> [Events -> Doings]]
         /\ \A q \in Procs : \A f \in Events :
               handler'[q][f] = IF q = p /\ f = e THEN to ELSE handler[q][f]
<1>1. handler \in [Procs -> [Events -> Doings]]
  BY DEF TypeOK, Doings
<1>2. handler' = [handler EXCEPT ![p][e] = to]
  BY DEF Step
<1> QED
  BY <1>1, <1>2

LEMMA TakeBackType ==
  ASSUME TypeOK, NEW p \in Procs, TakeBack(p)
  PROVE  /\ where' \in [Events -> Places \union Procs]
         /\ takenBack' \in [Events -> Nat]
<1>1. where \in [Events -> Places \union Procs] /\ takenBack \in [Events -> Nat]
  BY DEF TypeOK
<1>2. where' \in [Events -> Places \union Procs]
  BY <1>1 DEF TakeBack, Places
<1>3. takenBack' \in [Events -> Nat]
  BY <1>1 DEF TakeBack
<1> QED
  BY <1>2, <1>3

LEMMA SendingFinite ==
  ASSUME TypeOK, NEW e \in Events
  PROVE  IsFiniteSet(Sending(e)) /\ Cardinality(Sending(e)) \in Nat
<1>1. Sending(e) \subseteq Procs
  BY DEF Sending
<1>2. IsFiniteSet(Sending(e))
  BY <1>1, FS_Subset, NotificationsAssumption
<1> QED
  BY <1>2, FS_CardinalityType

(* Fewer handlers are sending: the count holds if no more is owed.         *)
LEMMA CountFewer ==
  ASSUME IInv, NEW e \in Events, Sending(e)' \subseteq Sending(e),
         mails'[e] = mails[e],
         takenBack'[e] \in Nat, takenBack[e] + Owed(e) <= takenBack'[e] + Owed(e)'
  PROVE  mails'[e] + Cardinality(Sending(e)') <= takenBack'[e] + Owed(e)'
<1>1. IsFiniteSet(Sending(e)) /\ Cardinality(Sending(e)) \in Nat
  BY SendingFinite DEF IInv
<1>2. /\ Cardinality(Sending(e)') <= Cardinality(Sending(e))
      /\ Cardinality(Sending(e)') \in Nat
  BY <1>1, FS_Subset, FS_CardinalityType
<1>3. mails[e] \in Nat /\ takenBack[e] \in Nat /\ Owed(e) \in Nat /\ Owed(e)' \in Nat
  BY DEF IInv, TypeOK, Owed
<1>4. mails[e] + Cardinality(Sending(e)) <= takenBack[e] + Owed(e)
  BY DEF IInv, CountOK
<1> QED
  BY <1>1, <1>2, <1>3, <1>4

(* What the broker takes back it owes again.                               *)
LEMMA TakeBackOwes ==
  ASSUME IInv, NEW p \in Procs, TakeBack(p), NEW e \in Events
  PROVE  takenBack'[e] \in Nat /\ takenBack[e] + Owed(e) <= takenBack'[e] + Owed(e)'
<1>1. takenBack[e] \in Nat /\ where[e] \in Places \union Procs
  BY DEF IInv, TypeOK
<1>2. CASE where[e] = p
  <2>1. takenBack'[e] = takenBack[e] + 1 /\ where'[e] = "queued"
    BY <1>2 DEF TakeBack
  <2>2. Owed(e) = 1
    BY <1>2 DEF Owed
  <2>3. Owed(e)' = 0
    BY <2>1, NotificationsAssumption DEF Owed, Places
  <2> QED
    BY <1>1, <2>1, <2>2, <2>3
<1>3. CASE where[e] # p
  <2>1. takenBack'[e] = takenBack[e] /\ where'[e] = where[e]
    BY <1>3 DEF TakeBack
  <2>2. Owed(e)' = Owed(e) /\ Owed(e) \in Nat
    BY <2>1 DEF Owed
  <2> QED
    BY <1>1, <2>1, <2>2
<1> QED
  BY <1>2, <1>3

(* A process ends.                                                         *)
LEMMA ExitKeeps ==
  ASSUME IInv, NEW p \in Procs, Exit(p), UNCHANGED <<bound, stage, mail>>,
         faults' \in 0 .. MaxFaults
  PROVE  IInv'
<1> USE DEF IInv
<1>1. /\ mode' = [mode EXCEPT ![p] = "down"] /\ chan' = [chan EXCEPT ![p] = "closed"]
      /\ handler' = [handler EXCEPT ![p] = [e \in Events |-> "none"]]
      /\ TakeBack(p) /\ UNCHANGED <<bound, stage, mails, refused>>
  BY DEF Exit, mail
<1>2. /\ handler \in [Procs -> [Events -> Doings]]
      /\ mode \in [Procs -> {"down", "up", "leaving"}]
      /\ chan \in [Procs -> {"open", "broken", "closed"}]
      /\ where \in [Events -> Places \union Procs]
  BY DEF TypeOK, Doings
<1>3. /\ handler' \in [Procs -> [Events -> Doings]]
      /\ \A q \in Procs : \A e \in Events :
            handler'[q][e] = IF q = p THEN "none" ELSE handler[q][e]
  BY <1>1, <1>2 DEF Doings
<1>4. \A e \in Events : where'[e] = IF where[e] = p THEN "queued" ELSE where[e]
  BY <1>1 DEF TakeBack
<1>5. TypeOK'
  <2>1. where' \in [Events -> Places \union Procs] /\ takenBack' \in [Events -> Nat]
    BY <1>1, TakeBackType
  <2> QED
    BY <1>1, <1>2, <1>3, <2>1 DEF TypeOK, Doings
<1>6. DownOK'
  BY <1>1, <1>2, <1>3 DEF DownOK, Idle
<1>7. ToldOK'
  BY <1>1, <1>3 DEF ToldOK
<1>8. SettledMeansTried'
  BY <1>1, <1>4 DEF SettledMeansTried
<1>9. HandledIffHeld'
  <2> SUFFICES ASSUME NEW q \in Procs, NEW e \in Events
               PROVE  where'[e] = q <=> chan'[q] = "open" /\ handler'[q][e] # "none"
    BY DEF HandledIffHeld
  <2>1. "queued" \notin Procs
    BY NotificationsAssumption DEF Places
  <2>2. CASE q = p
    BY <1>3, <1>4, <2>1, <2>2
  <2>3. CASE q # p
    BY <1>1, <1>2, <1>3, <1>4, <2>1, <2>3 DEF HandledIffHeld
  <2> QED
    BY <2>2, <2>3
<1>10. CountOK'
  <2> SUFFICES ASSUME NEW e \in Events
               PROVE  mails'[e] + Cardinality(Sending(e)') <= takenBack'[e] + Owed(e)'
    BY DEF CountOK
  <2>1. Sending(e)' \subseteq Sending(e)
    BY <1>3 DEF Sending
  <2>2. takenBack'[e] \in Nat /\ takenBack[e] + Owed(e) <= takenBack'[e] + Owed(e)'
    BY <1>1, TakeBackOwes
  <2> QED
    BY <1>1, <2>1, <2>2, CountFewer
<1> QED
  BY <1>5, <1>6, <1>7, <1>8, <1>9, <1>10

(* The broker loses a process that lives on: the connection breaks, or     *)
(* SIGTERM closes the channel.                                             *)
LEMMA CutKeeps ==
  ASSUME IInv, NEW p \in Procs, NEW c \in {"broken", "closed"}, TakeBack(p),
         mode[p] # "down", mode' = mode \/ mode' = [mode EXCEPT ![p] = "leaving"],
         chan' = [chan EXCEPT ![p] = c], UNCHANGED <<bound, stage, handler, mail>>,
         faults' \in 0 .. MaxFaults
  PROVE  IInv'
<1> USE DEF IInv, mail
<1>1. /\ mode \in [Procs -> {"down", "up", "leaving"}]
      /\ chan \in [Procs -> {"open", "broken", "closed"}]
      /\ where \in [Events -> Places \union Procs]
  BY DEF TypeOK
<1>2. \A e \in Events : where'[e] = IF where[e] = p THEN "queued" ELSE where[e]
  BY DEF TakeBack
<1>3. \A q \in Procs : IF q = p THEN chan'[q] = c /\ mode'[q] # "down"
                      ELSE chan'[q] = chan[q] /\ mode'[q] = mode[q]
  BY <1>1
<1>4. TypeOK'
  <2>1. where' \in [Events -> Places \union Procs] /\ takenBack' \in [Events -> Nat]
    BY TakeBackType
  <2> QED
    BY <1>1, <2>1 DEF TypeOK
<1>5. DownOK'
  BY <1>3 DEF DownOK, Idle
<1>6. ToldOK'
  BY DEF ToldOK
<1>7. SettledMeansTried'
  BY <1>2 DEF SettledMeansTried
<1>8. HandledIffHeld'
  <2> SUFFICES ASSUME NEW q \in Procs, NEW e \in Events
               PROVE  where'[e] = q <=> chan'[q] = "open" /\ handler'[q][e] # "none"
    BY DEF HandledIffHeld
  <2>1. "queued" \notin Procs
    BY NotificationsAssumption DEF Places
  <2>2. CASE q = p
    BY <1>2, <1>3, <2>1, <2>2
  <2>3. CASE q # p
    BY <1>2, <1>3, <2>1, <2>3 DEF HandledIffHeld
  <2> QED
    BY <2>2, <2>3
<1>9. CountOK'
  <2> SUFFICES ASSUME NEW e \in Events
               PROVE  mails'[e] + Cardinality(Sending(e)') <= takenBack'[e] + Owed(e)'
    BY DEF CountOK
  <2>1. Sending(e)' \subseteq Sending(e)
    BY DEF Sending
  <2>2. takenBack'[e] \in Nat /\ takenBack[e] + Owed(e) <= takenBack'[e] + Owed(e)'
    BY TakeBackOwes
  <2> QED
    BY <2>1, <2>2, CountFewer
<1> QED
  BY <1>4, <1>5, <1>6, <1>7, <1>8, <1>9

-----------------------------------------------------------------------------
(* The publisher, and a process that boots or notices.                     *)

LEMMA PublishKeeps ==
  ASSUME IInv, NEW e \in Events, Publish(e)
  PROVE  IInv'
<1> USE DEF IInv
<1>1. PICK w \in {"queued", "lost"} : where' = [where EXCEPT ![e] = w]
  BY DEF Publish
<1>2. /\ where[e] = "unpublished"
      /\ UNCHANGED <<bound, mode, chan, stage, handler, faults, mails, refused, takenBack>>
  BY DEF Publish, life, mail
<1>3. where \in [Events -> Places \union Procs] /\ Procs \intersect Places = {}
  BY NotificationsAssumption DEF TypeOK
<1>4. \A f \in Events : where'[f] = IF f = e THEN w ELSE where[f]
  BY <1>1, <1>3
<1>5. TypeOK'
  BY <1>1, <1>2 DEF TypeOK, Places
<1>6. DownOK' /\ ToldOK'
  BY <1>2 DEF DownOK, ToldOK, Idle
<1>7. SettledMeansTried'
  BY <1>2, <1>4 DEF SettledMeansTried
<1>8. HandledIffHeld'
  BY <1>2, <1>3, <1>4 DEF HandledIffHeld, Places
<1>9. CountOK'
  <2> SUFFICES ASSUME NEW f \in Events
               PROVE  mails'[f] + Cardinality(Sending(f)') <= takenBack'[f] + Owed(f)'
    BY DEF CountOK
  <2>1. Sending(f)' \subseteq Sending(f)
    BY <1>2 DEF Sending
  <2>2. Owed(f)' = Owed(f) /\ Owed(f) \in Nat /\ takenBack[f] \in Nat
    BY <1>2, <1>3, <1>4 DEF Owed, Places, TypeOK
  <2>3. takenBack'[f] \in Nat /\ takenBack[f] + Owed(f) <= takenBack'[f] + Owed(f)'
    BY <1>2, <2>2
  <2> QED
    BY <1>2, <2>1, <2>3, CountFewer
<1> QED
  BY <1>5, <1>6, <1>7, <1>8, <1>9

(* Steps that leave the events, the handlers and the mails alone, and open *)
(* a channel only for a process that was down.                             *)
LEMMA QuietKeeps ==
  ASSUME IInv, TypeOK', UNCHANGED <<where, handler, mails, refused, takenBack>>,
         \A p \in Procs :
            \/ chan'[p] = chan[p]
            \/ mode[p] = "down"
            \/ chan[p] # "open" /\ chan'[p] # "open",
         \A p \in Procs : mode'[p] = "down" => chan'[p] = "closed" /\ mode[p] = "down"
  PROVE  IInv'
<1> USE DEF IInv
<1>1. DownOK'
  BY DEF DownOK, Idle
<1>2. ToldOK' /\ SettledMeansTried'
  BY DEF ToldOK, SettledMeansTried
<1>3. HandledIffHeld'
  <2> SUFFICES ASSUME NEW p \in Procs, NEW e \in Events
               PROVE  where'[e] = p <=> chan'[p] = "open" /\ handler'[p][e] # "none"
    BY DEF HandledIffHeld
  <2>1. where[e] = p <=> chan[p] = "open" /\ handler[p][e] # "none"
    BY DEF HandledIffHeld
  <2>2. mode[p] = "down" => chan[p] = "closed" /\ handler[p][e] = "none"
    BY DEF DownOK, Idle
  <2> QED
    BY <2>1, <2>2
<1>4. CountOK'
  BY DEF CountOK, Sending, Owed
<1> QED
  BY <1>1, <1>2, <1>3, <1>4

LEMMA StartKeeps ==
  ASSUME IInv, NEW p \in Procs, Start(p)
  PROVE  IInv'
<1>1. TypeOK'
  BY QueuesType DEF IInv, Start, TypeOK, mail
<1> QED
  BY <1>1, QuietKeeps DEF IInv, Start, TypeOK, DownOK, mail

LEMMA BootKeeps ==
  ASSUME IInv, NEW p \in Procs, Boot(p)
  PROVE  IInv'
<1>1. /\ stage \in [Procs -> 0 .. 2 * Len(Queues)] /\ Len(Queues) \in Nat
      /\ bound \subseteq {Queues[k] : k \in DOMAIN Queues}
  BY QueuesType DEF IInv, TypeOK
<1>2. stage' \in [Procs -> 0 .. 2 * Len(Queues)]
  BY <1>1 DEF Boot
<1>3. bound' \subseteq {Queues[k] : k \in DOMAIN Queues}
  <2>1. CASE stage[p] < Len(Queues)
    <3>1. stage[p] + 1 \in DOMAIN Queues
      BY <1>1, <2>1, QueuesType
    <3>2. bound' = bound \union {Queues[stage[p] + 1]}
      BY <2>1 DEF Boot
    <3> QED
      BY <1>1, <3>1, <3>2
  <2>2. CASE ~ (stage[p] < Len(Queues))
    BY <1>1, <2>2 DEF Boot
  <2> QED
    BY <2>1, <2>2
<1>4. TypeOK'
  BY <1>2, <1>3 DEF IInv, Boot, TypeOK, mail
<1> QED
  BY <1>4, QuietKeeps DEF IInv, Boot, DownOK, mail

LEMMA NoticeKeeps ==
  ASSUME IInv, NEW p \in Procs, Notice(p)
  PROVE  IInv'
<1>1. TypeOK'
  BY DEF IInv, Notice, TypeOK, mail
<1> QED
  BY <1>1, QuietKeeps DEF IInv, Notice, TypeOK, DownOK, mail

-----------------------------------------------------------------------------
(* The handlers.                                                           *)

(* One more handler is sending, and one more delivery is owed.             *)
LEMMA DeliverKeeps ==
  ASSUME IInv, NEW p \in Procs, NEW e \in Events, Deliver(p, e)
  PROVE  IInv'
<1> USE DEF IInv
<1>1. /\ where[e] = "queued" /\ where' = [where EXCEPT ![e] = p]
      /\ mode[p] # "down" /\ chan[p] = "open" /\ handler[p][e] = "none"
      /\ Step(p, e, "none", "sending")
      /\ UNCHANGED <<bound, mode, chan, stage, mails, refused, takenBack, faults>>
  BY DEF Deliver, Step, mail
<1>2. where \in [Events -> Places \union Procs] /\ Procs \intersect Places = {}
  BY NotificationsAssumption DEF TypeOK
<1>3. \A f \in Events : where'[f] = IF f = e THEN p ELSE where[f]
  BY <1>1, <1>2
<1>4. /\ handler' \in [Procs -> [Events -> Doings]]
      /\ \A q \in Procs : \A f \in Events :
            handler'[q][f] = IF q = p /\ f = e THEN "sending" ELSE handler[q][f]
  BY <1>1, StepAt DEF Doings
<1>5. TypeOK'
  <2>1. where' \in [Events -> Places \union Procs]
    BY <1>1, <1>2
  <2> QED
    BY <1>1, <1>4, <2>1 DEF TypeOK, Doings
<1>6. DownOK'
  BY <1>1, <1>4 DEF DownOK, Idle
<1>7. ToldOK'
  BY <1>1, <1>4 DEF ToldOK
<1>8. SettledMeansTried'
  BY <1>1, <1>2, <1>3 DEF SettledMeansTried, Places
<1>9. HandledIffHeld'
  <2> SUFFICES ASSUME NEW q \in Procs, NEW f \in Events
               PROVE  where'[f] = q <=> chan'[q] = "open" /\ handler'[q][f] # "none"
    BY DEF HandledIffHeld
  <2>1. where[f] = q <=> chan[q] = "open" /\ handler[q][f] # "none"
    BY DEF HandledIffHeld
  <2>2. where[e] # q
    BY <1>1, <1>2 DEF Places
  <2> QED
    BY <1>1, <1>3, <1>4, <2>1, <2>2
<1>10. CountOK'
  <2> SUFFICES ASSUME NEW f \in Events
               PROVE  mails'[f] + Cardinality(Sending(f)') <= takenBack'[f] + Owed(f)'
    BY DEF CountOK
  <2>1. mails[f] + Cardinality(Sending(f)) <= takenBack[f] + Owed(f)
    BY DEF CountOK
  <2>2. CASE f # e
    <3>1. Sending(f)' = Sending(f)
      BY <1>4, <2>2 DEF Sending
    <3>2. Owed(f)' = Owed(f)
      BY <1>3, <2>2 DEF Owed
    <3> QED
      BY <1>1, <2>1, <3>1, <3>2
  <2>3. CASE f = e
    <3>1. Sending(e)' = Sending(e) \union {p} /\ p \notin Sending(e)
      BY <1>1, <1>4 DEF Sending
    <3>2. Cardinality(Sending(e)') = Cardinality(Sending(e)) + 1
      BY <3>1, SendingFinite, FS_AddElement
    <3>3. Owed(e) = 0
      BY <1>1, <1>2 DEF Owed, Places
    <3>4. Owed(e)' = 1
      BY <1>3 DEF Owed
    <3>5. mails[e] \in Nat /\ takenBack[e] \in Nat /\ Cardinality(Sending(e)) \in Nat
      BY SendingFinite DEF TypeOK
    <3> QED
      BY <1>1, <2>1, <2>3, <3>2, <3>3, <3>4, <3>5
  <2> QED
    BY <2>2, <2>3
<1> QED
  BY <1>5, <1>6, <1>7, <1>8, <1>9, <1>10

(* One handler less is sending, and one mail more was accepted.            *)
LEMMA AcceptKeeps ==
  ASSUME IInv, NEW p \in Procs, NEW e \in Events, Accept(p, e)
  PROVE  IInv'
<1> USE DEF IInv
<1>1. /\ Step(p, e, "sending", "accepted") /\ handler[p][e] = "sending"
      /\ mails' = [mails EXCEPT ![e] = mails[e] + 1]
      /\ UNCHANGED <<where, bound, mode, chan, stage, refused, takenBack, faults>>
  BY DEF Accept, Step
<1>2. mails \in [Events -> Nat]
  BY DEF TypeOK
<1>3. \A f \in Events : mails'[f] = IF f = e THEN mails[f] + 1 ELSE mails[f]
  BY <1>1, <1>2
<1>4. /\ handler' \in [Procs -> [Events -> Doings]]
      /\ \A q \in Procs : \A f \in Events :
            handler'[q][f] = IF q = p /\ f = e THEN "accepted" ELSE handler[q][f]
  BY <1>1, StepAt DEF Doings
<1>5. TypeOK'
  BY <1>1, <1>2, <1>4 DEF TypeOK, Doings
<1>6. DownOK'
  BY <1>1, <1>4 DEF DownOK, Idle
<1>7. \A f \in Events : mails[f] \in Nat /\ mails'[f] >= mails[f] /\ (f = e => mails'[f] >= 1)
  BY <1>2, <1>3
<1>8. ToldOK'
  <2> SUFFICES ASSUME NEW q \in Procs, NEW f \in Events
               PROVE  /\ handler'[q][f] = "accepted" => mails'[f] >= 1
                      /\ handler'[q][f] = "failing" => f \in refused'
    BY DEF ToldOK
  <2>1. handler[q][f] = "accepted" => mails'[f] >= 1
    BY <1>3, <1>7 DEF ToldOK
  <2>2. handler[q][f] = "failing" => f \in refused'
    BY <1>1 DEF ToldOK
  <2> QED
    BY <1>4, <1>7, <2>1, <2>2
<1>9. SettledMeansTried'
  <2> SUFFICES ASSUME NEW f \in Events
               PROVE  /\ where[f] = "acked" => mails'[f] >= 1
                      /\ where[f] = "dropped" => f \in refused
    BY <1>1 DEF SettledMeansTried
  <2>1. where[f] = "acked" => mails[f] >= 1
    BY DEF SettledMeansTried
  <2>2. where[f] = "dropped" => f \in refused
    BY DEF SettledMeansTried
  <2> QED
    BY <1>3, <1>7, <2>1, <2>2
<1>10. HandledIffHeld'
  BY <1>1, <1>4 DEF HandledIffHeld
<1>11. CountOK'
  <2> SUFFICES ASSUME NEW f \in Events
               PROVE  mails'[f] + Cardinality(Sending(f)') <= takenBack'[f] + Owed(f)'
    BY DEF CountOK
  <2>1. mails[f] + Cardinality(Sending(f)) <= takenBack[f] + Owed(f)
    BY DEF CountOK
  <2>2. Owed(f)' = Owed(f) /\ takenBack' = takenBack
    BY <1>1 DEF Owed
  <2>3. CASE f # e
    <3>1. Sending(f)' = Sending(f)
      BY <1>4, <2>3 DEF Sending
    <3> QED
      BY <1>3, <2>1, <2>2, <2>3, <3>1
  <2>4. CASE f = e
    <3>1. Sending(e)' = Sending(e) \ {p} /\ p \in Sending(e)
      BY <1>1, <1>4 DEF Sending
    <3>2. Cardinality(Sending(e)') = Cardinality(Sending(e)) - 1
      BY <3>1, SendingFinite, FS_RemoveElement
    <3>3. /\ mails[e] \in Nat /\ takenBack[e] \in Nat /\ Cardinality(Sending(e)) \in Nat
          /\ Owed(e) \in Nat
      BY SendingFinite DEF TypeOK, Owed
    <3> QED
      BY <1>3, <2>1, <2>2, <2>4, <3>2, <3>3
  <2> QED
    BY <2>3, <2>4
<1> QED
  BY <1>5, <1>6, <1>8, <1>9, <1>10, <1>11

(* A handler's mail was refused.                                           *)
LEMMA MailFailsKeeps ==
  ASSUME IInv, NEW p \in Procs, NEW e \in Events, MailFails(p, e)
  PROVE  IInv'
<1> USE DEF IInv
<1>1. PICK from \in {"sending", "accepted"} : Step(p, e, from, "failing")
  BY DEF MailFails
<1>2. /\ handler[p][e] = from /\ refused' = refused \union {e}
      /\ UNCHANGED <<where, bound, mode, chan, stage, mails, takenBack, faults>>
  BY <1>1 DEF MailFails, Step
<1>3. /\ handler' \in [Procs -> [Events -> Doings]]
      /\ \A q \in Procs : \A f \in Events :
            handler'[q][f] = IF q = p /\ f = e THEN "failing" ELSE handler[q][f]
  BY <1>1, StepAt DEF Doings
<1>4. TypeOK'
  BY <1>2, <1>3 DEF TypeOK, Doings
<1>5. DownOK'
  BY <1>2, <1>3 DEF DownOK, Idle
<1>6. ToldOK'
  BY <1>2, <1>3 DEF ToldOK
<1>7. SettledMeansTried'
  BY <1>2 DEF SettledMeansTried
<1>8. HandledIffHeld'
  BY <1>2, <1>3 DEF HandledIffHeld
<1>9. CountOK'
  <2> SUFFICES ASSUME NEW f \in Events
               PROVE  mails'[f] + Cardinality(Sending(f)') <= takenBack'[f] + Owed(f)'
    BY DEF CountOK
  <2>1. Sending(f)' \subseteq Sending(f)
    BY <1>3 DEF Sending
  <2>2. Owed(f)' = Owed(f) /\ Owed(f) \in Nat /\ takenBack[f] \in Nat
    BY <1>2 DEF Owed, TypeOK
  <2>3. takenBack'[f] \in Nat /\ takenBack[f] + Owed(f) <= takenBack'[f] + Owed(f)'
    BY <1>2, <2>2
  <2> QED
    BY <1>2, <2>1, <2>3, CountFewer
<1> QED
  BY <1>4, <1>5, <1>6, <1>7, <1>8, <1>9

(* A handler is done, and settles what it holds, if it holds it still.     *)
LEMMA DoneKeeps ==
  ASSUME IInv, NEW p \in Procs, NEW e \in Events, NEW from \in {"accepted", "failing"},
         NEW place \in {"acked", "dropped"},
         from = "accepted" <=> place = "acked", Done(p, e, from, place)
  PROVE  IInv'
<1> USE DEF IInv
<1>1. CASE chan[p] = "closed" /\ Exit(p)
  <2>1. UNCHANGED <<bound, stage, mail, faults>> /\ faults \in 0 .. MaxFaults
    BY DEF Done, TypeOK
  <2> QED
    BY <1>1, <2>1, ExitKeeps
<1>2. CASE /\ chan[p] # "closed" /\ Step(p, e, from, "none")
           /\ \/ chan[p] = "open" /\ Settle(p, e, place)
              \/ chan[p] = "broken" /\ UNCHANGED where
           /\ UNCHANGED <<mode, chan, takenBack>>
  <2>1. /\ handler[p][e] = from
        /\ UNCHANGED <<bound, mode, chan, stage, mails, refused, takenBack, faults>>
    BY <1>2 DEF Done, mail
  <2>2. where \in [Events -> Places \union Procs] /\ Procs \intersect Places = {}
    BY NotificationsAssumption DEF TypeOK
  <2>3. /\ handler' \in [Procs -> [Events -> Doings]]
        /\ \A q \in Procs : \A f \in Events :
              handler'[q][f] = IF q = p /\ f = e THEN "none" ELSE handler[q][f]
    BY <1>2, StepAt DEF Doings
  <2>4. \/ chan[p] = "open" /\ where[e] = p /\ where' = [where EXCEPT ![e] = place]
        \/ chan[p] = "broken" /\ where' = where
    BY <1>2, <2>1 DEF Settle, HandledIffHeld
  <2>5. \A f \in Events :
           IF f = e /\ chan[p] = "open" THEN where'[f] = place /\ where[f] = p
                                        ELSE where'[f] = where[f]
    BY <2>2, <2>4
  <2>6. TypeOK'
    <3>1. where' \in [Events -> Places \union Procs]
      BY <2>2, <2>4 DEF Places
    <3> QED
      BY <2>1, <2>3, <3>1 DEF TypeOK, Doings
  <2>7. DownOK'
    BY <2>1, <2>3 DEF DownOK, Idle
  <2>8. ToldOK'
    BY <2>1, <2>3 DEF ToldOK
  <2>9. SettledMeansTried'
    <3>1. place = "acked" => mails[e] >= 1
      BY <2>1 DEF ToldOK
    <3>2. place = "dropped" => e \in refused
      BY <2>1 DEF ToldOK
    <3> QED
      BY <2>1, <2>5, <3>1, <3>2 DEF SettledMeansTried
  <2>10. HandledIffHeld'
    <3> SUFFICES ASSUME NEW q \in Procs, NEW f \in Events
                 PROVE  where'[f] = q <=> chan'[q] = "open" /\ handler'[q][f] # "none"
      BY DEF HandledIffHeld
    <3>1. where[f] = q <=> chan[q] = "open" /\ handler[q][f] # "none"
      BY DEF HandledIffHeld
    <3>2. place \notin Procs
      BY <2>2 DEF Places
    <3> QED
      BY <2>1, <2>3, <2>4, <2>5, <3>1, <3>2
  <2>11. CountOK'
    <3> SUFFICES ASSUME NEW f \in Events
                 PROVE  mails'[f] + Cardinality(Sending(f)') <= takenBack'[f] + Owed(f)'
      BY DEF CountOK
    <3>1. Sending(f)' \subseteq Sending(f)
      BY <2>3 DEF Sending
    <3>2. Owed(f)' = Owed(f) /\ Owed(f) \in Nat /\ takenBack[f] \in Nat
      BY <2>5 DEF Owed, TypeOK
    <3>3. takenBack'[f] \in Nat /\ takenBack[f] + Owed(f) <= takenBack'[f] + Owed(f)'
      BY <2>1, <3>2
    <3> QED
      BY <2>1, <3>1, <3>3, CountFewer
  <2> QED
    BY <2>6, <2>7, <2>8, <2>9, <2>10, <2>11
<1> QED
  BY <1>1, <1>2 DEF Done

-----------------------------------------------------------------------------
(* The theorems.                                                           *)

(* The invariant holds initially.                                          *)
LEMMA InitOK == Init => IInv
<1> SUFFICES ASSUME Init PROVE IInv
  OBVIOUS
<1> USE DEF Init
<1>1. MaxFaults \in Nat /\ Len(Queues) \in Nat /\ Procs \intersect Places = {}
  BY NotificationsAssumption, QueuesType
<1>2. TypeOK
  BY <1>1 DEF TypeOK, Places
<1>3. DownOK /\ ToldOK
  BY DEF DownOK, ToldOK, Idle
<1>4. SettledMeansTried
  BY DEF SettledMeansTried
<1>5. HandledIffHeld
  BY <1>1 DEF HandledIffHeld, Places
<1>6. CountOK
  <2> SUFFICES ASSUME NEW e \in Events
               PROVE  mails[e] + Cardinality(Sending(e)) <= takenBack[e] + Owed(e)
    BY DEF CountOK
  <2>1. Sending(e) = {}
    BY DEF Sending
  <2>2. Cardinality(Sending(e)) = 0
    BY <2>1, FS_EmptySet
  <2>3. mails[e] = 0 /\ takenBack[e] = 0 /\ Owed(e) \in Nat
    BY DEF Owed
  <2> QED
    BY <2>2, <2>3
<1> QED
  BY <1>2, <1>3, <1>4, <1>5, <1>6 DEF IInv

(* Every step preserves the invariant.                                     *)
LEMMA NextOK == IInv /\ [Next]_vars => IInv'
<1> SUFFICES ASSUME IInv, [Next]_vars PROVE IInv'
  OBVIOUS
<1>1. faults \in 0 .. MaxFaults /\ (Fault => faults' \in 0 .. MaxFaults)
  BY NotificationsAssumption DEF IInv, TypeOK, Fault
<1>2. ASSUME NEW e \in Events, Publish(e) PROVE IInv'
  BY <1>2, PublishKeeps
<1>3. ASSUME NEW p \in Procs, Start(p) PROVE IInv'
  BY <1>3, StartKeeps
<1>4. ASSUME NEW p \in Procs, Boot(p) PROVE IInv'
  BY <1>4, BootKeeps
<1>5. ASSUME NEW p \in Procs, BootFails(p) \/ Left(p) PROVE IInv'
  BY <1>1, <1>5, ExitKeeps DEF BootFails, Left
<1>6. ASSUME NEW p \in Procs, Crash(p) PROVE IInv'
  BY <1>1, <1>6, ExitKeeps DEF Crash
<1>7. ASSUME NEW p \in Procs, Break(p) PROVE IInv'
  BY <1>1, <1>7, CutKeeps DEF Break
<1>8. ASSUME NEW p \in Procs, Shutdown(p) PROVE IInv'
  BY <1>1, <1>8, CutKeeps DEF Shutdown
<1>9. ASSUME NEW p \in Procs, Notice(p) PROVE IInv'
  BY <1>9, NoticeKeeps
<1>10. ASSUME NEW p \in Procs, NEW e \in Events, Deliver(p, e) PROVE IInv'
  BY <1>10, DeliverKeeps
<1>11. ASSUME NEW p \in Procs, NEW e \in Events, Accept(p, e) PROVE IInv'
  BY <1>11, AcceptKeeps
<1>12. ASSUME NEW p \in Procs, NEW e \in Events, MailFails(p, e) PROVE IInv'
  BY <1>12, MailFailsKeeps
<1>13. ASSUME NEW p \in Procs, NEW e \in Events, Ack(p, e) \/ Nack(p, e) PROVE IInv'
  BY <1>13, DoneKeeps DEF Ack, Nack
<1>14. ASSUME UNCHANGED vars PROVE IInv'
  <2>1. TypeOK'
    BY <1>14 DEF IInv, TypeOK, vars
  <2> QED
    BY <1>14, <2>1, QuietKeeps DEF IInv, DownOK, vars
<1> QED
  BY <1>2, <1>3, <1>4, <1>5, <1>6, <1>7, <1>8, <1>9, <1>10, <1>11, <1>12, <1>13, <1>14
     DEF Next

(* The strengthened invariant holds in every reachable state.              *)
THEOREM Invariance == Spec => []IInv
  BY InitOK, NextOK, PTL DEF Spec

(* Every variable keeps its type.                                          *)
THEOREM TypeCorrect == Spec => []TypeOK
<1>1. IInv => TypeOK
  BY DEF IInv
<1> QED
  BY <1>1, Invariance, PTL

(* However many processes handle it and however they end: an event is      *)
(* acknowledged only when its mail was accepted, dropped only when one was *)
(* refused.                                                                *)
THEOREM SettledIsTried == Spec => []SettledMeansTried
<1>1. IInv => SettledMeansTried
  BY DEF IInv
<1> QED
  BY <1>1, Invariance, PTL

(* No event is forgotten on an open channel, none is acknowledged twice.   *)
THEOREM HeldIsHandled == Spec => []HandledIffHeld
<1>1. IInv => HandledIffHeld
  BY DEF IInv
<1> QED
  BY <1>1, Invariance, PTL

(* A second mail needs a delivery that the broker took back.               *)
THEOREM DuplicatesAreRedeliveries == Spec => []DuplicatesNeedRedelivery
<1>1. ASSUME IInv, NEW e \in Events PROVE mails[e] <= 1 + takenBack[e]
  <2>1. /\ Cardinality(Sending(e)) \in Nat /\ mails[e] \in Nat /\ takenBack[e] \in Nat
        /\ Owed(e) \in {0, 1}
    BY <1>1, SendingFinite DEF IInv, TypeOK, Owed
  <2>2. mails[e] + Cardinality(Sending(e)) <= takenBack[e] + Owed(e)
    BY <1>1 DEF IInv, CountOK
  <2> QED
    BY <2>1, <2>2
<1>2. IInv => DuplicatesNeedRedelivery
  BY <1>1 DEF DuplicatesNeedRedelivery
<1> QED
  BY <1>2, Invariance, PTL

(* A step that sends a mail for a settled event is a process's that has    *)
(* lost its channel.                                                       *)
LEMMA LateMailIsAnOrphan ==
  ASSUME IInv, [Next]_vars, NEW e \in Events,
         where[e] \in {"acked", "dropped"}, mails'[e] # mails[e]
  PROVE  \E p \in Procs : chan[p] # "open" /\ handler[p][e] = "sending"
<1>1. mails \in [Events -> Nat]
  BY DEF IInv, TypeOK
<1>2. ASSUME NEW p \in Procs, NEW f \in Events, Accept(p, f)
      PROVE  \E q \in Procs : chan[q] # "open" /\ handler[q][e] = "sending"
  <2>1. f = e
    BY <1>1, <1>2 DEF Accept
  <2>2. handler[p][e] = "sending"
    BY <1>2, <2>1 DEF Accept, Step
  <2>3. where[e] # p
    BY NotificationsAssumption DEF Places
  <2>4. chan[p] # "open"
    BY <2>2, <2>3 DEF IInv, HandledIffHeld
  <2> QED
    BY <2>2, <2>4
<1>3. ASSUME NEW p \in Procs, NEW f \in Events,
             Deliver(p, f) \/ MailFails(p, f) \/ Ack(p, f) \/ Nack(p, f)
      PROVE  mails' = mails
  BY <1>3 DEF Deliver, MailFails, Ack, Nack, Done, mail
<1>4. ASSUME NEW p \in Procs,
             \/ Start(p) \/ Boot(p) \/ BootFails(p) \/ Break(p) \/ Notice(p)
             \/ Crash(p) \/ Shutdown(p) \/ Left(p)
      PROVE  mails' = mails
  BY <1>4 DEF Start, Boot, BootFails, Break, Notice, Crash, Shutdown, Left, mail
<1>5. ASSUME (\E f \in Events : Publish(f)) \/ UNCHANGED vars
      PROVE  mails' = mails
  BY <1>5 DEF Publish, mail, vars
<1> QED
  BY <1>2, <1>3, <1>4, <1>5 DEF Next

(* Only a process that has lost its connection mails for a settled event.  *)
THEOREM LateMails == Spec => LateMailsAreOrphans
<1>1. IInv /\ [Next]_vars =>
         [\A e \in Events :
             where[e] \in {"acked", "dropped"} /\ mails'[e] # mails[e] =>
                \E p \in Procs : chan[p] # "open" /\ handler[p][e] = "sending"]_vars
  BY LateMailIsAnOrphan
<1> QED
  BY <1>1, Invariance, PTL DEF Spec, LateMailsAreOrphans
=============================================================================
