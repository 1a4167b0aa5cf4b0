-------------------------- MODULE MCNotifications --------------------------
(* An order that is created and cancelled, its two queues, two processes.   *)
EXTENDS Notifications
MCQueues == <<"order.created", "order.cancelled">>
MCQueueOf == [e \in Events |-> e]
=============================================================================
