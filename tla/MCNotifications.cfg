SPECIFICATION FairSpec
CONSTANTS
    Events = {"order.created", "order.cancelled"}
    Procs = {p1, p2}
    MaxFaults = 2
    Queues <- MCQueues
    QueueOf <- MCQueueOf
INVARIANTS SettledMeansTried DuplicatesNeedRedelivery HandledIffHeld
PROPERTIES LateMailsAreOrphans EveryEventSettles
CHECK_DEADLOCK FALSE
