SPECIFICATION FairSpec
CONSTANTS
    Requests = {r1, r2, r3, r4, r5}
    MaxConcurrent = 2
    QueueEnabled = TRUE
    MaxQueue = 1
INVARIANTS TypeOK SlotsConserved TicketsMatchWaiters
PROPERTIES EveryRequestLeaves
