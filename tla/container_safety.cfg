CONSTANTS
    t1 = t1
    t2 = t2
    t3 = t3
    NextEvent = NextEvent
    Kinds <- AllKinds
    Tasks <- Three
    MaxConcurrent = 2
    Abortable <- AllButFirst
    Vanishing <- AllButFirst
    MaxStarts = 2
    MaxAborts = 2
SPECIFICATION FairSpec
CHECK_DEADLOCK FALSE
INVARIANTS Bookkeeping ChildrenPaced
PROPERTIES NoEarlySuccess AbortStopsQueue ContractKept Reports
