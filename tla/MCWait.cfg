SPECIFICATION FairWaitSpec
CONSTANTS
    Subs = {s1}
    Streams = {t1, t2}
    PerAwait = {0, 1, 2, 3}
    MaxFeed = 3
INVARIANTS
    EachNoteToOneCall
    OkMeansEnough
PROPERTIES
    WaitReturns
CHECK_DEADLOCK FALSE
