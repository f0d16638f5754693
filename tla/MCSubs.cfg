SPECIFICATION FairSpec
CONSTANTS
    Subs = {s1}
    Streams = {t1, t2}
    PerAwait = {1, 2}
    OnDropChoices = {TRUE, FALSE}
    MaxNotes = 3
    SharedSubs = FALSE
    PollTakesMonitorLock = TRUE
    NoWaker = NoWaker
INVARIANTS
    TypeOK
    NoLostWakeup
    EndedOnlyIfUnsubscribed
    NoOrphanEntry
    InOrderNoLoss
PROPERTIES
    EndedIsFinal
    EveryCallReturns
    ImplementsFeed
CHECK_DEADLOCK FALSE
