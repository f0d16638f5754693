SPECIFICATION FairSpec
CONSTANTS
    Subs = {s1}
    Streams = {t1}
    PerAwait = {1}
    OnDropChoices = {TRUE}
    MaxNotes = 1
    SharedSubs = FALSE
    PollTakesMonitorLock = FALSE
    NoWaker = NoWaker
PROPERTIES
    UnsubscribeKillsStream
CHECK_DEADLOCK FALSE
