SPECIFICATION WaitSpec
CONSTANTS
    Subs = {s1}
    Streams = {t1}
    PerAwait = {2}
    MaxFeed = 3
INVARIANTS
    OkMeansExactly
CHECK_DEADLOCK FALSE
