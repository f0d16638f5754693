SPECIFICATION Spec
CONSTANTS
    Threads = {t1, t2}
    MapSizes = {9}
    MinMapSize = 4
    MaxFits = {40}
    Nobody = Nobody
INVARIANT TransactionsFindDatabase
CHECK_DEADLOCK FALSE
