SPECIFICATION FairSpec
CONSTANTS
    Threads = {t1, t2, t3}
    MapSizes = {2, 9, 16, 33}
    MinMapSize = 4
    MaxFits = {0, 3, 4, 5, 8, 40}
    Nobody = Nobody
INVARIANTS
    ClonesKeepOpen
    CallbackFindsBox
    OpensIfItCan
PROPERTIES
    CloseCompletes
    NewReturns
CHECK_DEADLOCK FALSE
