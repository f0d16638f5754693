SPECIFICATION MetaSpec
CONSTANTS
    Types = {"Counts", "Zap"}
    Known = {"Counts", "Reaction", "Zap", "ZapUnverified"}
    Capacities = {2, 4}
    Slack = 1
    MaxEntries = 5
    CountBound = 8
    NoIndex = NoIndex
INVARIANTS
    AddEntryNeverPanics
CHECK_DEADLOCK FALSE
