SPECIFICATION HSpec
CONSTANTS
    NoInode = NoInode
    Tasks = {t1}
    Calls = {c1, c2, c3}
    MaxTurn = 1
    MaxInFlight = 2
    MaxCrashes = 0
    MaxFaults = 1
INVARIANTS RepliesTruthful
PROPERTIES CallsAnswered ImplementsLedger
CHECK_DEADLOCK FALSE
