SPECIFICATION HSpec
CONSTANTS
    NoInode = NoInode
    Tasks = {t1}
    Calls = {c1, c2, c3}
    MaxTurn = 2
    MaxInFlight = 2
    MaxCrashes = 0
    MaxFaults = 0
INVARIANTS NothingAfterCancel
CHECK_DEADLOCK FALSE
