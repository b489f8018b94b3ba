SPECIFICATION HSpec
CONSTANTS
    NoInode = NoInode
    Tasks = {t1, t2}
    Calls = {c1, c2, c3}
    MaxTurn = 1
    MaxInFlight = 2
    MaxCrashes = 0
    MaxFaults = 0
INVARIANTS AckedDurable
CHECK_DEADLOCK FALSE
