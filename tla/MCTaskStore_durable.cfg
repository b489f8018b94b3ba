SPECIFICATION HSpec
CONSTANTS
    NoInode = NoInode
    Tasks = {t1}
    Calls = {c1, c2, c3, c4}
    MaxTurn = 2
    MaxInFlight = 2
    MaxCrashes = 1
    MaxFaults = 1
SYMMETRY Symmetry
INVARIANTS DurableWhenWhole ReadableWhenWhole CoveredWhenWhole CancelSurvivesUnlessLost
CHECK_DEADLOCK FALSE
