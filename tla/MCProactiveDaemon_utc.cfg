SPECIFICATION HSpec
CONSTANTS
    Ticks = {t1}
    Owners = {"daemon"}
    Kinds = {"idle_check"}
    Subjects = {s1}
    DayLen = 24
    HostOffset = 0
    UserOffset = 8
    QuietStart = 23
    QuietEnd = 7
    IdleThreshold = 4
    MaxDaily = 5
    MaxInFlight = 1
    Horizon = 24
    MaxCrashes = 0
    MaxLies = 0
INVARIANT QuietRespected
CHECK_DEADLOCK FALSE
