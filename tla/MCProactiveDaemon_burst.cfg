SPECIFICATION HSpec
CONSTANTS
    Ticks = {t1, t2}
    Owners = {"daemon"}
    Kinds = {"scheduled"}
    Subjects = {s1}
    DayLen = 4
    HostOffset = 0
    UserOffset = 0
    QuietStart = 3
    QuietEnd = 1
    IdleThreshold = 2
    MaxDaily = 1
    MaxInFlight = 2
    Horizon = 3
    MaxCrashes = 0
    MaxLies = 0
INVARIANTS DailyLimit
CHECK_DEADLOCK FALSE
