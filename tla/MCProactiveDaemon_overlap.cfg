SPECIFICATION HSpec
CONSTANTS
    Ticks = {t1, t2, t3}
    Owners = {"daemon", "dry-run"}
    Kinds = {"idle_check", "topic_followup"}
    Subjects = {s1}
    DayLen = 1
    HostOffset = 1
    UserOffset = 1
    QuietStart = 0
    QuietEnd = 0
    IdleThreshold = 1
    MaxDaily = 1
    MaxInFlight = 2
    Horizon = 2
    MaxCrashes = 1
    MaxLies = 1
SYMMETRY Symmetry
INVARIANTS LimitHeld WholeUnlessClashed FollowUpsNew CountBacked
CHECK_DEADLOCK FALSE
