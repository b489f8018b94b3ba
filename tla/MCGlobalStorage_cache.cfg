SPECIFICATION Spec
CONSTANTS
    Setters = {s1, s2}
    Getters = {g1, g2}
    Ttl = 2
    Delay = 1
    Horizon = 3
    MaxUpsets = 1
SYMMETRY Symmetry
INVARIANTS CacheExpires AnswersRecent
CHECK_DEADLOCK FALSE
