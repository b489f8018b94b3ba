SPECIFICATION Spec
CONSTANTS
    Stores = {s1, s2}
    Removes = {r1}
    Workspaces = {w1, w2}
    MaxFaults = 2
SYMMETRY Symmetry
INVARIANTS DuplicatesOverlap RowsAtHome CountsExact PlaceholderHidden
CHECK_DEADLOCK FALSE
