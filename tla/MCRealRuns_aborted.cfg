SPECIFICATION Spec
CONSTANTS
    Runs = {r1}
    Calls = {c1, c2}
INVARIANTS TimedOutRunReported
CHECK_DEADLOCK FALSE
