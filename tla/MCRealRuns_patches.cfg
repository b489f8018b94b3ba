SPECIFICATION Spec
CONSTANTS
    Runs = {r1}
    Calls = {c1, c2}
INVARIANTS ResultsTruthful EndedRunReported
PROPERTIES RevisedForCause CallsReturn
CHECK_DEADLOCK FALSE
