SPECIFICATION Spec
CONSTANTS
    Runs = {r1, r2}
    Waits = {w1}
    Durations = {1000, 2000}
    Limits = {1}
    DefaultTimeout = 2000
INVARIANTS AnswersAgree RunningIsTimed EqualTimeoutsDecide
PROPERTIES OutcomeFinal EveryRunEnds BoundedWaitReturns ImplementsContract
CHECK_DEADLOCK FALSE
