SPECIFICATION Spec
CONSTANTS
    Clients <- ThreeClients
    Requests = {q1, q2}
    SecureContext = TRUE
    MaxReconnects = 1
INVARIANTS PendingOnSocket StoppedStaysDown IntroducedOnce PromiseIsOpen CurrentIsRunning
PROPERTIES RequestsSettle
CHECK_DEADLOCK FALSE
