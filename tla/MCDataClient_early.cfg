SPECIFICATION Spec
CONSTANTS
    Clients <- ThreeClients
    Requests = {q1, q2}
    SecureContext = TRUE
    MaxReconnects = 0
INVARIANTS FirstFrameIsConnect
CHECK_DEADLOCK FALSE
