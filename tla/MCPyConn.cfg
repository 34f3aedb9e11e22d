\* An initiator and an acceptor, each with two calls of start, two connections
\* and two calls of disconnect.
SPECIFICATION Spec
CONSTANTS
    Modes <- MCModes
    MaxRetries = 2
    MaxConns = 2
    MaxStarts = 2
    MaxCalls = 2
INVARIANTS
    SessionKeepsItsConnection
    NothingLeftOpen
    HeartbeatStops
PROPERTIES
    StartSettles
CHECK_DEADLOCK FALSE
