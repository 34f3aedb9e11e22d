\* Every goroutine that calls SendMessage does so.
CONSTANTS
    app = app
    admin = admin
    Users <- MCUsers
    NoOne = NoOne
    MaxSessions = 2
    MaxCalls = 3
    EnableReconnect = TRUE
    Chatty = {"monitor", "handler", "heartbeat"}
SPECIFICATION FairSpec
INVARIANT OneReconnectLoop
INVARIANT DetachedIsQuiet
INVARIANT StrandedOnlyIfSkipped
PROPERTY NoStaleDetach
PROPERTY CloseReturnsUnlessCaught
PROPERTY LossIsHandled
CHECK_DEADLOCK FALSE
