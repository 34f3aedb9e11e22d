\* The heartbeat monitor sends a TestRequest while Close waits for it.
CONSTANTS
    app = app
    admin = admin
    Users <- MCUsers
    NoOne = NoOne
    MaxSessions = 1
    MaxCalls = 2
    EnableReconnect = TRUE
    Chatty = {"monitor"}
SPECIFICATION FairSpec
PROPERTY CloseReturns
CHECK_DEADLOCK FALSE
