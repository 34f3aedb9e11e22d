CONSTANTS
    s1 = s1
    d1 = d1
    d2 = d2
    Reader = Reader
    Writer = Writer
    Senders <- MCSenders
    Stoppers <- MCStoppers
    Capacity = 1
    MaxSends = 2
    MaxInbound = 1
SPECIFICATION FairSpec
INVARIANT OnCloseAtMostOnce
INVARIANT StoppedMeansQuiet
INVARIANT CloseCarriedThrough
INVARIANT OneCloser
PROPERTY ImplementsLink
PROPERTY StopReturns
PROPERTY SendReturns
PROPERTY EndIsReported
CHECK_DEADLOCK FALSE
