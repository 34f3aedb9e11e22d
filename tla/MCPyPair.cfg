\* With and without ResetSeqNumFlag: two connections, one of them broken, a restart.
CONSTANTS
    ResetsOn = {TRUE, FALSE}
    MaxSeq = 6
    MaxConns = 2
    MaxStarts = 1
    MaxTimers = 2
    MaxBreaks = 1
SPECIFICATION Spec
INVARIANT NotAhead
INVARIANT NoOneSidedLogon
CHECK_DEADLOCK FALSE
