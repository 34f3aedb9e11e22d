\* Two callers, every fault, two restarts.
CONSTANTS
    c1 = c1
    c2 = c2
    Callers <- MCCallers
    SetValues <- MCSetValues
    MaxSeq = 3
    MaxRestarts = 2
    Faults = {"read", "write"}
SPECIFICATION SeqSpec
SYMMETRY Symmetry
INVARIANT FreshUnlessOverlapped
INVARIANT RowCurrentWhenQuiet
CHECK_DEADLOCK FALSE
