\* One sender beside the readLoop, a lost session, a reset, every fault.
CONSTANTS
    s1 = s1
    Reader = Reader
    Senders <- MCOne
    MaxSeq = 3
    MaxLosses = 1
    MaxUpsets = 1
    NewSeqNos = {2}
    Peers = {"trusts", "checks"}
    Faults = {"write", "app", "admin"}
SPECIFICATION Spec
INVARIANT NumberedOnce
INVARIANT TooLowExplained
INVARIANT PeerNotAhead
INVARIANT StoredNotSkipped
INVARIANT GapHealed
CHECK_DEADLOCK FALSE
