\* A peer that checks the header of what it receives; no session is lost, and
\* nothing is refused or reset.
CONSTANTS
    s1 = s1
    Reader = Reader
    Senders <- MCOne
    MaxSeq = 3
    MaxLosses = 0
    MaxUpsets = 0
    NewSeqNos = {}
    Peers = {"checks"}
    Faults = {}
SPECIFICATION Spec
INVARIANT FillsAdvance
CHECK_DEADLOCK FALSE
