\* Four tasks that send, two restarts, numbers up to 4.
SPECIFICATION Spec
CONSTANTS
    a1 = a1
    a2 = a2
    Reader = Reader
    Hb = Hb
    Apps <- MCApps
    MaxSeq = 4
    MaxRestarts = 2
INVARIANT SentInSequence
INVARIANT HandedUpOnce
CHECK_DEADLOCK FALSE
