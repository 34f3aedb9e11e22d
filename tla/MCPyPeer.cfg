\* Either mode, two connections, a restart, three messages read.
CONSTANTS
    Configs <- MCConfigs
    Inputs <- MCInputs
    Followers <- MCFollowers
    MaxSeq = 4
    MaxReads = 3
    MaxConns = 2
    MaxStarts = 1
    MaxTimers = 1
SPECIFICATION Spec
INVARIANT NothingSkipped
INVARIANT LiveMeansLoggedOn
INVARIANT GapAskedOnce
PROPERTY HandedUpInOrder
PROPERTY SentInOrder
CHECK_DEADLOCK FALSE
