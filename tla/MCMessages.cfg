\* Go: ten messages in bursts of up to three; a read takes up to 60 bytes, so
\* that it may end anywhere in a frame or span two or three of them.
\* Python: two pieces on the stream after an edit; four operations on the tags.
CONSTANTS
    Messages <- MCMessages
    Bursts <- MCBursts
    ReadSize = 60
    File <- MCFile
    SpecFile <- MCPyFile
    Drafts <- MCDrafts
    Updates <- MCUpdates
    Junk <- MCJunk
    MaxPieces = 2
    MaxEdits = 1
    ReadSizes <- MCReadSizes
    Names <- MCNames
    MaxOps = 4
    MaxNoise = 4
    MaxHead = 9
SPECIFICATION MCSpec
INVARIANT FramesAsSent
INVARIANT ReceivedAsSent
INVARIANT GroupsReadBack
INVARIANT ArrivesAsSent
INVARIANT TagsAgree
INVARIANT CachesCurrent
CHECK_DEADLOCK FALSE
