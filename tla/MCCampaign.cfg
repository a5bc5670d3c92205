SPECIFICATION FairSpec
CONSTANTS
    Contacts = {c1, c2, c3}
    SendReqs = {s1}
    PauseReqs = {p1}
    DeleteReqs = {d1}
    ChunkSize = 2
    MaxLost = 1
CHECK_DEADLOCK FALSE
INVARIANT TypeOK
INVARIANT SentSound
PROPERTY DispatchSound
PROPERTY RunSettles
