SPECIFICATION Spec
CONSTANTS
    Contacts = {c1, c2}
    SendReqs = {s1}
    PauseReqs = {}
    DeleteReqs = {}
    ChunkSize = 1
    MaxLost = 0
CHECK_DEADLOCK FALSE
INVARIANT SentWasCalled
