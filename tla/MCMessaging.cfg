SPECIFICATION FairSpec
CONSTANTS
    StartMsgs = {m1}
    SendMsgs = {m2}
    MaxRetries = 1
    MaxFaults = 1
    MaxMessages = 1
    Faulty = {m2}
    Erring = {m1}
    RowSecurity = FALSE
    TokenReadable = TRUE
    Ordered = {m2}
    ExtraStatuses = {"deleted"}
INVARIANT TypeOK
INVARIANT DuplicatesAreFaults
INVARIANT StatusNeverAhead
PROPERTY StatusMovesForward
PROPERTY TaskEnds
