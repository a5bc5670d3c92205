SPECIFICATION Spec
CONSTANTS
    StartMsgs = {}
    SendMsgs = {m1}
    MaxRetries = 1
    MaxFaults = 0
    MaxMessages = 1
    RowSecurity = FALSE
    TokenReadable = FALSE
    Faulty = {}
    Erring = {}
    Ordered = {}
    ExtraStatuses = {}
INVARIANT SendOutcomeRecorded
