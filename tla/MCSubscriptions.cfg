SPECIFICATION FairSpec
CONSTANTS
    r1 = r1  r2 = r2  r3 = r3  r4 = r4
    Reqs = {r1, r2, r3, r4}
    Kind <- Ending
    LastMonth = 2
CHECK_DEADLOCK FALSE
INVARIANT TypeOK
INVARIANT InvoicesSound
PROPERTY StatusSound
PROPERTY Progress
