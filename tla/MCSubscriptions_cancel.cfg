SPECIFICATION FairSpec
CONSTANTS
    r1 = r1  r2 = r2  r3 = r3  r4 = r4
    Reqs = {r1, r2, r3, r4}
    Kind <- Ending
    LastMonth = 1
CHECK_DEADLOCK FALSE
PROPERTY CancelTakesEffect
