SPECIFICATION FairSpec
CONSTANTS
    r1 = r1
    r2 = r2
    t1 = t1
    Rcpt = {r1, r2}
    Txn = {t1}
    Deliveries <- TwoDomains
    MaxFiles = 4
    MaxTries = 1
    Slots = 1
    MaxRestarts = 1
    MaxDelays = 1
    Faults = {"accept","read","odd"}
PROPERTY AckedEnds
CHECK_DEADLOCK FALSE
