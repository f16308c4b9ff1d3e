SPECIFICATION FairSpec
CONSTANTS
    r1 = r1
    r2 = r2
    t1 = t1
    Rcpt = {r1, r2}
    Txn = {t1}
    Deliveries <- OneDomain
    MaxFiles = 4
    MaxTries = 2
    Slots = 2
    MaxRestarts = 0
    MaxDelays = 0
    Faults = {"drop", "lmtp", "rename"}
INVARIANTS TypeOK OneEnd RefcountExact NoSlotLeak NextCbOnce
CHECK_DEADLOCK FALSE
PROPERTY AckedEnds
