SPECIFICATION Spec
CONSTANTS
    r1 = r1
    r2 = r2
    t1 = t1
    Rcpt = {r1, r2}
    Txn = {t1}
    Deliveries <- OneDomain
    MaxFiles = 3
    MaxTries = 2
    Slots = 1
    MaxRestarts = 1
    MaxDelays = 0
    Faults = {"write", "split", "rename", "plugins"}
SYMMETRY PairSymmetry
INVARIANT NoLoss
PROPERTY ImplementsSpool
CHECK_DEADLOCK FALSE
