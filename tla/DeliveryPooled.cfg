SPECIFICATION Spec
CONSTANTS
    Mails = 2
    Rcpts <- TwoOne
    Addresses <- TwoOne
    Answers <- Accepts
    Settings <- Pooling
    Sockets = 3
    Pools = 2
    Faults = {}
    Losses = 0
INVARIANT RejectedByDestination
CHECK_DEADLOCK FALSE
