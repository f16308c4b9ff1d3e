SPECIFICATION FairSpec
CONSTANTS
    Mails = 2
    Rcpts <- TwoOne
    Addresses <- TwoOne
    Answers <- Refuses
    Settings <- Relays
    Sockets = 4
    Pools = 2
    Faults = {"refuse", "close"}
    Losses = 1
INVARIANTS LentOnce DecidedOnce ListsPartition ListsTrue
PROPERTY Settles
CHECK_DEADLOCK FALSE
