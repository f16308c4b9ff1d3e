SPECIFICATION FairSpec
CONSTANTS
    Registered <- Relay
    Sync <- NotGreeting
    Async <- NotReset
    Answers <- Some
    MaxLate = 0
    Lines = {"HELO", "EHLO", "MAIL", "RCPT", "DATA", "DOT", "TEXT"}
    MaxLines = 8
    MaxChunk = 1
    Pipelining = FALSE
    Relaying = TRUE
    Faults = {"hangup"}
INVARIANTS WaitingClient
PROPERTIES CommandsAnswered Ends
CHECK_DEADLOCK FALSE
