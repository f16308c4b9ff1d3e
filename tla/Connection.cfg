SPECIFICATION Spec
CONSTANTS
    Registered <- Envelope
    Sync <- NotGreeting
    Async <- NotReset
    Answers <- Some
    MaxLate = 0
    Lines = {"EHLO", "MAIL", "RCPT", "DATA", "DOT", "RSET", "QUIT"}
    MaxLines = 6
    MaxChunk = 1
    Pipelining = TRUE
    Relaying = FALSE
    Faults = {"hangup", "timeout"}
INVARIANTS NoStall DisconnectOnce OwnMethod
PROPERTIES ImplementsSession
CHECK_DEADLOCK FALSE
