SPECIFICATION Spec
CONSTANTS
    Registered <- AnyName
    Sync <- NotGreeting
    Async <- Slow
    Answers <- Some
    MaxLate = 1
    Lines = {"EHLO", "MAIL", "RCPT", "DATA", "DOT", "BARE", "BAD"}
    MaxLines = 5
    MaxChunk = 1
    Pipelining = FALSE
    Relaying = FALSE
    Faults = {"hangup", "timeout", "stream", "write"}
INVARIANTS AcceptedOnly
CHECK_DEADLOCK FALSE
