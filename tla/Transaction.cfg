SPECIFICATION FairSpec
CONSTANTS
    ChunkSize = 5
    ReadSize = 9
    BufSize = 1
    SpoolAfter <- MCSpool
    Options <- MCOptions
    Messages <- MCMessages
    Parsing <- MCParsing
    Reads = 2
    Faults = {}
INVARIANTS ReadsWhole AttachmentsWhole
CHECK_DEADLOCK FALSE
PROPERTY DataEnds
