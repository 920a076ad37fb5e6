CONSTANTS
    Pad = 2
    FirstChunk = 2
    Chunk = 3
    Speeches = {0, 1, 2, 3, 4, 5}
SPECIFICATION HiggsSpec
INVARIANTS
    StreamMatchesBatch
CHECK_DEADLOCK FALSE
