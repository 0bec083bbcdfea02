SPECIFICATION DocumentsSpec
CONSTANTS
    Docs = {d1, d2}
    Sources <- MCSources
    Writers = {w1, w2}
    Queries <- MCQueries
    Similarity <- MCSimilarity
    ChunkSize = 3
    Overlap = 1
    MaxLines = 2
    RecallFloor = 10
    RerankFloor = 15
    MinRecall = 2
    Starts <- MCStarts
    TopKs = {2}
    Summaries <- MCSummaries
    MemoryFloor = 30
    ZoneSize = 1
    MaxMissed = 1
    MaxEdits = 1
    MaxSearches = 1
SYMMETRY Interchangeable
INVARIANTS DocumentCovered FusionDominance OutageKeepsRecall NothingMissed
CHECK_DEADLOCK FALSE
