SPECIFICATION FairSpec
CONSTANTS
    Files = {1}
    MaxVersion = 2
    Words <- MCWords
    TooLong <- MCTooLong
    ChunkSize = 2
    Overlap = 1
    IndexBatchSize = 1
    MaxRetries = 2
    Dimensions = 8
    FormerSizes = {9}
    Incidents = {3}
    Score <- MCScore
    TopK = 2
    FailsAfter = {0}
    Indexers = {1, 2}
INVARIANTS
    TypeOK
    IndexedIsComplete
    RetrieveFindsBest
PROPERTIES
    IndexerEnds
    Refreshed
