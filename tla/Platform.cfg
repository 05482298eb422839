SPECIFICATION FairSpec
CONSTANTS
    Containers = {c1}
    TailLines = 2
    Capacity = 1
    MaxGenerations = 2
    MaxLines = 3
    MaxReconnects = 1
INVARIANTS
    TypeOK
    OneLiveGeneration
    NoLineSkipped
    
PROPERTIES
    ImplementsOneStore
    EveryContainerStreamed
    EveryLineCounted
