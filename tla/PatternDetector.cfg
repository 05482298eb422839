SPECIFICATION Spec
CONSTANTS
    Fingerprints = {f1}
    Windows = {"1m", "15m"}
    Shortest = "1m"
    Duration <- Scaled
    StaleThreshold = 2
    Askers = {a1, a2}
    MaxDelay = 1
    Threshold = 1
    NoData = NoData
    NoCall = NoCall
    NoAnswer = NoAnswer
    MaxTime = 3
    MaxEvents = 3
SYMMETRY AskersAlike
INVARIANTS
    TypeOK
    EventsAscend
PROPERTIES
    ImplementsFrequency
CHECK_DEADLOCK FALSE
