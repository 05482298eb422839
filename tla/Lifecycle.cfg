SPECIFICATION FairSpec
CONSTANTS
    Fingerprints = {"f1"}
    Names = {"f1"}
    NameOf <- OwnNames
    Sources = {"rag"}
    AcceptedSources = {"rag", "llm", "cache", "unknown"}
    NoFingerprint = NoFingerprint
    NoRecord = NoRecord
    NoAnalysis = NoAnalysis
    NoCR = NoCR
    NoWrite = NoWrite
    MaxEvents <- TwoEvents
    MaxReloads = 1
    MaxCrashes = 1
INVARIANTS
    TypeOK
    NotifiedWasSent
    CountsOnlyDeliveries
PROPERTIES
    ResolvedIsArchived
CHECK_DEADLOCK FALSE
