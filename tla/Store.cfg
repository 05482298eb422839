SPECIFICATION FairStoreSpec
CONSTANTS
    Fingerprints = {"f1", "f2"}
    Names = {"f1", "f2"}
    NameOf <- OwnNames
    Sources = {"rag", "openai"}
    AcceptedSources = {"rag", "llm", "cache", "unknown"}
    NoFingerprint = NoFingerprint
    NoRecord = NoRecord
    NoAnalysis = NoAnalysis
    NoCR = NoCR
    NoWrite = NoWrite
    MaxEvents <- OneIsRepeated
    MaxReloads = 1
    MaxCrashes = 1
INVARIANTS
    StoreTypeOK
PROPERTIES
    PersistedIsKept
    EventuallyPersisted
CHECK_DEADLOCK FALSE
