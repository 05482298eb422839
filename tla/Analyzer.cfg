SPECIFICATION FairSpec
CONSTANTS
    Calls = {a1, a2}
    CacheKeys = {k1}
    Severities = {"low", "critical"}
    Critical = "critical"
    Confidences = {0, 1, 2}
    RagThreshold = 1
    CriticalThreshold = 2
    MaxCallsPerHour = 1
    Providers = 2
    Patient = {1}
    NoRequest = NoRequest
    NoResult = NoResult
INVARIANTS
    TypeOK
    OvershootBounded
    CacheHoldsNoDegraded
PROPERTIES
    AnalysisEnds
