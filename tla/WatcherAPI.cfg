SPECIFICATION FairAPISpec
CONSTANTS
    Keys = {k1}
    Routines = {r1, r2}
    NoRoutine = NoRoutine
    NoKey = NoKey
    MaxAttempt = 1
INVARIANTS
    RegisteredIsStreaming
PROPERTIES
    CancelledStreamEnds
