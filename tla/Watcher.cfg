SPECIFICATION FairSpec
CONSTANTS
    Keys = {k1, k2}
    Routines = {r1, r2}
    NoRoutine = NoRoutine
    NoKey = NoKey
    MaxAttempt = 1
INVARIANTS
    TypeOK
    OneStreamPerKey
PROPERTIES
    ImplementsOneStream
    RunningIsWatched
    CompletedIsReleased
