SPECIFICATION Spec
CONSTANTS
    Values <- MCValues
    Lines <- MCLines
    Pods = {p1, p2}
    Bits = {1, 2, 3}
    Hash <- MCHash
    MaxLines = 3
INVARIANTS
    TypeOK
    ErrorsAreGrouped
    OneAnalysisPerError
CHECK_DEADLOCK FALSE
