SPECIFICATION Spec
CONSTANTS
    Containers = {c1, c2}
    Noise = {2}
    TailLines = 2
    Capacity = 1
    MaxLines = 3
    MaxConnects = 2
INVARIANTS
    TypeOK
    OneAscendingRunPerStream
    OneLateSend
    NothingLostInTail
CHECK_DEADLOCK FALSE
SYMMETRY Symmetry
