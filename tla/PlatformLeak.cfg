SPECIFICATION FairSpec
CONSTANTS
    Containers = {c1}
    TailLines = 2
    Capacity = 1
    MaxGenerations = 2
    MaxLines = 2
    MaxReconnects = 0
PROPERTIES
    ReplacedStreamsEnd
