SPECIFICATION FairSpec
CONSTANTS
    Nodes = {a, b}
    Baked = a
    NoNode = NoNode
    Steps = 0
    MaxFaults = 2
PROPERTIES
    BakesEnd
CHECK_DEADLOCK FALSE
