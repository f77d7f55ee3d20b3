SPECIFICATION FreshSpec
CONSTANTS
    Nodes = {a, b}
    Baked = a
    NoNode = NoNode
    Steps = 2
    MaxFaults = 1
INVARIANTS
    UnchangedSinceMatch
    HandedIsMerged
CHECK_DEADLOCK FALSE
