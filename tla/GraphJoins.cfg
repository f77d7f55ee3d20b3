SPECIFICATION Spec
CONSTANTS
    Contracts <- OnlyJoin
    Roles <- MCRoles
    Assignment <- MCAssignment
    Nodes = {n1, n2, n3, n4, n5}
    n1 = n1
    n2 = n2
    n3 = n3
    n4 = n4
    n5 = n5
    Handlers = {h1, h2}
    MaxLeases = 0
    MaxFaults = 0
    NoNode = NoNode
    NoRole = NoRole
INVARIANTS
    JoinsAreServed
CHECK_DEADLOCK FALSE
