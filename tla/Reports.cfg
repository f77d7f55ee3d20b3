SPECIFICATION EitherSpec
CONSTANTS
    Contracts <- MCContracts
    Roles <- MCRoles
    Assignment <- MCAssignment
    Nodes = {n1, n2, n3, n4, n5}
    n1 = n1
    n2 = n2
    n3 = n3
    n4 = n4
    n5 = n5
    Handlers = {h1, h2}
    MaxLeases = 4
    MaxFaults = 1
    NoNode = NoNode
    NoRole = NoRole
    PlanContracts <- MCPlanContracts
    Plans <- MCPlans
    MaxVersions = 4
    NoStep = NoStep
INVARIANTS
    LateReleasesAreSafe
    HoldingsInOrder
    RoadsStayClosed
    RowsFollowContract
PROPERTIES
    RunsEnd
    RetiredStepsStayUnbegun
CHECK_DEADLOCK FALSE
