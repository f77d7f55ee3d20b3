SPECIFICATION EitherSpec
CONSTANTS
    plan = plan
    replan = replan
    route = route
    unmet = unmet
    NoRole = NoRole
    Names <- MCNames
    Unmet <- unmet
    Suffixes <- MCSuffixes
    Given <- MCGiven
    Roles <- MCRoles
    MaxLate = 1
    MaxAttempt = 1
    Writes <- MCWrites
    Lines <- MCLines
    BufferMax = 2
    Limit = 2
    MaxFaults = 1
INVARIANTS
    SucceededIsEarned
    FailedForAReason
    InputsAreNewest
    NoHole
CHECK_DEADLOCK FALSE
