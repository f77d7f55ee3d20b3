CONSTANTS
    plan = plan
    replan = replan
    route = route
    unmet = unmet
    NoRole = NoRole
    Names <- MCNames
    Unmet <- unmet
    Suffixes <- MCSuffixes
    Given <- OnlyChecks
    Roles <- MCRoles
    MaxLate = 1
SPECIFICATION Spec
INVARIANT EnoughIsEnough
