SPECIFICATION StepSpec
CONSTANTS
    MaxRuns = 1
    WithDiff = TRUE
    MaxCrashes = 1
    Names <- TwoServers
    Jobs <- GivenJobs
    Outs <- Required
    Plan = "plan"
    Problems = {"p1", "p2", "p3"}
    HookBudget = 2
    MaxStops = 2
INVARIANTS
    CapturedIsWhole
    RunsAsAsked
    OnlyWholeWork
PROPERTIES
    StepEnds
    Implements
CHECK_DEADLOCK FALSE
