SPECIFICATION PartsSpec
CONSTANTS
    Work = {w1}
    Mentions = {m1}
    Handlers = {h1, h2}
    NoJob = NoJob
    MaxGen = 2
    MaxAsks = 2
    MaxProcs = 3
    MaxFaults = 1
    Nodes = {a, b}
    NoNode = NoNode
    MaxBirths = 3
    MaxDeaths = 2
    Preparers = {p, q}
    Starters = {n}
    Native = FALSE
    Hashes = {"x", "y"}
    RootOps = 2
    MaxMoves = 1
    MaxTrouble = 1
    Names = {n1}
    Files = {f, g}
    MaxHeld = 1
    MaxPaths = 1
INVARIANTS
    OneOpenRun
    NobodyIsForgotten
    HalfIsTold
    StartedIsPrepared
    OkIsComplete
    MeasuredIsComplete
CHECK_DEADLOCK FALSE
