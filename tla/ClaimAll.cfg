SPECIFICATION EitherSpec
CONSTANTS
    a = a
    b = b
    a1 = a1
    b1 = b1
    Runs = {a, b}
    Steps = {a1, b1}
    RunOf <- MCRunOf
    Loops = {a1}
    MaxAttempts = 2
    MaxLives = 2
    MaxFaults = 1
    NoRun = NoRun
    NoStep = NoStep
INVARIANTS
    NoRerunAcrossLives
    RerunOnlyAfterGivingUp
    ExitIsCurrent
PROPERTIES
    ClaimsComeBack
