SPECIFICATION Spec
CONSTANTS
    a = a
    b = b
    c = c
    n1 = n1
    n2 = n2
    h1 = h1
    h2 = h2
    a1 = a1
    a2 = a2
    a3 = a3
    b1 = b1
    c1 = c1
    Runs = {a, b, c}
    Nodes = {n1, n2}
    Steps = {a1, b1, c1}
    Grants <- MCGrants
    RunOf <- MCRunOf
    NodeOf <- MCNodeOf
    StepNeeds <- MCStepNeeds
    Timed = {}
    Judge <- MCJudge
    Handlers = {h1}
    Reaper = Reaper
    Person = Person
    NoRun = NoRun
    MaxFaults = 0
INVARIANTS
    AllOrNothing
    EndedHoldsNothing
    NoLostWakeup
PROPERTIES
    NoOvertaking
    KeepsLedger
