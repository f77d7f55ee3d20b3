SPECIFICATION FairSpec
CONSTANTS
    a = a
    b = b
    c = c
    n1 = n1
    n2 = n2
    h1 = h1
    h2 = h2
    a1 = a1
    a2 = a2
    a3 = a3
    b1 = b1
    c1 = c1
    Runs = {a}
    Nodes = {n1}
    Steps = {a1, a2, a3}
    Grants <- MCGrants
    RunOf <- MCRunOf
    NodeOf <- MCNodeOf
    StepNeeds <- MCStepNeeds
    Timed = {a3}
    Judge <- MCJudge
    Handlers = {h1, h2}
    Reaper = Reaper
    Person = Person
    NoRun = NoRun
    MaxFaults = 1
PROPERTIES
    EndIsFinal
    SealsEventually
    LateIsReclaimed
    OrphansClose
