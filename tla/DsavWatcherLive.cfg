SPECIFICATION LiveSpec
CONSTANTS
    p1 = p1
    r1 = r1
    r2 = r2
    r3 = r3
    t1 = t1
    Project <- OneProject
    Run <- TwoRuns
    ProjectOf <- AllOfP1
    Thread <- OneThread
    Configs <- Publishing
    Window = 2
    MaxTime = 2
    MaxRestarts = 1
    MaxFaults = 1
    LifespanReentry = TRUE
    None = None
PROPERTY
    EventuallySettled
