SPECIFICATION Spec
CONSTANTS
    p1 = p1
    r1 = r1
    r2 = r2
    r3 = r3
    t1 = t1
    Project <- OneProject
    Run <- ThreeRuns
    ProjectOf <- AllOfP1
    Thread <- OneThread
    Configs <- Reconfigured
    Window = 2
    MaxTime = 2
    MaxRestarts = 1
    MaxFaults = 1
    LifespanReentry = TRUE
    None = None
SYMMETRY RunSymmetry
INVARIANTS
    KeptStillCaptured
    NewestSurvives
    RecordedWithinLimit
PROPERTY
    LifecycleSpec
