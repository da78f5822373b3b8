SPECIFICATION Spec
CONSTANTS
    m1 = m1
    a1 = a1
    d1 = d1
    d2 = d2
    s1 = s1
    s2 = s2
    g1 = g1
    g2 = g2
    g3 = g3
    Run <- OneManualOneAuto
    AutoRun <- OneAuto
    Deletion <- TwoDeletes
    Target <- TwoTargets
    EnvTarget = s1
    Model <- ThreeModels
    Saves <- FreeSaves
    None = None
SYMMETRY Symmetry
INVARIANTS
    EntitiesHaveRow
    ConfigUnmixed
    DeletedLeavesNoVersion
    RowHasOverlay
