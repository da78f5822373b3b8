SPECIFICATION Spec
CONSTANTS
    r1 = r1
    r2 = r2
    Request = {r1, r2}
    Envelope <- MCEnvelope
    Key <- MCKey
    MaxFaults = 1
    Asked = {"d1", None}
    Mapping <- MCMapping
    Rule = {"s1", "s2"}
    None = None
SYMMETRY Symmetry
INVARIANTS
    GuardsNeverNeeded
    StaleListComplete
    FindingsAsPublished
    RulesAsPublished
    StampSeen
CHECK_DEADLOCK FALSE
