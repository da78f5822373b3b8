SPECIFICATION Spec
CONSTANTS
    r1 = r1
    r2 = r2
    Request = {r1, r2}
    Envelope <- Corrected
    Key <- MCKey
    MaxFaults = 0
    Asked = {"d1"}
    Mapping = {}
    Rule = {}
    None = None
SYMMETRY Symmetry
INVARIANT
    RepublishSettles
CHECK_DEADLOCK FALSE
