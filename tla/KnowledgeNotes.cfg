SPECIFICATION Spec
CONSTANTS
    n1 = n1
    n2 = n2
    r1 = r1
    r2 = r2
    r3 = r3
    Request = {r1, r2, r3}
    Note = {n1, n2}
    Job <- MCJob
    Known = {n1}
    None = None
SYMMETRY Symmetry
INVARIANTS
    EditsNotLost
    ConfirmIsPrefix
    InsertedIsLinked
CHECK_DEADLOCK FALSE
