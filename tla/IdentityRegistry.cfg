SPECIFICATION Spec
CONSTANTS
    a = a
    b = b
    n = n
    u = u
    v1 = v1
    v2 = v2
    r1 = r1
    r2 = r2
    r3 = r3
    r4 = r4
    Request = {r1, r2, r3, r4}
    CgId = {a, b}
    Native = {n}
    Property = {u}
    Value = {v1, v2}
    Job <- MCJob
    None = None
SYMMETRY Symmetry
INVARIANTS
    OneOwner
    BindingKept
    MintedOnce
    LastWriteRead
CHECK_DEADLOCK FALSE
