SPECIFICATION Spec
CONSTANTS
    d1 = d1
    d2 = d2
    p0 = p0
    o1 = o1
    o2 = o2
    o3 = o3
    c1 = c1
    None = None
    Doc = {d1, d2}
    Id = {p0}
    Object = {o1, o2, o3}
    Command = {c1}
    MaxHistory <- UnevenHistory
SYMMETRY Symmetry
INVARIANT UndoWipesEveryTrace
INVARIANT RedoFinds
INVARIANT ConfirmedMarked
PROPERTY BridgeKeepsConfirmed
PROPERTY OwnCanvasCleared
