SPECIFICATION FairSpec
CONSTANTS
    m = m
    k = k
    a = a
    b = b
    c = c
    d = d
    ghost = ghost
    p11 = p11
    p12 = p12
    ollama = ollama
    hosted = hosted
    None = None
    Node = {m, k, a, b, c, d, ghost}
    Procedure = {p11, p12}
    Provider = {ollama, hosted}
    Fallback = ollama
    Saved <- SavedSettings
    Canvas <- TwoCanvases
    UserGroup <- Groupings
    Response <- AnyAnswer
    MaxRetries = 2
    MaxProposals = 3
    MaxMembers = 2
    FewCandidates = 2
    MaxDrawn = 2
CHECK_DEADLOCK TRUE
INVARIANT NeverDropped
INVARIANT SafeToPreview
INVARIANT RowsOwnTheirProcedure
INVARIANT OneProvider
PROPERTY EventuallyAnswered
