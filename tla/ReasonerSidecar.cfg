SPECIFICATION FairSidecarSpec
CONSTANTS
    Limit = 4
    Margin = 2
    ShaclWait = 2
    MaxUntimed = 3
    Absent = Absent
INVARIANTS
    ClaimsHold
    NothingLeftBehind
    ProxyOutwaits
PROPERTY
    Freed
CHECK_DEADLOCK FALSE
