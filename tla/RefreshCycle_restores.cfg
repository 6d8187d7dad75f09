SPECIFICATION FairSpec
CONSTANTS
    Refresh = {r1, r2}
    Call = {c1}
    Operation = {"restore"}
    Versions = 1
    Untagged = TRUE
    None = None
    Live = Live
    Free = Free
INVARIANTS
    NotModifiedIsKnown
PROPERTY
    UpdateIsFound
