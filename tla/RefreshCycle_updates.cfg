SPECIFICATION Spec
CONSTANTS
    Refresh = {r1, r2}
    Call = {c1}
    Operation = {"update", "update_all", "preview"}
    Versions = 2
    Untagged = FALSE
    None = None
    Live = Live
    Free = Free
PROPERTIES
    AutoNeverDowngrades
    UserInstallsShown
SYMMETRY RefreshSymmetry
