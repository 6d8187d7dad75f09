SPECIFICATION Spec
CONSTANTS
    old = old
    new = new
    late = late
    home = home
    fork = fork
    Text = {old, new, late}
    Url = {home, fork}
    Home = home
    First = {old, late}
    Severe = {old, late}
    Breaking = {}
    Fix <- MCFix
    Written <- MCWritten
    Releases <- MCReleases
    MaxEvents = 1
    MaxLosses = 1
    Gone = Gone
    None = None
INVARIANTS
    SourceAgrees
    PinStored
PROPERTIES
    PinHonoured
CONSTRAINT
    LossesWithoutFixes
CHECK_DEADLOCK FALSE
