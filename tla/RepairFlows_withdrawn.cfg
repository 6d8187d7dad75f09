SPECIFICATION Spec
CONSTANTS
    old = old
    new = new
    late = late
    home = home
    fork = fork
    Text = {old, new, late}
    Url = {home, fork}
    Home = home
    First = {old}
    Severe = {old, late}
    Breaking = {}
    Fix <- MCFix
    Written <- MCWritten
    Releases <- MCReleases
    MaxEvents = 1
    MaxLosses = 0
    Gone = Gone
    None = None
INVARIANTS
    UrlInFile
CHECK_DEADLOCK FALSE
