SPECIFICATION Spec
CONSTANTS
    Template = {a, b}
    Imported = a
    Validator = {v1, v2}
    NoPaths = NoPaths
    Input = {"k1", "name"}
    Hidden = {"name"}
    Selector = {"text", "number"}
    Schemas <- MCSchemas
    Consumer = {c1}
    Broken = Broken
    NoVersion = NoVersion
    Unused = Unused
    Unreadable = Unreadable
    Inspector = {p1, p2}
    Issue = {i1, i2}
    Theirs = {theirs}
    Ours = Ours
    Absent = Absent
    NoTask = NoTask
    Url = {u, v}
    Importer = {m1, m2}
    Text = {x1}
    NoUrl = NoUrl
    NoFile = NoFile
    Blueprint = {b1, b2}
    Closed = Closed
    Never = Never
    Version = {n1, n2, n3}
    Viewer = {w1}
    Nothing = Nothing
INVARIANTS
    CacheFresh
    ReportedMissing
    RegistryUntouched
    ShowsOffered
    RisksAreReal
PROPERTIES
    SafeUpdate
    TrackedAsWanted
    ImportsOwnFile
