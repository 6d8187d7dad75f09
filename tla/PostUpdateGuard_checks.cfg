SPECIFICATION Spec
CONSTANTS
    b1 = b1
    b2 = b2
    Blueprint = {b1, b2}
    Aside = {b2}
    First <- MCFirst
    legacy = legacy
    modern = modern
    Content = {legacy, modern}
    Gone = Gone
    None = None
    MaxHa = 2
    MaxInteg = 1
    Verdict <- MCVerdict
    MaxEdits = 1
INVARIANTS
    RecordedMeansInspected
    IssuesAgree
    NothingHidden
