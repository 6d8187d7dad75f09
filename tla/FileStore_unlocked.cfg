SPECIFICATION SpecFair
CONSTANTS
    Old1 = o1
    Old2 = o2
    Old3 = o3
    Txn = {t1, t2}
    Content = {a, b, o1, o2, o3}
    Incoming = {a}
    NoFile = NoFile
    Unchecked = Unchecked
    Free = Free
    Editor = Editor
    Slots = 1
    Limit = 1
    InitBackups <- All
    EditLimit = 0
    CrashLimit = 0
INVARIANT
    CommitIsExpected
PROPERTY
    EveryCallEnds
