SPECIFICATION Spec
CONSTANTS
    Old1 = o1
    Old2 = o2
    Old3 = o3
    Txn = {t1, t2}
    Content = {a, b, o1, o2, o3}
    Incoming = {a, b}
    NoFile = NoFile
    Unchecked = Unchecked
    Free = Free
    Editor = Editor
    Slots = 3
    Limit = 2
    InitBackups <- NoneOrAll
    EditLimit = 1
    CrashLimit = 1
SYMMETRY Interchangeable
INVARIANTS
    NoLostInstall
    BackupBeforeReplace
    NewestSurvive
PROPERTY
    ImplementsRevisionedFile
