SPECIFICATION SpecInterrupted
CONSTANTS
    i1 = i1
    i2 = i2
    automation = automation
    script = script
    Domain = {automation, script}
    Call = {c1}
    Refresh = {r1, r2}
    Item = {i1}
    DomainOf <- MCDomainOf
    Free = Free
INVARIANTS
    AnnouncedKept
PROPERTY
    ImplementsLossyLedger
SYMMETRY RefreshSymmetry
