SPECIFICATION SpecFair
CONSTANTS
    i1 = i1
    i2 = i2
    automation = automation
    script = script
    Domain = {automation, script}
    Call = {c1}
    Refresh = {r1}
    Item = {i1, i2}
    DomainOf <- MCDomainOf
    Free = Free
INVARIANTS
    StaleIsOwed
PROPERTIES
    ImplementsLedger
    StaleIsReloaded
