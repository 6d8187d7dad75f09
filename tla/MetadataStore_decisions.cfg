SPECIFICATION MCSpec
CONSTANTS
    Path = {p1, p2}
    Saver = {s1, s2}
    Nothing = Nothing
    Forced = Forced
INVARIANTS
    DecisionStored
    DecisionShown
    RestAgrees
PROPERTIES
    BehavesAsRegister
    PinEndsStored
