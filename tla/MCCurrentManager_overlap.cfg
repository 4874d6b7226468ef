CONSTANTS
    r1 = r1
    r2 = r2
    r3 = r3
    r4 = r4
    a = a
    b = b
    good = good
    broken = broken
    None = None
    Requests <- MCThreeCalls
    Names <- MCNames
    Cfgs <- MCCfgs
    Buildable <- MCGood
    MaxInFlight = 2
    MaxEdits = 0
SPECIFICATION Spec
SYMMETRY Symmetry
CHECK_DEADLOCK FALSE
INVARIANTS
    RightManager
