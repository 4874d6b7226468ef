CONSTANTS
    r1 = r1
    r2 = r2
    r3 = r3
    r4 = r4
    a = a
    b = b
    good = good
    broken = broken
    None = None
    Requests <- MCFourCalls
    Names <- MCNames
    Cfgs <- MCCfgs
    Buildable <- MCGood
    MaxInFlight = 3
    MaxEdits = 1
SPECIFICATION Spec
SYMMETRY Symmetry
CHECK_DEADLOCK FALSE
INVARIANTS
    TypeOK
    CurrentRuns
    AloneGetsRightManager
    OneManagerRuns
PROPERTIES
    SwitchesToRunning
