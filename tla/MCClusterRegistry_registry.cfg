CONSTANTS
    r1 = r1
    r2 = r2
    r3 = r3
    cloud = cloud
    laptop = laptop
    good = good
    other = other
    broken = broken
    None = None
    Requests <- MCThreeRequests
    Names <- MCNames
    LocalNames <- MCLocal
    Cfgs <- MCThreeCfgs
    Buildable <- MCTwoGood
    MaxInFlight = 3
    MaxRestarts = 1
SPECIFICATION Spec
SYMMETRY Symmetry
CHECK_DEADLOCK FALSE
INVARIANTS
    TypeOK
    ManagersHandedOver
    NoGhostManager
    ManagerMatchesRow
    OutOfServiceAfterErrorOnly
PROPERTIES
    RestartServesEveryRow
    LeaksOnlyByAdding
