CONSTANTS
    r1 = r1
    r2 = r2
    r3 = r3
    cloud = cloud
    laptop = laptop
    good = good
    other = other
    broken = broken
    None = None
    Requests <- MCThreeRequests
    Names <- MCOneName
    LocalNames <- MCNoLocal
    Cfgs <- MCGood
    Buildable <- MCGood
    MaxInFlight = 1
    MaxRestarts = 0
SPECIFICATION Spec
SYMMETRY Symmetry
CHECK_DEADLOCK FALSE
PROPERTIES
    NotExistMeansNoRow
