CONSTANTS
    r1 = r1
    r2 = r2
    r3 = r3
    k1 = k1
    k2 = k2
    v1 = v1
    v2 = v2
    a1 = a1
    a2 = a2
    a3 = a3
    a4 = a4
    None = None
    Requests <- MCTwoRequests
    Addrs <- MCThreeAddrs
    Keys <- MCKeys
    Values <- MCOneValue
    MaxInFlight = 1
    MaxVersions = 1
SPECIFICATION Spec
SYMMETRY Symmetry
CHECK_DEADLOCK FALSE
PROPERTIES
    SaveSavesOneItem
