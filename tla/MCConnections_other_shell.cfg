SPECIFICATION Spec
CONSTANTS
    p1 = p1
    p2 = p2
    main = main
    side = side
    None = None
    MaxSockets = 2
    Deaf = {2}
    Pods = {p1, p2}
    ContainersOf <- MCContainersOf
    MaxTerminals = 4
    MaxInstances = 2
    MaxCheckTimes = 30
    Tasks = {t1}
    Stops = {s1}
    MaxCrashes = 1
INVARIANT
    ShellInShownContainer
CHECK_DEADLOCK FALSE
