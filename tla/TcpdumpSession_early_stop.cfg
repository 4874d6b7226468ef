CONSTANTS
    Modes = {"file"}
    Faults = {}
    MaxInbox = 2
SPECIFICATION FairSpec
CHECK_DEADLOCK FALSE
PROPERTIES
    StopDelivers
