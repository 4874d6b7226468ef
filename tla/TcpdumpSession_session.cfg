CONSTANTS
    Modes = {"file", "stdout", "wireshark", "other"}
    Faults = {"setup", "exec", "exit", "kill", "storage"}
    MaxInbox = 2
SPECIFICATION FairSpec
CHECK_DEADLOCK FALSE
INVARIANTS
    TypeOK
    FinishedMeansDrained
    DoneMeansDownloadable
PROPERTIES
    EndIsReported
    CaptureEnds
