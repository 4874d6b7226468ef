SPECIFICATION Spec
CONSTANTS
    east = east
    west = west
    m = m
    p1 = p1
    p2 = p2
    app = app
    side = side
    web = web
    home = home
    heap = heap
    equal = equal
    differing = differing
    None = None
    Clusters = {east, west}
    Namespaces = {m}
    HasNamespace <- MCHasNamespace
    PodTools = {"/terminal"}
    MaxCalls = 1
    ConfigMaps = {c1, c2}
    Names = {f1, f2}
    Texts = {empty, text}
    Empty = empty
    EditorCalls = 1
    Pods = {p1, p2}
    ContainersOf <- MCContainersOf
    Folders = {home}
    Home = home
    WorkDir <- MCWorkDir
    MaxDepth = 2
    FileCalls = 1
    WorkloadOf <- MCWorkloadOf
    Types = {heap, mutex}
    MaxProfiles = 2
    ListCalls = 1
    Static = {local}
    ClusterCalls = 2
    MaxRows = 3
    MaxSends = 2
    Files = {f, g}
    SaveFolders = {x, y}
    MaxDownloads = 3
    ProxyRequests = {r1, r2}
    ProxyOthers = {watch}
    DiffTypes = {heap}
    DiffPairs = {equal, differing}
    NoSamples <- MCNoSamples
    DiffRuns = {d1, d2}
SYMMETRY Symmetry
INVARIANTS
    WorkbenchTypeOK
    SpinnersEnd
    ToolWorksOnChoice
    ReloadRestoresChoice
    EditorsShowSelected
    ShownFilesAreThere
    
    RunErrorIsReal
    BodyIsOfResult
    HeadersCanGrow
    SavedWhereChosen
    AnswersOwnHeaders
CHECK_DEADLOCK FALSE
