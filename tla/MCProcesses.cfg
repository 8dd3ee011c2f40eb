SPECIFICATION MCSpec
CONSTANTS
    BbCount = 1
    kRepeatCount = 2
    MaxBbLost = 1
    DyCount = 3
    MaxDyLost = 1
    MaxDySize = 300
    ExKinds = {"cloud", "delays", "bandwidth", "button"}
    ExMessages = 3
    ExDistil = FALSE
    MaxExStarts = 3
    MaxExPresses = 3
    MaxExLost = 1
    FsKinds = {"ram", "std", "header", "image", "spifs1", "spifs2"}
    FsKeys <- MCFsKeys
    FsData = {1, 2}
    MaxFsCrashes = 1
    TeKinds = {"object", "stream"}
    Indices = {1, 2, 3}
    Counted = {1, 2}
    Logged = {2, 3}
    MetricSize = 2
    SizeLimit = 3
    Durations = {1}
    MaxTeles = 3
    MaxOpen = 2
    MaxTeRestarts = 1
    MsBase = 4
    SizeBytes = 1
    Ticks = 2
    MaxMsWrites = 2
CHECK_DEADLOCK FALSE
INVARIANTS
    BenchesExact ClientsReused SerializedRight
    ListedAsStored ArithmeticRight TelemetryExact
PROPERTIES
    ImplementsFacility ProcessesEnd
