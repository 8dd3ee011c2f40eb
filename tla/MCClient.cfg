SPECIFICATION MCSpec
CONSTANTS
    Channels <- IpAndName
    MaxPackets = 3
    MaxConnects = 3
    LowOutcomes = {"kSuccess", "kFailed"}
    UserStops = {"kQueued", "kProgress", "kSuccess"}
    MaxAddresses = 2
    RegServers = 3
    NoChannels = {3}
    MaxRequests = 7
    MaxLosses = 1
    MaxTimeouts = 2
    WritesFail = TRUE
    SignaturesBad = TRUE
    CcClients = {1, 2}
    CcServers = {1, 2}
    MaxBare = 1
    CcUids = {7}
    CcStreamIds = {3, 5}
    MaxFailures = 4
    LuServers = {1, 2}
    LuClouds = {{}, {5, 6}}
    MaxLookups = 2
    MaxLinkFailures = 1
    MaxLost = 1
    PsMaxWrites = 3
    PsBufferMax = 2
    PsMaxReconnects = 2
    ApIds = 2
    ApClasses = {"A", "B"}
    MaxApRequests = 3
    MaxApPackets = 2
CHECK_DEADLOCK FALSE
INVARIANTS
    QueueServed RegistrationSafe FailuresFollowed
    LookupRight WritesPass CallsAnswered
PROPERTY
    ClientGoesOn
