SPECIFICATION MCSpec
CONSTANTS
    ByteBits = 2
    MinMaxStoredValue = 2
    Ranges = 3
    PacketSizes = {1, 5}
    Fills = {3}
    MaxPackets = 2
    WireSize = 3
    Breaks = TRUE
    WtSize = 2
    MaxWtPackets = 2
    MaxWtReads = 3
    WtStops = TRUE
    WtReplies = TRUE
    LtSize = 2
    MaxLtPackets = 3
    MaxLtConnects = 3
    LtNow = FALSE
    DnKinds = {"cares", "esp32"}
    MaxDnQueries = 3
    MaxDnLost = 1
    AdKinds = {"ethernet", "wifi"}
    kMaxRetry = 2
    MaxAdActions = 3
    MaxAdFalls = 2
    PoKinds = {"epoll", "kqueue", "freertos", "win"}
    PoFds = {3, 4}
    MaxPoAdds = 3
    MaxPoEvents = 2
CHECK_DEADLOCK FALSE
INVARIANTS
    PacketsWhole OverlappedOnce CallbacksFindOwner
    AnsweredOnce RetriesBounded RemovedStaySilent
PROPERTIES
    RequestsEnd
