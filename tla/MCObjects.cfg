SPECIFICATION MCSpec
CONSTANTS
    MaxHandlers = 3
    MaxDepth = 3
    ArObjects = {o1, o2}
    ArViews = {v1, v2}
    MaxArEntries = 3
    MaxArCounter = 3
    PtrObjects = 3
    PtrSlots = 2
    PtrRoots = {r1, r2}
    PtrViews = {v}
    PtrUses = {}
    DmIds = {1, 2, 3, 4}
    DmRoot = 1
    DmLazy = {3}
    DmCopyIds = {4}
    MaxDmEdits = 3
    MaxDmCrashes = 1
    RgClasses = {1, 2, 3, 4}
    RgObj = 0
    RgTrees <- Trees
    GtUids = {a, b}
    GtInner = {3, 4}
    GtIds = 6
    CryptoOverhead = 24
    LoginHeader = 18
    OpenHeader = 18
    GtPacketSizes = {60, 1498}
    MaxMade = 3
    MaxGtPackets = 1
    RingMax = 9
    WindowSize = 3
    MaxRepeatCount = 1
    StreamLen = 4
    SliceSize = 3
    ConfirmBound = 1
    ResponseBound = 1
    RequestBound = 2
CHECK_DEADLOCK FALSE
INVARIANTS
    EmissionCorrect SharesSound PointersExact GraphKept FactoryRight GatesRight
    DeliveredInOrder
PROPERTY HeldUntilDelivered
