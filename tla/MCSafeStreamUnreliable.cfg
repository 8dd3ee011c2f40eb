SPECIFICATION Spec
CONSTANTS
    RingMax = 9
    WindowSize = 3
    MaxRepeatCount = 1
    BufferCapacity = 3
    FreedChunkReads = {0, 3}
    WriteSizes = {1, 2}
    MaxWrites = 2
    MaxDataSizes = {2}
    DataBound = 2
    ResponseBound = 1
    ConfirmBound = 1
    RequestBound = 1
    Unreliable = TRUE
    WriteFails = TRUE
    Timeouts = TRUE
    Stops = TRUE
INVARIANTS FirstWindowExact SendingExact
PROPERTY NothingTakenBack
