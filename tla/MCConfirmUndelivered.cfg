SPECIFICATION Spec
CONSTANTS
    RingMax = 15
    WindowSize = 4
    MaxRepeatCount = 1
    BufferCapacity = 4
    FreedChunkReads = {}
    WriteSizes = {1}
    MaxWrites = 2
    MaxDataSizes = {3}
    DataBound = 2
    ResponseBound = 1
    ConfirmBound = 1
    RequestBound = 1
    Unreliable = FALSE
    WriteFails = FALSE
    Timeouts = TRUE
    Stops = FALSE
INVARIANT ConfirmedIsDelivered
