SPECIFICATION Spec
CONSTANTS
    RingMax = 13
    WindowSize = 6
    MaxRepeatCount = 1
    BufferCapacity = 6
    FreedChunkReads = {}
    WriteSizes = {3}
    MaxWrites = 6
    MaxDataSizes = {2}
    DataBound = 2
    ResponseBound = 2
    ConfirmBound = 1
    RequestBound = 1
    Unreliable = FALSE
    WriteFails = FALSE
    Timeouts = FALSE
    Stops = FALSE
INVARIANT DeliveredPrefix
