SPECIFICATION Spec
CONSTANTS
    RingMax = 9
    WindowSize = 3
    MaxRepeatCount = 1
    BufferCapacity = 9
    FreedChunkReads = {}
    WriteSizes = {2}
    MaxWrites = 4
    MaxDataSizes = {2}
    DataBound = 1
    ResponseBound = 1
    ConfirmBound = 1
    RequestBound = 1
    Unreliable = FALSE
    WriteFails = FALSE
    Timeouts = FALSE
    Stops = FALSE
INVARIANT DoneIsDelivered
