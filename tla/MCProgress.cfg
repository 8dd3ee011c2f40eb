SPECIFICATION MCSpec
CONSTANTS
    RingMax = 15
    WindowSize = 4
    MaxRepeatCount = 1
    BufferCapacity = 4
    FreedChunkReads = {}
    WriteSizes = {1, 2}
    MaxWrites = 3
    MaxDataSizes = {2}
    DataBound = 2
    ResponseBound = 2
    ConfirmBound = 1
    RequestBound = 1
    Unreliable = FALSE
    WriteFails = FALSE
    Timeouts = FALSE
    Stops = FALSE
    Notifiers = {t1, t2}
INVARIANTS WokenWhenTriggered NothingLost
PROPERTIES WorkGetsDone EverythingDelivered ImplementsByteStream
