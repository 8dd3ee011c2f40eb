SPECIFICATION ExSpec
CONSTANTS
    ExKinds = {"button"}
    ExMessages = 1
    ExDistil = FALSE
    MaxExStarts = 2
    MaxExPresses = 1
    MaxExLost = 1
CHECK_DEADLOCK FALSE
INVARIANT BothRegistered
