SPECIFICATION PtrSpec
CONSTANTS
    PtrObjects = 2
    PtrSlots = 1
    PtrRoots = {r1, r2}
    PtrViews = {v}
    PtrUses = {"shared", "cycle"}
CHECK_DEADLOCK FALSE
INVARIANT ReferredAlive
