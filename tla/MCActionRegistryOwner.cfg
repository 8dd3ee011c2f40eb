SPECIFICATION ArSpec
CONSTANTS
  ArObjects = {o1, o2}
  ArViews = {v1, v2}
  MaxArEntries = 2
  MaxArCounter = 4
INVARIANT PointsToOwner
CHECK_DEADLOCK FALSE
