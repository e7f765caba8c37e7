SPECIFICATION Spec
CONSTANTS
    Clusters <- LongerPathFirst
    Requests <- SomeRequests
    MaxChanges = 1
    MaxRestarts = 1
INVARIANT ServesResources
CHECK_DEADLOCK FALSE
