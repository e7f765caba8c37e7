SPECIFICATION Spec
CONSTANTS
    Clusters <- NotEqualToOne
    Requests <- SomeRequests
    MaxChanges = 1
    MaxRestarts = 1
INVARIANT ServesResources
CHECK_DEADLOCK FALSE
