SPECIFICATION Spec
CONSTANTS
    Clusters <- ValidClusters
    Requests <- SomeRequests
    MaxChanges = 1
    MaxRestarts = 1
INVARIANTS
    TypeOK
    ServesResources
    NamesResources
PROPERTIES
    ResyncKeepsConfig
    GetsServed
CHECK_DEADLOCK FALSE
