\* A shutdown at any time; whatever is synchronised in B fails, and A is synced all the same.
CONSTANTS
    Namespaces = {A, B}
    Hopeless = {B}
    NoItem = NoItem
    MayStop = TRUE
    MaxItems = 2
    MaxFailures = 1
SPECIFICATION Spec
PROPERTIES EachIsSynced StopReturnsUnlessMissed
CHECK_DEADLOCK FALSE
