\* Two items: the second's worker is created after Stop's loop.
CONSTANTS
    Namespaces = {A, B}
    Hopeless = {}
    NoItem = NoItem
    MayStop = TRUE
    MaxItems = 2
    MaxFailures = 0
SPECIFICATION Spec

PROPERTY StopReturns
CHECK_DEADLOCK FALSE
