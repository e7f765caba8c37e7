\* Two items: the first is at work, the second's worker is not yet counted.
CONSTANTS
    Namespaces = {A, B}
    Hopeless = {}
    NoItem = NoItem
    MayStop = TRUE
    MaxItems = 2
    MaxFailures = 0
SPECIFICATION Spec

INVARIANT StoppedMeansShutDown
CHECK_DEADLOCK FALSE
