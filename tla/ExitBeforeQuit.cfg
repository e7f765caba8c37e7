\* A signal, with or without work to do.
CONSTANTS
    Namespaces = {A, B}
    Hopeless = {}
    NoItem = NoItem
    MayStop = TRUE
    MaxItems = 1
    MaxFailures = 0
SPECIFICATION Spec

INVARIANT ExitAfterQuit
CHECK_DEADLOCK FALSE
