\* Three items of two namespaces, a failure, and a shutdown at any time.
CONSTANTS
    Namespaces = {A, B}
    Hopeless = {}
    NoItem = NoItem
    MayStop = TRUE
    MaxItems = 3
    MaxFailures = 1
SPECIFICATION Spec
SYMMETRY Symm
INVARIANTS TypeOK ItemsAccounted BegunInOrder WaitGroupCounts
PROPERTY ImplementsSync
CHECK_DEADLOCK FALSE
