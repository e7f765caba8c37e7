\* Every kind of change, with annotations of all kinds and default backends.
CONSTANTS
    Namespaces <- Two
    Services <- OneEach
    Names = {"v", "w"}
    Ingresses = {"a1", "b1"}
    Home <- IngEach
    Hosts = {"h1", "h2"}
    Defs <- AllDefs
    VcfgDefs <- VcfgsMoved
    NoNamespace = NoNamespace
    NoAnnotation = NoAnnotation
    Malformed = Malformed
    Absent = Absent
    NotReady = NotReady
    Changes = {"ing", "move", "svc", "vcfg", "moveVcfg"}
    MaxChanges = 3
    MaxFaults = 1
SPECIFICATION Spec
INVARIANTS TypeOK OnlyAddressed
CHECK_DEADLOCK FALSE
