\* Two Ingresses with default backends.
CONSTANTS
    Namespaces <- Two
    Services <- OneSvc
    Names = {"v", "w"}
    Ingresses = {"a1", "a2"}
    Home <- IngsOfA
    Hosts = {"h1", "h2"}
    Defs <- DefaultDefs
    VcfgDefs <- NoVcfgs
    NoNamespace = NoNamespace
    NoAnnotation = NoAnnotation
    Malformed = Malformed
    Absent = Absent
    NotReady = NotReady
    Changes = {"ing"}
    MaxChanges = 2
    MaxFaults = 0
SPECIFICATION Spec
INVARIANT DefaultsAreRejected
CHECK_DEADLOCK FALSE
