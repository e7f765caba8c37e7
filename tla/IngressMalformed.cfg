\* One of two Ingresses has a malformed annotation.
CONSTANTS
    Namespaces <- Two
    Services <- OneSvc
    Names = {"v", "w"}
    Ingresses = {"a1", "a2"}
    Home <- IngsOfA
    Hosts = {"h1", "h2"}
    Defs <- WrongDefs
    VcfgDefs <- NoVcfgs
    NoNamespace = NoNamespace
    NoAnnotation = NoAnnotation
    Malformed = Malformed
    Absent = Absent
    NotReady = NotReady
    Changes = {"ing"}
    MaxChanges = 2
    MaxFaults = 0
SPECIFICATION Spec
PROPERTY ConfigsFollow
CHECK_DEADLOCK FALSE
