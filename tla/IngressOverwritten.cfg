\* One Varnish Service for the Ingresses of two namespaces.
CONSTANTS
    Namespaces <- Two
    Services <- OneSvc
    Names = {"v", "w"}
    Ingresses = {"a1", "b1"}
    Home <- IngEach
    Hosts = {"h1", "h2"}
    Defs <- PlainDefs
    VcfgDefs <- NoVcfgs
    NoNamespace = NoNamespace
    NoAnnotation = NoAnnotation
    Malformed = Malformed
    Absent = Absent
    NotReady = NotReady
    Changes = {"ing"}
    MaxChanges = 2
    MaxFaults = 0
SPECIFICATION Spec
PROPERTY ConfigsFollow
CHECK_DEADLOCK FALSE
