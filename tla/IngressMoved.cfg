\* The annotation of an Ingress is changed to another Service.
CONSTANTS
    Namespaces <- Two
    Services <- SvcsOfA
    Names = {"v", "w"}
    Ingresses = {"a1"}
    Home <- IngOfA
    Hosts = {"h1", "h2"}
    Defs <- MoveDefs
    VcfgDefs <- NoVcfgs
    NoNamespace = NoNamespace
    NoAnnotation = NoAnnotation
    Malformed = Malformed
    Absent = Absent
    NotReady = NotReady
    Changes = {"ing", "move"}
    MaxChanges = 2
    MaxFaults = 0
SPECIFICATION Spec
PROPERTY ConfigsFollow
CHECK_DEADLOCK FALSE
