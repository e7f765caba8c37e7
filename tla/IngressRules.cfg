\* Three Varnish Services or some of them, an Ingress in each namespace; no annotation names another namespace.
CONSTANTS
    Namespaces <- Two
    Services <- ThreeSvcs
    Names = {"v", "w"}
    Ingresses = {"a1", "b1"}
    Home <- IngEach
    Hosts = {"h1", "h2"}
    Defs <- LocalDefs
    VcfgDefs <- VcfgOfV
    NoNamespace = NoNamespace
    NoAnnotation = NoAnnotation
    Malformed = Malformed
    Absent = Absent
    NotReady = NotReady
    Changes = {"ing", "move", "vcfg"}
    MaxChanges = 4
    MaxFaults = 1
SPECIFICATION Spec
INVARIANTS OnlyAssigned CollectsAssigned
CHECK_DEADLOCK FALSE
