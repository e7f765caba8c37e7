\* A VarnishConfig in B, for a Service with the name of the one in A.
CONSTANTS
    Namespaces <- Two
    Services <- OneSvc
    Names = {"v", "w"}
    Ingresses = {"a1", "b1"}
    Home <- IngEach
    Hosts = {"h1", "h2"}
    Defs <- PlainDefs
    VcfgDefs <- VcfgOfV
    NoNamespace = NoNamespace
    NoAnnotation = NoAnnotation
    Malformed = Malformed
    Absent = Absent
    NotReady = NotReady
    Changes = {"ing", "vcfg"}
    MaxChanges = 2
    MaxFaults = 0
SPECIFICATION Spec
INVARIANT VcfgOfSameNamespace
CHECK_DEADLOCK FALSE
