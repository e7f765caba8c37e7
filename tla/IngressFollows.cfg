\* Ingresses and a VarnishConfig of one namespace with two Varnish Services.
CONSTANTS
    Namespaces <- Two
    Services <- SvcsOfA
    Names = {"v", "w"}
    Ingresses = {"a1", "a2"}
    Home <- IngsOfA
    Hosts = {"h1", "h2"}
    Defs <- RulesDefs
    VcfgDefs <- VcfgOfV
    NoNamespace = NoNamespace
    NoAnnotation = NoAnnotation
    Malformed = Malformed
    Absent = Absent
    NotReady = NotReady
    Changes = {"ing", "vcfg"}
    MaxChanges = 4
    MaxFaults = 1
SPECIFICATION Spec
INVARIANT NothingMissed
PROPERTY ConfigsFollow
CHECK_DEADLOCK FALSE
