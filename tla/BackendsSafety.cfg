CONSTANTS
    Ingresses = {"i1", "i2"}
    VarnishSvcs = {v}
    v = v
    w = w
    VarnishOf <- OfV
    Foreign = {}
    Places = {"/"}
    Backends = {"b"}
    Defs <- Shared
    Ports = {1, 2}
    Named = Named
    NoPort = NoPort
    IPs = {11, 12}
    Rollouts <- PlainOrMixed
    Bcfgs = {"c"}
    BcfgDefs <- OrInvalid
    Absent = Absent
    NotReady = NotReady
    Changes = {"ing", "svc", "pods", "bcfg"}
    Missed = {"svc"}
    MaxChanges = 1
    MaxFaults = 1
SPECIFICATION Spec
INVARIANTS TypeOK NothingMissed
CHECK_DEADLOCK FALSE
