CONSTANTS
    Ingresses = {"i1", "i2"}
    VarnishSvcs = {v, w}
    v = v
    w = w
    VarnishOf <- OfEach
    Foreign = {}
    Places = {"/"}
    Backends = {"b"}
    Defs <- Shared
    Ports = {1, 2}
    Named = Named
    NoPort = NoPort
    IPs = {11, 12}
    Rollouts <- OneRollout
    Bcfgs = {"c"}
    BcfgDefs <- TwoContents
    Absent = Absent
    NotReady = NotReady
    Changes = {"ing", "svc", "pods", "bcfg"}
    Missed = {"svc"}
    MaxChanges = 1
    MaxFaults = 0
SPECIFICATION Spec
INVARIANT NothingMissed
CHECK_DEADLOCK FALSE
