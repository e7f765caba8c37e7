CONSTANTS
    Ingresses = {"i1", "i2"}
    VarnishSvcs = {v}
    v = v
    w = w
    VarnishOf <- OfV
    Foreign = {}
    Places = {"/"}
    Backends = {"b"}
    Defs <- Shared
    Ports = {1, 2}
    Named = Named
    NoPort = NoPort
    IPs = {11, 12}
    Rollouts <- SplitRollouts
    Bcfgs = {"c"}
    BcfgDefs <- NoBcfgs
    Absent = Absent
    NotReady = NotReady
    Changes = {"ing", "svc", "pods", "bcfg"}
    Missed = {"svc"}
    MaxChanges = 1
    MaxFaults = 0
SPECIFICATION Spec
INVARIANT NothingMissed
CHECK_DEADLOCK FALSE
