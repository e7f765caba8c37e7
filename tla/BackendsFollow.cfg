CONSTANTS
    Ingresses = {"i1", "i2"}
    VarnishSvcs = {v}
    v = v
    w = w
    VarnishOf <- OfV
    Foreign = {"i2"}
    Places = {"default", "/"}
    Backends = {"b"}
    Defs <- EitherPlace
    Ports = {1, 2}
    Named = Named
    NoPort = NoPort
    IPs = {11, 12}
    Rollouts <- PlainOrMixed
    Bcfgs = {}
    BcfgDefs <- NoBcfgs
    Absent = Absent
    NotReady = NotReady
    Changes = {"ing", "svc", "pods"}
    Missed = {"svc"}
    MaxChanges = 2
    MaxFaults = 1
SPECIFICATION Spec
PROPERTY BackendsFollow
CHECK_DEADLOCK FALSE
