CONSTANTS
    Ingresses = {"i1", "i2"}
    VarnishSvcs = {v, w}
    v = v
    w = w
    VarnishOf <- OfEach
    Foreign = {}
    Places = {"/"}
    Backends = {"b", "d"}
    Defs <- OneEach
    Ports = {1}
    Named = Named
    NoPort = NoPort
    IPs = {11, 12}
    Rollouts <- OneRollout
    Bcfgs = {"c"}
    BcfgDefs <- EitherService
    Absent = Absent
    NotReady = NotReady
    Changes = {"bcfg", "rename"}
    Missed = {"svc"}
    MaxChanges = 1
    MaxFaults = 0
SPECIFICATION Spec
INVARIANT NothingMissed
CHECK_DEADLOCK FALSE
