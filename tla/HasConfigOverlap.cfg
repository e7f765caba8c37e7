\* The monitor still loads the configuration that a worker replaces.
CONSTANTS
    w1 = w1
    w2 = w2
    mon = mon
    Workers <- OneWorker
    Monitor = mon
    CallsOf <- ServiceStays
    Addrs = {a1}
    Gens = {g1}
    SvcRefs = {s1}
    Configs = {c1, c2}
    NoSvc = NoSvc
    NoSpec = NoSpec
    NoInst = NoInst
    NoThread = NoThread
    NotAvail = NotAvail
    monIntvl = 1
    MaxCalls = 3
    MaxFaults = 0
SPECIFICATION Spec
INVARIANT HasConfigMeansServed
CHECK_DEADLOCK FALSE
