\* Every call, the monitor, a failure or restart; an address that is removed may come back.
CONSTANTS
    w1 = w1
    w2 = w2
    mon = mon
    Workers <- OneWorker
    Monitor = mon
    CallsOf <- AllCalls
    Addrs = {a1}
    Gens = {g1, g2}
    SvcRefs = {s1, s2}
    Configs = {c1, c2}
    NoSvc = NoSvc
    NoSpec = NoSpec
    NoInst = NoInst
    NoThread = NoThread
    NotAvail = NotAvail
    monIntvl = 1
    MaxCalls = 4
    MaxFaults = 1
SPECIFICATION FairSpec
INVARIANTS TypeOK ReadyImpliesConfigured
PROPERTIES ImplementsInstances Converges UnusedAreDiscarded
CHECK_DEADLOCK FALSE
