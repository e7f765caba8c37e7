\* A Varnish Service is deleted and nothing fails.
CONSTANTS
    w1 = w1
    w2 = w2
    mon = mon
    Workers <- OneWorker
    Monitor = mon
    CallsOf <- ServiceLife
    Addrs = {a1}
    Gens = {g1}
    SvcRefs = {s1}
    Configs = {c1}
    NoSvc = NoSvc
    NoSpec = NoSpec
    NoInst = NoInst
    NoThread = NoThread
    NotAvail = NotAvail
    monIntvl = 1
    MaxCalls = 3
    MaxFaults = 0
SPECIFICATION FairSpec
PROPERTY DeletedStaysNotReady
CHECK_DEADLOCK FALSE
