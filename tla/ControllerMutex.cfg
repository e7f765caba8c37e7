\* Two workers and the monitor contend for the mutex of one instance.
CONSTANTS
    w1 = w1
    w2 = w2
    mon = mon
    Workers <- TwoWorkers
    Monitor = mon
    CallsOf <- ServiceStays
    Addrs = {a1}
    Gens = {g1}
    SvcRefs = {s1}
    Configs = {c1, c2}
    NoSvc = NoSvc
    NoSpec = NoSpec
    NoInst = NoInst
    NoThread = NoThread
    NotAvail = NotAvail
    monIntvl = 1
    MaxCalls = 3
    MaxFaults = 1
SPECIFICATION FairSpec
INVARIANT ListStaysValid
PROPERTY CallsReturn
CHECK_DEADLOCK FALSE
