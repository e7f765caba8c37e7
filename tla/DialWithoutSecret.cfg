\* The admin secret is deleted while an update waits for the mutex.
CONSTANTS
    w1 = w1
    w2 = w2
    mon = mon
    Workers <- TwoWorkers
    Monitor = mon
    CallsOf <- SecretLife
    Addrs = {a1}
    Gens = {g1}
    SvcRefs = {s1}
    Configs = {c1}
    NoSvc = NoSvc
    NoSpec = NoSpec
    NoInst = NoInst
    NoThread = NoThread
    NotAvail = NotAvail
    monIntvl = 0
    MaxCalls = 4
    MaxFaults = 0
SPECIFICATION Spec
INVARIANT DialHasSecret
CHECK_DEADLOCK FALSE
