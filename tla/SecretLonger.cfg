CONSTANTS
    Secrets = {"s1"}
    Labelled = {"s1"}
    VarnishSvcs = {vs}
    vs = vs
    ws = ws
    Configured = {vs}
    AuthSecrets = {}
    Contents <- OtherLengths
    NoKey = NoKey
    Absent = Absent
    PodSpecs <- OnlyFirst
    NoPods = NoPods
    Gens = {1, 2, 3}
    Nil = Nil
    Changes = {"update", "create", "delete", "pods"}
    MaxChanges = 1
    MaxFaults = 0
SPECIFICATION Spec
INVARIANT SettledSecrets
CHECK_DEADLOCK FALSE
