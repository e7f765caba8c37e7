CONSTANTS
    Secrets = {"s1", "a"}
    Labelled = {"s1", "a"}
    VarnishSvcs = {vs}
    vs = vs
    ws = ws
    Configured = {vs}
    AuthSecrets = {"a"}
    Contents <- SameLength
    NoKey = NoKey
    Absent = Absent
    PodSpecs <- OnlyFirst
    NoPods = NoPods
    Gens = {1, 2}
    Nil = Nil
    Changes = {"update", "create", "delete", "pods"}
    MaxChanges = 2
    MaxFaults = 1
SPECIFICATION Spec
INVARIANTS TypeOK SettledSecrets
PROPERTY SecretsFollow
CHECK_DEADLOCK FALSE
