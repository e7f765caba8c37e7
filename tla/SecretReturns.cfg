CONSTANTS
    Secrets = {"s1"}
    Labelled = {"s1"}
    VarnishSvcs = {vs}
    vs = vs
    ws = ws
    Configured = {vs}
    AuthSecrets = {}
    Contents <- SameLength
    NoKey = NoKey
    Absent = Absent
    PodSpecs <- OnlyFirst
    NoPods = NoPods
    Gens = {1, 2}
    Nil = Nil
    Changes = {"create", "recreate", "delete", "pods"}
    MaxChanges = 2
    MaxFaults = 0
SPECIFICATION Spec
PROPERTY SecretsFollow
CHECK_DEADLOCK FALSE
