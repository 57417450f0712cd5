\* One client sets a key, is told it worked, and reads it back.
CONSTANTS
    Thread = {t1}
    Container = {c1}
    Key = {k}
    Value = {v1, v2}
    Unset = Unset
    Iface = {e1}
    MaxSnaps = 1
    None = None
    MCOps = {"setConfigItem", "getConfigItem"}
    Workload <- MCWorkload
SPECIFICATION HistorySpec
INVARIANT ReadYourWrites
