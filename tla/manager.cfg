\* One listing of two containers while another thread makes any single call.
CONSTANTS
    Thread = {l1, t1}
    Lister = {l1}
    Container = {c1, c2}
    Key = {k}
    Value = {v}
    Unset = Unset
    Iface = {e1}
    MaxSnaps = 0
    None = None
    MCOps = {"listContainers", "isDefined", "isRunning", "getState", "startContainer", "stopContainer", "freezeContainer", "unfreezeContainer", "destroyContainer", "getConfigItem", "setConfigItem", "createSnapshot", "getInterfaces", "getErrorNum"}
    Workload <- MCWorkload
SPECIFICATION ManagerSpec
INVARIANTS ManagerTypeOK RunningWereRunning RunningComplete StoppedWereStopped
SYMMETRY Symmetry
PROPERTY NearerToEnd
