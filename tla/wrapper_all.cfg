\* Two Binder threads, one container, every operation.
CONSTANTS
    Thread = {t1, t2}
    Container = {c1}
    Key = {k}
    Value = {v}
    Unset = Unset
    Iface = {e1, e2}
    MaxSnaps = 1
    None = None
    MCOps = {"listContainers", "isDefined", "isRunning", "getState", "startContainer", "stopContainer", "freezeContainer", "unfreezeContainer", "destroyContainer", "getConfigItem", "setConfigItem", "createSnapshot", "getInterfaces", "getErrorNum"}
    Workload <- MCWorkload
SYMMETRY Symmetry
SPECIFICATION Spec
INVARIANTS TypeOK Accounted NoUseAfterFree
PROPERTIES ImplementsService NearerToReply
