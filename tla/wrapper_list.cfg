\* Two Binder threads, two containers, the methods with loops: the list races
\* the calls that change it, under fairness.
CONSTANTS
    Thread = {t1, t2}
    Container = {c1, c2}
    Key = {k}
    Value = {v}
    Unset = Unset
    Iface = {e1}
    MaxSnaps = 0
    None = None
    MCOps = {"listContainers", "destroyContainer", "getConfigItem"}
    Workload <- MCWorkload
SPECIFICATION FairSpec
INVARIANT Accounted
PROPERTIES ImplementsService CallReturns
