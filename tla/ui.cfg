\* Two threads at work on two containers, every operation.
CONSTANTS
    Container = {a, b}
    Key = {}
    Value = {}
    Unset = Unset
    Iface = {}
    MaxSnaps = 0
    None = None
    Worker = {w1, w2}
    Clicks = {"startContainer", "stopContainer", "freezeContainer", "unfreezeContainer", "destroyContainer", "createSnapshot"}
    DeviceActs = FALSE
CHECK_DEADLOCK FALSE
SYMMETRY Symmetry
SPECIFICATION Spec
INVARIANTS TypeOK CrashOnlyAfterDestroy SettledDisplayIsCurrent
