\* The information shown when another container is selected meanwhile.
CONSTANTS
    Container = {a, b}
    Key = {}
    Value = {}
    Unset = Unset
    Iface = {}
    MaxSnaps = 0
    None = None
    Worker = {w1, w2}
    Clicks = {"startContainer"}
    DeviceActs = FALSE
CHECK_DEADLOCK FALSE
SPECIFICATION Spec
INVARIANT InfoOfOneContainer
