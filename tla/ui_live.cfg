\* Fairness: operations on one container that may also stop by itself.
CONSTANTS
    Container = {a}
    Key = {}
    Value = {}
    Unset = Unset
    Iface = {}
    MaxSnaps = 0
    None = None
    Worker = {w1, w2}
    Clicks = {"startContainer", "destroyContainer"}
    DeviceActs = TRUE
CHECK_DEADLOCK FALSE
SPECIFICATION FairSpec
PROPERTY ClickAnswered
