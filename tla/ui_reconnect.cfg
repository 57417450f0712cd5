\* Waiting for the connection after it was lost.
CONSTANTS
    Container = {a}
    Key = {}
    Value = {}
    Unset = Unset
    Iface = {}
    MaxSnaps = 0
    None = None
    Worker = {w1}
    Clicks = {"startContainer"}
    DeviceActs = FALSE
CHECK_DEADLOCK FALSE
SPECIFICATION FairSpec
PROPERTY WaitingHelps
