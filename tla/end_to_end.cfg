\* One listing of two containers through the native methods, while another
\* thread starts them.
CONSTANTS
    Thread = {l1, t1}
    Lister = {l1}
    Container = {c1, c2}
    Key = {k}
    Value = {v}
    Unset = Unset
    Iface = {e1}
    MaxSnaps = 0
    None = None
    MCOps = {"startContainer"}
    Single <- MCSingle
    Workload <- MCWorkload
SPECIFICATION FairAllSpec
INVARIANT ListsAreTrue
PROPERTIES ImplementsManager EveryListingEnds
