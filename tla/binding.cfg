\* One thread, two containers that other tools may change, every function.
CONSTANTS
    Flag = {SETGROUPS}
    SETGROUPS = SETGROUPS
    Gid = {g}
    Code = {9}
    Signal = {9}
    Container = {c1, c2}
    Key = {k}
    Value <- MCValue
    Unset = Unset
    Iface = {}
    MaxSnaps = 1
    None = None
    Caller = {t1}
    Build <- MCBuild
    Item <- MCItem
    Template <- MCTemplate
SPECIFICATION FairSpec
INVARIANTS BindingTypeOK RefsAreHandles ReadsAreWhole GatesCompareVersions NoStandInPassed
PROPERTIES ShellReaped AnswerIsExitCode CallsReturn
