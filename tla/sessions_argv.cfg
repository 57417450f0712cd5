\* One attach with two different arguments.
CONSTANTS
    Flag = {MOVE, SETGROUPS}
    SETGROUPS = SETGROUPS
    Gid = {}
    Code = {0}
    Signal = {9}
    Thread = {t1}
    MaxWaiting = 1
    Word = {w1, w2}
    Addr = {a1}
    Pid = {p1}
    Tty = {y1}
    None = None
    MCArgvs <- MCTwoWords
    Workload <- MCWorkload
SPECIFICATION Spec
INVARIANT CommandIsAsked
