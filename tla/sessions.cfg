\* More clients than threads; one process and one terminal may be left behind.
CONSTANTS
    Flag = {MOVE, SETGROUPS}
    SETGROUPS = SETGROUPS
    Gid = {}
    Code = {9, 255}
    Signal = {9}
    Thread = {t1, t2}
    MaxWaiting = 1
    Word = {w}
    Addr = {a1, a2}
    Pid = {p1, p2}
    Tty = {y1}
    None = None
    MCArgvs <- MCNoneOrOne
    Workload <- MCWorkload
SPECIFICATION FairSpec
INVARIANTS SessionTypeOK HeldIsOwed ProcessesAccounted
PROPERTIES AnswerTellsFate FullQueueIsServed
