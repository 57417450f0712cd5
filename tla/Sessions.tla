------------------------------ MODULE Sessions ------------------------------
(***************************************************************************)
(* The native methods that start processes and sessions: nativeAttachRun-  *)
(* Wait, nativeAttachNoWait, nativeConsole and nativeGetConsoleFd.  They   *)
(* copy their argument strings one by one, may run for as long as a user   *)
(* keeps a session open, and leave processes and terminals behind.  They   *)
(* share a finite pool of Binder threads with the short calls, of which    *)
(* nativeIsRunning stands for all.                                         *)
(***************************************************************************)
EXTENDS LxcAttach, Sequences, FiniteSets

CONSTANTS
    Thread,      \* the Binder threads of the root process
    MaxWaiting,  \* bound: calls waiting for a thread
    Word,        \* argument strings
    Addr,        \* bound: memory the copies of argument strings may lie in
    Pid,         \* bound: processes the root process may have
    Tty,         \* the terminals of the container
    Workload,    \* the calls clients make
    None

AttachOp == {"attachRunWait", "attachNoWait"}

Call == [op : AttachOp \cup {"console", "getConsoleFd", "isRunning"},
         argv : Seq(Word), clear : BOOLEAN, flags : SUBSET Flag]

\* An attached process: what its caller asked for, what liblxc started it
\* with, the thread that waits for it and the way it has ended.
Attached == [op : AttachOp, asked : Seq(Word), argv : Seq(Word), opts : AttachOptions,
             thread : Thread \cup {None}, fate : Fate \cup {None}]

\* A process can end, and a thread pins at most one argument string at a time.
ASSUME SessionAssumption ==
    /\ Workload \subseteq Call
    /\ None \notin Workload \cup Word \cup Fate \cup Thread \cup Attached
    /\ "kept" \notin Thread
    /\ Fate # {}
    /\ MaxWaiting \in Nat \ {0}
    /\ IsFiniteSet(Thread) /\ IsFiniteSet(Addr)
    /\ Cardinality(Addr) >= Cardinality(Thread)

VARIABLES
    bound,       \* the native methods are registered and the interface is offered
    queue,       \* calls the Binder driver holds for a thread
    call,        \* the call each thread serves
    pc,          \* the next step of the thread
    held,        \* strings pinned, handles and blocks a thread owns
    argv,        \* the pointers a thread has stored
    mem,         \* the string that lies at an address, or what is left of one
    live,        \* addresses of copies not yet released
    proc,        \* attached processes
    tty,         \* terminals taken, by a session or for good
    ret          \* the result the method has built

memory == <<argv, mem, live>>
vars == <<bound, queue, call, pc, held, memory, proc, tty, ret>>

Nothing == [pins |-> 0, handles |-> 0, blocks |-> 0]

Init ==
    /\ bound = FALSE
    /\ queue = <<>>
    /\ call = [t \in Thread |-> None]
    /\ pc = [t \in Thread |-> "idle"]
    /\ held = [t \in Thread |-> Nothing]
    /\ argv = [t \in Thread |-> <<>>]
    /\ mem \in [Addr -> Word]
    /\ live = {}
    /\ proc = [p \in Pid |-> None]
    /\ tty = [y \in Tty |-> None]
    /\ ret = [t \in Thread |-> None]

Default(op) == IF op \in {"console", "isRunning"} THEN 0 ELSE -1

-----------------------------------------------------------------------------
(* Loading the library, and the pool of threads *)

\* The process starts and loads the library: GetEnv, FindClass and
\* RegisterNatives may each fail, and the library then does not load.
JNI_OnLoad ==
    /\ ~bound
    /\ bound' \in BOOLEAN
    /\ UNCHANGED <<queue, call, pc, held, memory, proc, tty, ret>>

\* A client makes a call, and waits.
Send ==
    /\ bound /\ Len(queue) < MaxWaiting
    /\ \E q \in Workload : queue' = Append(queue, q)
    /\ UNCHANGED <<bound, call, pc, held, memory, proc, tty, ret>>

\* An idle thread takes the next call and pins the two names it takes.
Receive(t) ==
    /\ pc[t] = "idle" /\ queue # <<>>
    /\ call' = [call EXCEPT ![t] = Head(queue)]
    /\ queue' = Tail(queue)
    /\ held' = [held EXCEPT ![t].pins = @ + 2]
    /\ pc' = [pc EXCEPT ![t] = "pinned"]
    /\ UNCHANGED <<bound, memory, proc, tty, ret>>

\* lxc_container_new; an attach then allocates its array of pointers, unless
\* it has no arguments.
ContainerNew(t) ==
    /\ pc[t] = "pinned"
    /\ held' = [held EXCEPT ![t].handles = @ + 1,
                            ![t].blocks = @ + IF call[t].argv = <<>> THEN 0 ELSE 1]
    /\ pc' = [pc EXCEPT ![t] = IF call[t].op \in AttachOp THEN "args" ELSE "open"]
    /\ UNCHANGED <<bound, queue, call, memory, proc, tty, ret>>

\* The method concludes with the value v; it does not read its pointers again.
Conclude(t, v, next) ==
    /\ ret' = [ret EXCEPT ![t] = v]
    /\ pc' = [pc EXCEPT ![t] = next]
    /\ argv' = [argv EXCEPT ![t] = <<>>]
    /\ UNCHANGED <<bound, queue, call, mem, live>>

ContainerNewFails(t) ==
    /\ pc[t] = "pinned"
    /\ Conclude(t, Default(call[t].op), "unpin")
    /\ UNCHANGED <<held, proc, tty>>

-----------------------------------------------------------------------------
(* Attach *)

\* One round of the argument loop: the string is copied to a free address,
\* which is stored ...
CopyArg(t) ==
    /\ pc[t] = "args" /\ Len(argv[t]) < Len(call[t].argv)
    /\ \E a \in Addr \ live :
          /\ argv' = [argv EXCEPT ![t] = Append(@, a)]
          /\ mem' = [mem EXCEPT ![a] = call[t].argv[Len(argv[t]) + 1]]
          /\ live' = live \cup {a}
    /\ held' = [held EXCEPT ![t].pins = @ + 1]
    /\ pc' = [pc EXCEPT ![t] = "copied"]
    /\ UNCHANGED <<bound, queue, call, proc, tty, ret>>

\* A slip: the loop does not go on to the next argument.
ReleaseArgStuck(t) ==
    /\ pc[t] = "copied"
    /\ live' = live \ {argv[t][Len(argv[t])]}
    /\ argv' = [argv EXCEPT ![t] = SubSeq(@, 1, Len(@) - 1)]
    /\ held' = [held EXCEPT ![t].pins = @ - 1]
    /\ pc' = [pc EXCEPT ![t] = "args"]
    /\ UNCHANGED <<bound, queue, call, mem, proc, tty, ret>>

\* ... and released, although the pointer is used later.
ReleaseArg(t) ==
    /\ pc[t] = "copied"
    /\ live' = live \ {argv[t][Len(argv[t])]}
    /\ held' = [held EXCEPT ![t].pins = @ - 1]
    /\ pc' = [pc EXCEPT ![t] = "args"]
    /\ UNCHANGED <<bound, queue, call, argv, mem, proc, tty, ret>>

\* The array of pointers is complete.
ArgsReady(t, op) ==
    /\ pc[t] = "args" /\ call[t].op = op
    /\ Len(argv[t]) = Len(call[t].argv)

\* liblxc starts the process with what lies where the pointers point now.
Process(t, thread) ==
    [op |-> call[t].op, asked |-> call[t].argv,
     argv |-> [i \in DOMAIN argv[t] |-> mem[argv[t][i]]],
     opts |-> Options(call[t].clear, call[t].flags, {}),
     thread |-> thread, fate |-> None]

Running(t, thread) ==
    \E p \in Pid :
        /\ proc[p] = None
        /\ proc' = [proc EXCEPT ![p] = Process(t, thread)]

\* A slip: the method does not wait.
AttachRunNoWait(t) ==
    /\ ArgsReady(t, "attachRunWait") /\ argv[t] # <<>>
    /\ Running(t, t) /\ Conclude(t, 0, "put")
    /\ UNCHANGED <<held, tty>>

\* jni_lxc_attach_run_wait: starts the process and waits for it.
nativeAttachRunWait(t) ==
    /\ ArgsReady(t, "attachRunWait") /\ argv[t] # <<>>
    /\ \/ Running(t, t) /\ Conclude(t, ret[t], "wait")
       \/ Conclude(t, -1, "put") /\ UNCHANGED proc
    /\ UNCHANGED <<held, tty>>

\* The process has ended and is reaped.
Reap(t) ==
    /\ pc[t] = "wait"
    /\ \E p \in Pid :
          /\ proc[p] # None /\ proc[p].thread = t /\ proc[p].fate # None
          /\ Conclude(t, RunWaitAnswer(WaitStatus(proc[p].fate)), "put")
          /\ proc' = [proc EXCEPT ![p] = None]
    /\ UNCHANGED <<held, tty>>

\* jni_lxc_attach_no_wait: the process identifier is dropped.
nativeAttachNoWait(t) ==
    /\ ArgsReady(t, "attachNoWait") /\ argv[t] # <<>>
    /\ \/ Running(t, None) /\ Conclude(t, 0, "put")
       \/ Conclude(t, -1, "put") /\ UNCHANGED proc
    /\ UNCHANGED <<held, tty>>

-----------------------------------------------------------------------------
(* Terminals and short calls *)

\* A slip: the method leaves the session to itself.
ConsoleNoWait(t) ==
    /\ pc[t] = "open" /\ call[t].op = "console"
    /\ \E y \in Tty : tty[y] = None /\ tty' = [tty EXCEPT ![y] = t]
    /\ Conclude(t, 1, "put")
    /\ UNCHANGED <<held, proc>>

\* console takes a terminal and runs the session.
nativeConsole(t) ==
    /\ pc[t] = "open" /\ call[t].op = "console"
    /\ \/ /\ \E y \in Tty : tty[y] = None /\ tty' = [tty EXCEPT ![y] = t]
          /\ Conclude(t, ret[t], "session")
       \/ Conclude(t, 0, "put") /\ UNCHANGED tty
    /\ UNCHANGED <<held, proc>>

\* The user leaves the session, or the container ends it; or the loop of the
\* session fails, and so does the method.
ConsoleEnds(t) ==
    /\ pc[t] = "session"
    /\ tty' = [y \in Tty |-> IF tty[y] = t THEN None ELSE tty[y]]
    /\ \E v \in {0, 1} : Conclude(t, v, "put")
    /\ UNCHANGED <<held, proc>>

\* The descriptor that keeps the terminal is dropped and stays open.
jni_lxc_console_getfd == \E y \in Tty : tty[y] = None /\ tty' = [tty EXCEPT ![y] = "kept"]

\* The number returned stands for the terminal's own descriptor.
nativeGetConsoleFd(t) ==
    /\ pc[t] = "open" /\ call[t].op = "getConsoleFd"
    /\ \/ jni_lxc_console_getfd /\ Conclude(t, 3, "put")
       \/ Conclude(t, -1, "put") /\ UNCHANGED tty
    /\ UNCHANGED <<held, proc>>

\* The other calls are those of JniWrapper; here only their length matters.
nativeIsRunning(t) ==
    /\ pc[t] = "open" /\ call[t].op = "isRunning"
    /\ Conclude(t, 1, "put")
    /\ UNCHANGED <<held, proc, tty>>

-----------------------------------------------------------------------------
(* Leaving a method *)

\* A slip: the array of pointers is not freed.
ReturnUnfreed(t) ==
    /\ pc[t] \in {"put", "unpin"}
    /\ held' = [held EXCEPT ![t].pins = @ - 2,
                            ![t].handles = IF pc[t] = "put" THEN @ - 1 ELSE @]
    /\ call' = [call EXCEPT ![t] = None]
    /\ ret' = [ret EXCEPT ![t] = None]
    /\ pc' = [pc EXCEPT ![t] = "idle"]
    /\ UNCHANGED <<bound, queue, memory, proc, tty>>

\* The array of pointers is freed, if there is one, the handle put, if there
\* is one, and the names released; the client gets its answer.
Return(t) ==
    /\ pc[t] \in {"put", "unpin"}
    /\ held' = [held EXCEPT ![t].pins = @ - 2,
                            ![t].handles = IF pc[t] = "put" THEN @ - 1 ELSE @,
                            ![t].blocks = IF pc[t] = "unpin" \/ call[t].argv = <<>> THEN @ ELSE @ - 1]
    /\ call' = [call EXCEPT ![t] = None]
    /\ ret' = [ret EXCEPT ![t] = None]
    /\ pc' = [pc EXCEPT ![t] = "idle"]
    /\ UNCHANGED <<bound, queue, memory, proc, tty>>

-----------------------------------------------------------------------------
(* The environment *)

\* An attached process exits or is killed; of one that nobody waits for,
\* nobody sees which.
ProcessEnds(p) ==
    /\ proc[p] # None /\ proc[p].fate = None
    /\ \E f \in IF proc[p].thread = None THEN {CHOOSE g \in Fate : TRUE} ELSE Fate :
          proc' = [proc EXCEPT ![p].fate = f]
    /\ UNCHANGED <<bound, queue, call, pc, held, memory, tty, ret>>

\* The root process dies.  Its clients see RemoteException, its terminals are
\* closed, and its children go to init, which reaps them.
Dies ==
    /\ bound' = FALSE
    /\ queue' = <<>>
    /\ call' = [t \in Thread |-> None]
    /\ pc' = [t \in Thread |-> "idle"]
    /\ held' = [t \in Thread |-> Nothing]
    /\ argv' = [t \in Thread |-> <<>>]
    /\ live' = {}
    /\ proc' = [p \in Pid |-> None]
    /\ tty' = [y \in Tty |-> None]
    /\ ret' = [t \in Thread |-> None]
    /\ UNCHANGED mem

Die == bound /\ Dies

\* Without arguments argv is NULL, and the binding reads argv[0]: the process
\* dies, with the calls of its other threads.
Fault(t) ==
    /\ \E op \in AttachOp : ArgsReady(t, op)
    /\ argv[t] = <<>>
    /\ Dies

-----------------------------------------------------------------------------
\* The steps of a method that depend on nothing else.
Proceed(t) ==
    \/ ContainerNew(t) \/ ContainerNewFails(t)
    \/ CopyArg(t) \/ ReleaseArg(t) \/ Fault(t)
    \/ nativeAttachRunWait(t) \/ nativeAttachNoWait(t)
    \/ nativeConsole(t) \/ nativeGetConsoleFd(t) \/ nativeIsRunning(t)
    \/ Return(t)

Next ==
    \/ JNI_OnLoad \/ Send
    \/ \E t \in Thread : Receive(t) \/ Proceed(t) \/ Reap(t) \/ ConsoleEnds(t)
    \/ \E p \in Pid : ProcessEnds(p)
    \/ Die

Spec == Init /\ [][Next]_vars

\* The kernel runs a thread that can run, and the Binder driver hands out
\* waiting calls in their order.  That sessions and attached processes end is an
\* assumption about users and containers.
FairSpec ==
    /\ Spec
    /\ \A t \in Thread :
          WF_vars(Receive(t) \/ Proceed(t) \/ Reap(t) \/ ConsoleEnds(t))
    /\ \A p \in Pid : WF_vars(ProcessEnds(p))

-----------------------------------------------------------------------------
(* Properties *)

Open == {"args", "copied", "open", "wait", "session", "put"}

\* The state has its types, and a terminal is in use while its session lasts.
SessionTypeOK ==
    /\ bound \in BOOLEAN
    /\ queue \in Seq(Workload) /\ Len(queue) <= MaxWaiting
    /\ call \in [Thread -> Workload \cup {None}]
    /\ pc \in [Thread -> Open \cup {"idle", "pinned", "unpin"}]
    /\ held \in [Thread -> [pins : Int, handles : Int, blocks : Int]]
    /\ argv \in [Thread -> Seq(Addr)]
    /\ mem \in [Addr -> Word] /\ live \subseteq Addr
    /\ proc \in [Pid -> Attached \cup {None}]
    /\ tty \in [Tty -> Thread \cup {"kept", None}]
    /\ ret \in [Thread -> Int \cup {None}]
    /\ \A t \in Thread :
          /\ pc[t] = "idle" <=> call[t] = None
          /\ pc[t] = "session" <=> \E y \in Tty : tty[y] = t

\* At each step of each path a thread owns exactly the strings, the handle and
\* the array of pointers it has still to give back, so a method that has
\* returned, waited or been refused leaks nothing; and the copies of argument
\* strings in memory are those being copied at the moment.
HeldIsOwed ==
    /\ \A t \in Thread :
          held[t] =
            [pins |-> CASE pc[t] = "idle" -> 0 [] pc[t] = "copied" -> 3 [] OTHER -> 2,
             handles |-> IF pc[t] \in Open THEN 1 ELSE 0,
             blocks |-> IF pc[t] \in Open /\ call[t].argv # <<>> THEN 1 ELSE 0]
    /\ Cardinality(live) = Cardinality({t \in Thread : pc[t] = "copied"})

\* Whose process is whose: a waiting thread has exactly one, which runs with
\* the environment and the flags its caller asked for; every other process,
\* the zombies among them, is one that attachNoWait left behind.
ProcessesAccounted ==
    /\ \A p \in Pid : proc[p] # None =>
          IF proc[p].op = "attachNoWait" THEN proc[p].thread = None
          ELSE /\ pc[proc[p].thread] = "wait"
               /\ proc[p].opts.attach_flags = call[proc[p].thread].flags
               /\ proc[p].opts.env_policy = "LXC_ATTACH_CLEAR_ENV" <=> call[proc[p].thread].clear
    /\ \A t \in Thread : pc[t] = "wait" =>
          \E p \in Pid : \A q \in Pid :
              proc[q] # None /\ proc[q].thread = t <=> q = p

\* attachRunWait answers with the wait status of the very process it started,
\* which has ended and is reaped by then; from any answer but -1 the caller
\* can tell how it ended.
AnswerTellsFate ==
    [][\A t \in Thread : pc[t] = "wait" /\ pc'[t] = "put" =>
         \E p \in Pid :
            /\ proc[p] # None /\ proc'[p] = None
            /\ proc[p].thread = t /\ proc[p].fate # None
            /\ ret'[t] # -1 =>
                  \A f \in Fate : WaitStatus(f) = ret'[t] <=> f = proc[p].fate]_vars

\* A full queue is served, whatever sessions and waiting attaches hold the
\* threads, provided those end: the pool does not stay exhausted, and no method
\* keeps its thread for ever.
FullQueueIsServed == Len(queue) = MaxWaiting ~> Len(queue) < MaxWaiting

\* "Attach to container and run command": the command run is the one asked for.
CommandIsAsked == \A p \in Pid : proc[p] # None => proc[p].argv = proc[p].asked
=============================================================================
