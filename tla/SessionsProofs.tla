--------------------------- MODULE SessionsProofs ---------------------------
(***************************************************************************)
(* Proofs about Sessions for any threads, calls, arguments, processes and  *)
(* terminals: what a thread holds it gives back, whose process is whose,   *)
(* and what a waiting attach answers.                                       *)
(***************************************************************************)
EXTENDS Sessions, FiniteSetTheorems, SequenceTheorems, TLAPS

-----------------------------------------------------------------------------
(* Inductive invariant *)

Account == [pins : Int, handles : Int, blocks : Int]

Types ==
    /\ bound \in BOOLEAN
    /\ queue \in Seq(Workload) /\ Len(queue) <= MaxWaiting
    /\ call \in [Thread -> Workload \cup {None}]
    /\ pc \in [Thread -> Open \cup {"idle", "pinned", "unpin"}]
    /\ held \in [Thread -> Account]
    /\ argv \in [Thread -> Seq(Addr)]
    /\ mem \in [Addr -> Word] /\ live \in SUBSET Addr
    /\ proc \in [Pid -> Attached \cup {None}]
    /\ tty \in [Tty -> Thread \cup {"kept", None}]
    /\ ret \in [Thread -> Int \cup {None}]

\* What a thread has still to give back at the step p of call q.
Owed(p, q) ==
    [pins |-> CASE p = "idle" -> 0 [] p = "copied" -> 3 [] OTHER -> 2,
     handles |-> IF p \in Open THEN 1 ELSE 0,
     blocks |-> IF p \in Open /\ q.argv # <<>> THEN 1 ELSE 0]

\* A thread that serves a call holds what the call still needs.
ThreadOK(t) ==
    /\ pc[t] = "idle" <=> call[t] = None
    /\ held[t] = Owed(pc[t], call[t])

\* The address last stored.
Last(t) == argv[t][Len(argv[t])]

Copying == {t \in Thread : pc[t] = "copied"}

\* The copies in memory are those being made, each at an address of its own.
Copies ==
    /\ \A t \in Copying : argv[t] # <<>> /\ Last(t) \in live
    /\ \A t \in Copying : \A u \in Copying \ {t} : Last(t) # Last(u)
    /\ Cardinality(live) = Cardinality(Copying)

\* The process p runs for nobody, or for the thread that waits for it.
ProcessOK(p) ==
    proc[p] # None =>
        IF proc[p].op = "attachNoWait" THEN proc[p].thread = None
        ELSE /\ proc[p].thread \in Thread
             /\ pc[proc[p].thread] = "wait"
             /\ proc[p].opts.attach_flags = call[proc[p].thread].flags
             /\ proc[p].opts.env_policy = "LXC_ATTACH_CLEAR_ENV" <=> call[proc[p].thread].clear

\* A waiting thread has one process.
WaitOK(t) ==
    pc[t] = "wait" =>
        \E p \in Pid : \A q \in Pid : proc[q] # None /\ proc[q].thread = t <=> q = p

Processes ==
    /\ \A p \in Pid : ProcessOK(p)
    /\ \A t \in Thread : WaitOK(t)

\* A terminal is in use while its session lasts.
Terminals == \A t \in Thread : pc[t] = "session" <=> \E y \in Tty : tty[y] = t

\* What every reachable state satisfies, strong enough to be inductive.
IInv ==
    /\ Types
    /\ \A t \in Thread : ThreadOK(t)
    /\ Copies
    /\ Processes
    /\ Terminals

-----------------------------------------------------------------------------
(* Accounts *)

\* An account is what it says of strings, handles and blocks.
LEMMA SameAccount ==
    ASSUME NEW r \in Account, NEW s \in Account,
           r.pins = s.pins, r.handles = s.handles, r.blocks = s.blocks
    PROVE  r = s
  BY DEF Account

\* An account of which every part is changed.
LEMMA NewAccount ==
    ASSUME NEW r \in Account, NEW a \in Int, NEW b \in Int, NEW c \in Int
    PROVE  [r EXCEPT !.pins = a, !.handles = b, !.blocks = c]
              = [pins |-> a, handles |-> b, blocks |-> c]
  <1> DEFINE s == [r EXCEPT !.pins = a, !.handles = b, !.blocks = c]
  <1>1. s \in Account /\ s.pins = a /\ s.handles = b /\ s.blocks = c
    BY DEF Account
  <1>2. [pins |-> a, handles |-> b, blocks |-> c] \in Account
    BY DEF Account
  <1> HIDE DEF s
  <1>3. s = [pins |-> a, handles |-> b, blocks |-> c]
    BY <1>1, <1>2, SameAccount
  <1> QED
    BY <1>3 DEF s

\* An account to which a handle and blocks are added.
LEMMA GrownAccount ==
    ASSUME NEW r \in Account, NEW b \in Int, NEW c \in Int
    PROVE  [r EXCEPT !.handles = b, !.blocks = c]
              = [pins |-> r.pins, handles |-> b, blocks |-> c]
  <1> DEFINE s == [r EXCEPT !.handles = b, !.blocks = c]
  <1>1. s \in Account /\ s.pins = r.pins /\ s.handles = b /\ s.blocks = c
    BY DEF Account
  <1>2. [pins |-> r.pins, handles |-> b, blocks |-> c] \in Account
    BY DEF Account
  <1> HIDE DEF s
  <1>3. s = [pins |-> r.pins, handles |-> b, blocks |-> c]
    BY <1>1, <1>2, SameAccount
  <1> QED
    BY <1>3 DEF s

-----------------------------------------------------------------------------
(* Steps of one thread *)

\* Only thread t moves.
Moves(t) ==
    /\ call' = [call EXCEPT ![t] = call'[t]]
    /\ pc' = [pc EXCEPT ![t] = pc'[t]]
    /\ held' = [held EXCEPT ![t] = held'[t]]
    /\ argv' = [argv EXCEPT ![t] = argv'[t]]

\* A step of one thread keeps the invariant if it keeps the types, that
\* thread's account, and what the threads share.
LEMMA LocalStep ==
    ASSUME IInv, NEW t \in Thread, Moves(t), Types', ThreadOK(t)',
           Copies', Processes', Terminals'
    PROVE  IInv'
  <1>1. ASSUME NEW u \in Thread, u # t PROVE ThreadOK(u)'
    BY <1>1 DEF IInv, Types, Moves, ThreadOK, Owed
  <1> QED
    BY <1>1 DEF IInv

\* The copies are not disturbed by a step of a thread that makes none.
LEMMA CopiesKept ==
    ASSUME IInv, NEW t \in Thread, Moves(t), pc[t] # "copied", pc'[t] # "copied",
           live' = live
    PROVE  Copies'
  <1>1. \A u \in Thread : u # t => pc'[u] = pc[u] /\ argv'[u] = argv[u]
    BY DEF IInv, Types, Moves
  <1>2. Copying' = Copying
    BY <1>1 DEF Copying
  <1>3. \A u \in Copying : argv'[u] = argv[u]
    BY <1>1 DEF Copying
  <1> QED
    BY <1>2, <1>3 DEF IInv, Copies, Last

\* The processes are not disturbed by a step of a thread that waits for none.
LEMMA ProcessesKept ==
    ASSUME IInv, NEW t \in Thread, Moves(t), pc[t] # "wait", pc'[t] # "wait",
           proc' = proc
    PROVE  Processes'
  <1>1. \A u \in Thread : u # t => pc'[u] = pc[u] /\ call'[u] = call[u]
    BY DEF IInv, Types, Moves
  <1>2. ASSUME NEW p \in Pid PROVE ProcessOK(p)'
    BY <1>1 DEF IInv, Processes, ProcessOK
  <1>3. ASSUME NEW u \in Thread PROVE WaitOK(u)'
    BY <1>1 DEF IInv, Processes, WaitOK
  <1> QED
    BY <1>2, <1>3 DEF Processes

\* Nor the terminals by a thread that has no session.
LEMMA TerminalsKept ==
    ASSUME IInv, NEW t \in Thread, Moves(t), pc[t] # "session", pc'[t] # "session",
           tty' = tty
    PROVE  Terminals'
  <1>1. \A u \in Thread : u # t => pc'[u] = pc[u]
    BY DEF IInv, Types, Moves
  <1>2. ~\E y \in Tty : tty'[y] = t
    BY DEF IInv, Terminals
  <1> QED
    BY <1>1, <1>2 DEF IInv, Terminals

\* The steps that only concern the thread itself.
Alone == {"idle", "pinned", "args", "open", "put", "unpin"}

\* A step from one of them to another.
LEMMA AloneStep ==
    ASSUME IInv, NEW t \in Thread, Moves(t), Types', ThreadOK(t)',
           pc[t] \in Alone, pc'[t] \in Alone, UNCHANGED <<live, proc, tty>>
    PROVE  IInv'
  BY LocalStep, CopiesKept, ProcessesKept, TerminalsKept DEF Alone

\* No call has arrived before the process starts.
LEMMA InitInv == Init => IInv
  <1> SUFFICES ASSUME Init PROVE IInv
    OBVIOUS
  <1>1. Types
    <2>1. queue \in Seq(Workload) /\ Len(queue) <= MaxWaiting
      BY SessionAssumption, EmptySeq DEF Init
    <2>2. held \in [Thread -> Account]
      BY DEF Init, Nothing, Account
    <2>3. argv \in [Thread -> Seq(Addr)]
      BY EmptySeq DEF Init
    <2> QED
      BY <2>1, <2>2, <2>3 DEF Init, Types
  <1>2. \A t \in Thread : ThreadOK(t)
    BY DEF Init, ThreadOK, Owed, Nothing, Open
  <1>3. Copying = {}
    BY DEF Init, Copying
  <1>4. Copies
    BY <1>3 DEF Init, Copies
  <1>5. Processes
    BY DEF Init, Processes, ProcessOK, WaitOK
  <1>6. Terminals
    BY SessionAssumption DEF Init, Terminals
  <1> QED
    BY <1>1, <1>2, <1>4, <1>5, <1>6 DEF Init, IInv

\* A call is taken from the queue.
LEMMA ReceiveStep ==
    ASSUME IInv, NEW t \in Thread, Receive(t)
    PROVE  IInv'
  <1> USE DEF IInv
  <1>1. Head(queue) \in Workload /\ Tail(queue) \in Seq(Workload)
        /\ Len(Tail(queue)) <= MaxWaiting
    BY SessionAssumption, HeadTailProperties DEF Receive, Types
  <1>2. held[t] = [pins |-> 0, handles |-> 0, blocks |-> 0]
    BY DEF Receive, ThreadOK, Owed, Open
  <1>3. /\ call'[t] = Head(queue) /\ pc'[t] = "pinned"
        /\ held' = [held EXCEPT ![t] = [pins |-> 2, handles |-> 0, blocks |-> 0]]
    <2>1. call'[t] = Head(queue) /\ pc'[t] = "pinned"
      BY DEF Receive, Types
    <2>2. [held[t] EXCEPT !.pins = held[t].pins + 2] = [pins |-> 2, handles |-> 0, blocks |-> 0]
      BY <1>2
    <2>3. held' = [held EXCEPT ![t] = [held[t] EXCEPT !.pins = held[t].pins + 2]]
      BY DEF Receive
    <2> QED
      BY <2>1, <2>2, <2>3
  <1>4. /\ held' \in [Thread -> Account]
        /\ held'[t] = [pins |-> 2, handles |-> 0, blocks |-> 0]
    BY <1>3 DEF Types, Account
  <1>5. Types'
    BY <1>1, <1>4 DEF Receive, Types, memory
  <1>6. Moves(t)
    BY <1>3, <1>4 DEF Receive, Types, Moves, memory
  <1>7. ThreadOK(t)'
    BY <1>1, <1>3, <1>4, SessionAssumption DEF ThreadOK, Owed, Open
  <1>8. pc[t] \in Alone /\ pc'[t] \in Alone /\ UNCHANGED <<live, proc, tty>>
    BY <1>3 DEF Receive, memory, Alone
  <1> QED
    BY <1>5, <1>6, <1>7, <1>8, AloneStep

\* The handle and the array of pointers are got.
LEMMA ContainerNewStep ==
    ASSUME IInv, NEW t \in Thread, ContainerNew(t)
    PROVE  IInv'
  <1> USE DEF IInv
  <1> DEFINE n == IF call[t].argv = <<>> THEN 0 ELSE 1
             h == [pins |-> 2, handles |-> 1, blocks |-> n]
             next == IF call[t].op \in AttachOp THEN "args" ELSE "open"
  <1>1. pc[t] = "pinned" /\ held[t] = [pins |-> 2, handles |-> 0, blocks |-> 0]
    BY DEF ContainerNew, ThreadOK, Owed, Open
  <1>2. held' = [held EXCEPT ![t] = h]
    <2>0. n \in Int
      OBVIOUS
    <2> HIDE DEF n
    <2>1. [held[t] EXCEPT !.handles = held[t].handles + 1, !.blocks = held[t].blocks + n] = h
      <3>1. held[t] \in Account /\ held[t].pins = 2 /\ held[t].handles = 0 /\ held[t].blocks = 0
        BY <1>1 DEF Types
      <3>2. /\ held[t].handles + 1 \in Int /\ held[t].blocks + n \in Int
            /\ held[t].handles + 1 = 1 /\ held[t].blocks + n = n
        BY <2>0, <3>1
      <3>3. [held[t] EXCEPT !.handles = held[t].handles + 1, !.blocks = held[t].blocks + n]
               = [pins |-> held[t].pins, handles |-> held[t].handles + 1,
                  blocks |-> held[t].blocks + n]
        BY <3>1, <3>2, GrownAccount
      <3> QED
        BY <3>1, <3>2, <3>3
    <2>2. held' = [held EXCEPT ![t] = [held[t] EXCEPT !.handles = held[t].handles + 1,
                                                      !.blocks = held[t].blocks + n]]
      BY DEF ContainerNew, Types, n
    <2> QED
      BY <2>1, <2>2
  <1>3. pc' = [pc EXCEPT ![t] = next] /\ next \in {"args", "open"}
    BY DEF ContainerNew
  <1>4. h \in Account
    BY DEF Account
  <1>5. h = Owed(next, call[t])
    BY DEF Owed, Open
  <1> HIDE DEF h, next
  <1>6. Types'
    <2>1. held' \in [Thread -> Account]
      BY <1>2, <1>4 DEF Types
    <2> QED
      BY <1>3, <2>1 DEF ContainerNew, Types, memory, Open
  <1>7. Moves(t)
    BY <1>2, <1>3 DEF ContainerNew, Types, Moves, memory
  <1>8. ThreadOK(t)'
    BY <1>1, <1>2, <1>3, <1>5 DEF ContainerNew, Types, ThreadOK
  <1>9. pc[t] \in Alone /\ pc'[t] \in Alone /\ UNCHANGED <<live, proc, tty>>
    BY <1>1, <1>3 DEF ContainerNew, Types, memory, Alone
  <1> QED
    BY <1>6, <1>7, <1>8, <1>9, AloneStep

\* Everything is given back.
LEMMA ReturnStep ==
    ASSUME IInv, NEW t \in Thread, Return(t)
    PROVE  IInv'
  <1> USE DEF IInv
  <1> DEFINE b == IF pc[t] = "put" THEN held[t].handles - 1 ELSE held[t].handles
             c == IF pc[t] = "unpin" \/ call[t].argv = <<>>
                  THEN held[t].blocks ELSE held[t].blocks - 1
             h == [held[t] EXCEPT !.pins = held[t].pins - 2, !.handles = b, !.blocks = c]
  <1>1. pc[t] \in {"put", "unpin"} /\ held[t] = Owed(pc[t], call[t])
    BY DEF Return, ThreadOK
  <1>2. h = [pins |-> 0, handles |-> 0, blocks |-> 0]
    <2>1. /\ held[t] \in Account /\ held[t].pins = 2
          /\ held[t].handles = IF pc[t] = "put" THEN 1 ELSE 0
          /\ held[t].blocks = IF pc[t] = "put" /\ call[t].argv # <<>> THEN 1 ELSE 0
      BY <1>1 DEF Owed, Open, Types
    <2>2. held[t].pins - 2 = 0 /\ b = 0 /\ c = 0
      BY <1>1, <2>1
    <2> HIDE DEF b, c
    <2>3. h = [held[t] EXCEPT !.pins = 0, !.handles = 0, !.blocks = 0]
      BY <2>2
    <2>4. held[t] \in Account /\ 0 \in Int
      BY <2>1
    <2>5. [held[t] EXCEPT !.pins = 0, !.handles = 0, !.blocks = 0]
             = [pins |-> 0, handles |-> 0, blocks |-> 0]
      BY <2>4, NewAccount, Zenon
    <2> HIDE DEF h
    <2> QED
      BY <2>3, <2>5
  <1>3. held' = [held EXCEPT ![t] = h]
    BY DEF Return, Types
  <1> HIDE DEF h
  <1>4. held' = [held EXCEPT ![t] = [pins |-> 0, handles |-> 0, blocks |-> 0]]
    BY <1>2, <1>3
  <1>5. Types'
    <2>1. held' \in [Thread -> Account]
      BY <1>4 DEF Types, Account
    <2> QED
      BY <2>1 DEF Return, Types, memory
  <1>6. Moves(t)
    BY <1>4 DEF Return, Types, Moves, memory
  <1>7. ThreadOK(t)'
    BY <1>4 DEF Return, Types, ThreadOK, Owed, Open
  <1>8. pc[t] \in Alone /\ pc'[t] \in Alone /\ UNCHANGED <<live, proc, tty>>
    BY <1>1 DEF Return, Types, memory, Alone
  <1> QED
    BY <1>5, <1>6, <1>7, <1>8, AloneStep

\* A method concludes without giving anything back yet.
LEMMA Concluded ==
    ASSUME IInv, NEW t \in Thread, NEW v \in Int \cup {None}, NEW next,
           Conclude(t, v, next), held' = held,
           \/ pc[t] = "pinned" /\ next = "unpin"
           \/ pc[t] \in {"args", "open", "wait", "session"}
              /\ next \in {"wait", "session", "put"},
           proc' \in [Pid -> Attached \cup {None}],
           tty' \in [Tty -> Thread \cup {"kept", None}]
    PROVE  Types' /\ Moves(t) /\ ThreadOK(t)' /\ pc' = [pc EXCEPT ![t] = next]
  <1> USE DEF IInv
  <1>1. Types'
    BY EmptySeq DEF Conclude, Types, Open
  <1>2. Moves(t)
    BY DEF Conclude, Types, Moves
  <1>3. Owed(next, call[t]) = Owed(pc[t], call[t])
    BY DEF Owed, Open
  <1>4. ThreadOK(t)'
    BY <1>3 DEF Conclude, Types, ThreadOK
  <1> QED
    BY <1>1, <1>2, <1>4 DEF Conclude

\* A method concludes on its own, whether the call succeeded or failed.
LEMMA AloneConcluded ==
    ASSUME IInv, NEW t \in Thread, NEW v \in Int, NEW next,
           Conclude(t, v, next), UNCHANGED <<held, proc, tty>>,
           \/ pc[t] = "pinned" /\ next = "unpin"
           \/ pc[t] \in {"args", "open"} /\ next = "put"
    PROVE  IInv'
  <1>1. Types' /\ Moves(t) /\ ThreadOK(t)' /\ pc' = [pc EXCEPT ![t] = next]
    BY Concluded DEF IInv, Types
  <1>2. pc[t] \in Alone /\ pc'[t] \in Alone /\ UNCHANGED <<live, proc, tty>>
    BY <1>1 DEF IInv, Types, Conclude, Alone
  <1> QED
    BY <1>1, <1>2, AloneStep

-----------------------------------------------------------------------------
(* The argument loop *)

\* There are finitely many threads and addresses.
LEMMA Finite ==
    ASSUME IInv
    PROVE  IsFiniteSet(live) /\ IsFiniteSet(Copying)
  <1>1. live \subseteq Addr /\ Copying \subseteq Thread
    BY DEF IInv, Types, Copying
  <1> QED
    BY <1>1, SessionAssumption, FS_Subset

\* An argument is copied.
LEMMA CopyArgStep ==
    ASSUME IInv, NEW t \in Thread, CopyArg(t)
    PROVE  IInv'
  <1> USE DEF IInv
  <1> DEFINE h == [held[t] EXCEPT !.pins = 3]
  <1>1. PICK a \in Addr \ live :
           /\ argv' = [argv EXCEPT ![t] = Append(@, a)]
           /\ mem' = [mem EXCEPT ![a] = call[t].argv[Len(argv[t]) + 1]]
           /\ live' = live \cup {a}
    BY DEF CopyArg
  <1>2. /\ pc[t] = "args" /\ pc' = [pc EXCEPT ![t] = "copied"]
        /\ UNCHANGED <<bound, queue, call, proc, tty, ret>>
    BY DEF CopyArg
  <1>3. held[t] \in Account /\ held[t] = Owed("args", call[t])
    BY <1>2 DEF ThreadOK, Types
  <1>4. h \in Account /\ h = Owed("copied", call[t])
    <2>1. h \in Account
      BY <1>3 DEF Account
    <2>2. /\ h.pins = Owed("copied", call[t]).pins
          /\ h.handles = Owed("copied", call[t]).handles
          /\ h.blocks = Owed("copied", call[t]).blocks
      BY <1>3 DEF Owed, Open, Account
    <2>3. Owed("copied", call[t]) \in Account
      BY DEF Owed, Account
    <2> QED
      BY <2>1, <2>2, <2>3, SameAccount
  <1>5. held' = [held EXCEPT ![t] = h]
    <2>1. held[t].pins + 1 = 3
      BY <1>3 DEF Owed
    <2>2. held' = [held EXCEPT ![t] = [held[t] EXCEPT !.pins = held[t].pins + 1]]
      BY DEF CopyArg
    <2> QED
      BY <2>1, <2>2
  <1> HIDE DEF h
  <1>6. call[t].argv[Len(argv[t]) + 1] \in Word
    <2>1. call[t] \in Call /\ Len(argv[t]) < Len(call[t].argv) /\ argv[t] \in Seq(Addr)
      BY <1>2, SessionAssumption DEF CopyArg, ThreadOK, Types
    <2> QED
      BY <2>1, LenProperties, ElementOfSeq DEF Call
  <1>7. /\ argv'[t] \in Seq(Addr) /\ argv'[t] # <<>> /\ Last(t)' = a
        /\ argv' \in [Thread -> Seq(Addr)]
    <2>1. argv[t] \in Seq(Addr) /\ argv'[t] = Append(argv[t], a)
      BY <1>1 DEF Types
    <2>2. /\ Append(argv[t], a) \in Seq(Addr) /\ Append(argv[t], a) # <<>>
          /\ Append(argv[t], a)[Len(Append(argv[t], a))] = a
      BY <2>1, AppendProperties
    <2> QED
      BY <1>1, <2>1, <2>2 DEF Types, Last
  <1>8. Types'
    <2>1. held' \in [Thread -> Account]
      BY <1>4, <1>5 DEF Types
    <2>2. mem' \in [Addr -> Word] /\ live' \in SUBSET Addr
      BY <1>1, <1>6 DEF Types
    <2> QED
      BY <1>2, <1>7, <2>1, <2>2 DEF Types, Open
  <1>9. Moves(t)
    BY <1>1, <1>2, <1>5 DEF Types, Moves
  <1>10. ThreadOK(t)'
    BY <1>2, <1>4, <1>5 DEF Types, ThreadOK
  <1>11. Copies'
    <2>1. /\ Copying' = Copying \cup {t} /\ t \notin Copying
          /\ \A u \in Copying : Last(u)' = Last(u) /\ argv'[u] = argv[u]
      BY <1>1, <1>2 DEF Copying, Types, Last
    <2>2. Cardinality(live') = Cardinality(live) + 1
      BY <1>1, Finite, FS_AddElement
    <2>3. Cardinality(Copying') = Cardinality(Copying) + 1
      BY <2>1, Finite, FS_AddElement
    <2>4. Cardinality(live') = Cardinality(Copying')
      BY <2>2, <2>3 DEF Copies
    <2>5. \A u \in Copying : Last(u) \in live /\ Last(u)' # a
      BY <1>1, <2>1 DEF Copies
    <2>6. \A u \in Copying' : argv'[u] # <<>> /\ Last(u)' \in live'
      BY <1>1, <1>7, <2>1, <2>5 DEF Copies
    <2>7. \A u, v \in Copying' : u # v => Last(u)' # Last(v)'
      BY <1>7, <2>1, <2>5 DEF Copies
    <2> QED
      BY <2>4, <2>6, <2>7 DEF Copies
  <1>12. Processes' /\ Terminals'
    BY <1>2, <1>9, ProcessesKept, TerminalsKept DEF Types
  <1> QED
    BY <1>8, <1>9, <1>10, <1>11, <1>12, LocalStep

\* Its copy is released.
LEMMA ReleaseArgStep ==
    ASSUME IInv, NEW t \in Thread, ReleaseArg(t)
    PROVE  IInv'
  <1> USE DEF IInv
  <1> DEFINE h == [held[t] EXCEPT !.pins = 2]
  <1>1. /\ pc[t] = "copied" /\ pc' = [pc EXCEPT ![t] = "args"]
        /\ live' = live \ {Last(t)}
        /\ UNCHANGED <<bound, queue, call, argv, mem, proc, tty, ret>>
    BY DEF ReleaseArg, Last
  <1>2. held[t] \in Account /\ held[t] = Owed("copied", call[t])
    BY <1>1 DEF ThreadOK, Types
  <1>3. h \in Account /\ h = Owed("args", call[t])
    <2>1. h \in Account
      BY <1>2 DEF Account
    <2>2. /\ h.pins = Owed("args", call[t]).pins
          /\ h.handles = Owed("args", call[t]).handles
          /\ h.blocks = Owed("args", call[t]).blocks
      BY <1>2 DEF Owed, Open, Account
    <2>3. Owed("args", call[t]) \in Account
      BY DEF Owed, Account
    <2> QED
      BY <2>1, <2>2, <2>3, SameAccount
  <1>4. held' = [held EXCEPT ![t] = h]
    <2>1. held[t].pins - 1 = 2
      BY <1>2 DEF Owed
    <2>2. held' = [held EXCEPT ![t] = [held[t] EXCEPT !.pins = held[t].pins - 1]]
      BY DEF ReleaseArg
    <2> QED
      BY <2>1, <2>2
  <1> HIDE DEF h
  <1>5. Types'
    <2>1. held' \in [Thread -> Account]
      BY <1>3, <1>4 DEF Types
    <2> QED
      BY <1>1, <2>1 DEF Types, Open
  <1>6. Moves(t)
    BY <1>1, <1>4 DEF Types, Moves
  <1>7. ThreadOK(t)'
    BY <1>1, <1>3, <1>4 DEF Types, ThreadOK
  <1>8. Copies'
    <2>1. /\ Copying' = Copying \ {t} /\ t \in Copying
          /\ \A u \in Thread : Last(u)' = Last(u) /\ argv'[u] = argv[u]
      BY <1>1 DEF Copying, Types, Last
    <2>2. Last(t) \in live
      BY <2>1 DEF Copies
    <2>3. Cardinality(live') = Cardinality(live) - 1
      BY <1>1, <2>2, Finite, FS_RemoveElement
    <2>4. Cardinality(Copying') = Cardinality(Copying) - 1
      BY <2>1, Finite, FS_RemoveElement
    <2>5. Cardinality(live') = Cardinality(Copying')
      BY <2>3, <2>4 DEF Copies
    <2>6. \A u \in Copying' : argv'[u] # <<>> /\ Last(u)' \in live'
      BY <1>1, <2>1 DEF Copies, Copying
    <2>7. \A u, v \in Copying' : u # v => Last(u)' # Last(v)'
      BY <2>1 DEF Copies, Copying
    <2> QED
      BY <2>5, <2>6, <2>7 DEF Copies
  <1>9. Processes' /\ Terminals'
    BY <1>1, <1>6, ProcessesKept, TerminalsKept DEF Types
  <1> QED
    BY <1>5, <1>6, <1>7, <1>8, <1>9, LocalStep

-----------------------------------------------------------------------------
(* Processes *)

\* A process is started as its caller asked.
LEMMA Started ==
    ASSUME IInv, NEW t \in Thread, NEW op \in AttachOp, ArgsReady(t, op),
           NEW thread \in Thread \cup {None}
    PROVE  /\ Process(t, thread) \in Attached
           /\ Process(t, thread).op = op /\ Process(t, thread).thread = thread
           /\ Process(t, thread).opts.attach_flags = call[t].flags
           /\ Process(t, thread).opts.env_policy = "LXC_ATTACH_CLEAR_ENV" <=> call[t].clear
  <1> USE DEF IInv
  <1>1. call[t] \in Call /\ call[t].op = op
    BY SessionAssumption DEF ArgsReady, ThreadOK, Types
  <1>2. call[t].argv \in Seq(Word) /\ call[t].clear \in BOOLEAN /\ call[t].flags \in SUBSET Flag
    BY <1>1 DEF Call
  <1>3. /\ Options(call[t].clear, call[t].flags, {}) \in AttachOptions
        /\ Options(call[t].clear, call[t].flags, {}).attach_flags = call[t].flags
        /\ Options(call[t].clear, call[t].flags, {}).env_policy = "LXC_ATTACH_CLEAR_ENV"
              <=> call[t].clear
    BY <1>2 DEF Options, AttachOptions
  <1>4. [i \in DOMAIN argv[t] |-> mem[argv[t][i]]] \in Seq(Word)
    <2>1. argv[t] \in Seq(Addr) /\ mem \in [Addr -> Word]
      BY DEF Types
    <2>2. /\ Len(argv[t]) \in Nat /\ DOMAIN argv[t] = 1..Len(argv[t])
          /\ \A i \in 1..Len(argv[t]) : argv[t][i] \in Addr
      BY <2>1, LenProperties, ElementOfSeq
    <2> DEFINE f == [i \in DOMAIN argv[t] |-> mem[argv[t][i]]]
    <2>3. f \in [1..Len(argv[t]) -> Word]
      BY <2>1, <2>2
    <2> QED
      BY <2>2, <2>3 DEF Seq
  <1>5. Process(t, thread) \in Attached
    BY <1>1, <1>2, <1>3, <1>4 DEF Process, Attached
  <1> QED
    BY <1>1, <1>3, <1>5 DEF Process

\* No process is left that runs for a thread that does not wait.
LEMMA NoneWaitedFor ==
    ASSUME IInv, NEW t \in Thread, pc[t] # "wait", NEW p \in Pid, proc[p] # None
    PROVE  proc[p].thread # t
  BY SessionAssumption DEF IInv, Processes, ProcessOK

\* The process starts, and its thread waits for it.
LEMMA RunWaitStep ==
    ASSUME IInv, NEW t \in Thread, nativeAttachRunWait(t)
    PROVE  IInv'
  <1> USE DEF IInv
  <1>1. /\ ArgsReady(t, "attachRunWait") /\ UNCHANGED <<held, tty>> /\ pc[t] = "args"
        /\ "attachRunWait" \in AttachOp
    BY DEF nativeAttachRunWait, ArgsReady, AttachOp
  <1>2. CASE Running(t, t) /\ Conclude(t, ret[t], "wait")
    <2>1. PICK p \in Pid : proc[p] = None /\ proc' = [proc EXCEPT ![p] = Process(t, t)]
      BY <1>2 DEF Running
    <2> DEFINE P == Process(t, t)
    <2>2. /\ P \in Attached /\ P # None /\ P.op = "attachRunWait" /\ P.thread = t
          /\ P.opts.attach_flags = call[t].flags
          /\ P.opts.env_policy = "LXC_ATTACH_CLEAR_ENV" <=> call[t].clear
      BY <1>1, Started, SessionAssumption
    <2> HIDE DEF P
    <2>3. proc' \in [Pid -> Attached \cup {None}] /\ ret[t] \in Int \cup {None}
      BY <2>1, <2>2 DEF Types, P
    <2>4. Types' /\ Moves(t) /\ ThreadOK(t)' /\ pc' = [pc EXCEPT ![t] = "wait"]
      BY <1>1, <1>2, <2>3, Concluded DEF Types
    <2>5. /\ pc'[t] = "wait" /\ call' = call
          /\ \A u \in Thread : u # t => pc'[u] = pc[u]
          /\ proc'[p] = P
          /\ \A q \in Pid : q # p => proc'[q] = proc[q]
      BY <1>2, <2>1, <2>4 DEF Types, Conclude, P
    <2>6. \A q \in Pid : proc[q] # None => proc[q].thread # t
      BY <1>1, NoneWaitedFor
    <2>7. ASSUME NEW q \in Pid PROVE ProcessOK(q)'
      <3>1. CASE q = p
        BY <2>2, <2>5, <3>1 DEF ProcessOK
      <3>2. CASE q # p
        BY <2>5, <2>6, <3>2 DEF Processes, ProcessOK
      <3> QED
        BY <3>1, <3>2
    <2>8. ASSUME NEW u \in Thread PROVE WaitOK(u)'
      <3>1. CASE u = t
        <4>1. \A q \in Pid : proc'[q] # None /\ proc'[q].thread = t <=> q = p
          BY <2>2, <2>5, <2>6
        <4> QED
          BY <3>1, <4>1 DEF WaitOK
      <3>2. CASE u # t
        BY <2>1, <2>2, <2>5, <3>2 DEF Processes, WaitOK
      <3> QED
        BY <3>1, <3>2
    <2>9. Copies' /\ Terminals'
      BY <1>1, <1>2, <2>4, <2>5, CopiesKept, TerminalsKept DEF Conclude
    <2> QED
      BY <2>4, <2>7, <2>8, <2>9, LocalStep DEF Processes
  <1>3. CASE Conclude(t, -1, "put") /\ UNCHANGED proc
    BY <1>1, <1>3, AloneConcluded
  <1> QED
    BY <1>2, <1>3 DEF nativeAttachRunWait

\* The process starts, and nobody waits for it.
LEMMA NoWaitStep ==
    ASSUME IInv, NEW t \in Thread, nativeAttachNoWait(t)
    PROVE  IInv'
  <1> USE DEF IInv
  <1>1. /\ ArgsReady(t, "attachNoWait") /\ UNCHANGED <<held, tty>> /\ pc[t] = "args"
        /\ "attachNoWait" \in AttachOp
    BY DEF nativeAttachNoWait, ArgsReady, AttachOp
  <1>2. CASE Running(t, None) /\ Conclude(t, 0, "put")
    <2>1. PICK p \in Pid : proc[p] = None /\ proc' = [proc EXCEPT ![p] = Process(t, None)]
      BY <1>2 DEF Running
    <2> DEFINE P == Process(t, None)
    <2>2. /\ P \in Attached /\ P.op = "attachNoWait" /\ P.thread = None
      BY <1>1, Started
    <2> HIDE DEF P
    <2>3. proc' \in [Pid -> Attached \cup {None}]
      BY <2>1, <2>2 DEF Types, P
    <2>4. Types' /\ Moves(t) /\ ThreadOK(t)' /\ pc' = [pc EXCEPT ![t] = "put"]
      <3>1. 0 \in Int /\ held' = held /\ tty' \in [Tty -> Thread \cup {"kept", None}]
        BY <1>1 DEF Types
      <3> QED
        BY <1>1, <1>2, <2>3, <3>1, Concluded
    <2>5. /\ pc'[t] = "put" /\ call' = call
          /\ \A u \in Thread : u # t => pc'[u] = pc[u]
          /\ proc'[p] = P
          /\ \A q \in Pid : q # p => proc'[q] = proc[q]
      BY <1>2, <2>1, <2>4 DEF Types, Conclude, P
    <2>6. \A q \in Pid : proc[q] # None => proc[q].thread # t
      BY <1>1, NoneWaitedFor
    <2>7. ASSUME NEW q \in Pid PROVE ProcessOK(q)'
      <3>1. CASE q = p
        BY <2>2, <2>5, <3>1 DEF ProcessOK
      <3>2. CASE q # p
        BY <2>5, <2>6, <3>2 DEF Processes, ProcessOK
      <3> QED
        BY <3>1, <3>2
    <2>8. ASSUME NEW u \in Thread PROVE WaitOK(u)'
      <3>1. u # None
        BY SessionAssumption
      <3>2. CASE u # t
        BY <2>1, <2>2, <2>5, <3>1, <3>2 DEF Processes, WaitOK
      <3> QED
        BY <2>5, <3>2 DEF WaitOK
    <2>9. Copies' /\ Terminals'
      BY <1>1, <1>2, <2>4, <2>5, CopiesKept, TerminalsKept DEF Conclude
    <2> QED
      BY <2>4, <2>7, <2>8, <2>9, LocalStep DEF Processes
  <1>3. CASE Conclude(t, -1, "put") /\ UNCHANGED proc
    BY <1>1, <1>3, AloneConcluded
  <1> QED
    BY <1>2, <1>3 DEF nativeAttachNoWait

\* The answers made of a wait status are numbers.
LEMMA AnswerType ==
    ASSUME NEW f \in Fate
    PROVE  WaitStatus(f) \in Nat /\ RunWaitAnswer(WaitStatus(f)) \in Int
  <1>1. f.code \in 0..255
    <2>1. f.code \in Code \/ f.code \in Signal
      BY DEF Fate
    <2>2. \A c \in Signal : c \in 1..126
      BY AttachAssumption
    <2>3. \A c \in Signal : c \in 0..255
      BY <2>2
    <2>4. \A c \in Code : c \in 0..255
      BY AttachAssumption
    <2> QED
      BY <2>1, <2>3, <2>4
  <1>2. WaitStatus(f) \in Nat
    BY <1>1 DEF WaitStatus
  <1> QED
    BY <1>2 DEF RunWaitAnswer

\* The process has ended and its thread goes on.
LEMMA ReapStep ==
    ASSUME IInv, NEW t \in Thread, Reap(t)
    PROVE  IInv'
  <1> USE DEF IInv
  <1>1. PICK p \in Pid :
           /\ proc[p] # None /\ proc[p].thread = t /\ proc[p].fate # None
           /\ Conclude(t, RunWaitAnswer(WaitStatus(proc[p].fate)), "put")
           /\ proc' = [proc EXCEPT ![p] = None]
    BY DEF Reap
  <1>2. pc[t] = "wait" /\ UNCHANGED <<held, tty>>
    BY DEF Reap
  <1>3. RunWaitAnswer(WaitStatus(proc[p].fate)) \in Int
    <2>1. proc[p].fate \in Fate
      BY <1>1 DEF Types, Attached
    <2> QED
      BY <2>1, AnswerType
  <1>4. proc' \in [Pid -> Attached \cup {None}]
    BY <1>1 DEF Types
  <1>5. Types' /\ Moves(t) /\ ThreadOK(t)' /\ pc' = [pc EXCEPT ![t] = "put"]
    <2> DEFINE v == RunWaitAnswer(WaitStatus(proc[p].fate))
    <2>1. v \in Int /\ Conclude(t, v, "put")
      BY <1>1, <1>3
    <2>2. held' = held /\ tty' \in [Tty -> Thread \cup {"kept", None}]
      BY <1>2 DEF Types
    <2> HIDE DEF v
    <2> QED
      BY <1>2, <1>4, <2>1, <2>2, Concluded
  <1>6. /\ pc'[t] = "put" /\ call' = call
        /\ \A u \in Thread : u # t => pc'[u] = pc[u]
        /\ proc'[p] = None
        /\ \A q \in Pid : q # p => proc'[q] = proc[q]
    BY <1>1, <1>5 DEF Types, Conclude
  <1>7. \A q \in Pid : proc[q] # None /\ proc[q].thread = t => q = p
    BY <1>1, <1>2 DEF Processes, WaitOK
  <1>8. ASSUME NEW q \in Pid PROVE ProcessOK(q)'
    BY <1>6, <1>7 DEF Processes, ProcessOK
  <1>9. ASSUME NEW u \in Thread PROVE WaitOK(u)'
    BY <1>1, <1>6 DEF Processes, WaitOK
  <1>10. Copies' /\ Terminals'
    BY <1>1, <1>2, <1>5, <1>6, CopiesKept, TerminalsKept DEF Conclude
  <1> QED
    BY <1>5, <1>8, <1>9, <1>10, LocalStep DEF Processes

-----------------------------------------------------------------------------
(* Terminals and short calls *)

\* A session takes its terminal, or fails to.
LEMMA ConsoleStep ==
    ASSUME IInv, NEW t \in Thread, nativeConsole(t)
    PROVE  IInv'
  <1> USE DEF IInv
  <1>1. pc[t] = "open" /\ UNCHANGED <<held, proc>>
    BY DEF nativeConsole
  <1>2. CASE /\ \E y \in Tty : tty[y] = None /\ tty' = [tty EXCEPT ![y] = t]
             /\ Conclude(t, ret[t], "session")
    <2>1. PICK y \in Tty : tty[y] = None /\ tty' = [tty EXCEPT ![y] = t]
      BY <1>2
    <2>2. /\ tty' \in [Tty -> Thread \cup {"kept", None}] /\ ret[t] \in Int \cup {None}
          /\ proc' \in [Pid -> Attached \cup {None}]
      BY <1>1, <2>1 DEF Types
    <2>3. Types' /\ Moves(t) /\ ThreadOK(t)' /\ pc' = [pc EXCEPT ![t] = "session"]
      BY <1>1, <1>2, <2>2, Concluded
    <2>4. pc'[t] = "session" /\ \A u \in Thread : u # t => pc'[u] = pc[u]
      BY <2>3 DEF Types
    <2>5. /\ tty'[y] = t
          /\ \A u \in Thread \ {t}, z \in Tty : tty'[z] = u <=> tty[z] = u
      BY <2>1, SessionAssumption DEF Types
    <2>6. Terminals'
      BY <2>4, <2>5 DEF Terminals
    <2>7. Copies' /\ Processes'
      BY <1>1, <1>2, <2>3, <2>4, CopiesKept, ProcessesKept DEF Conclude
    <2> QED
      BY <2>3, <2>6, <2>7, LocalStep
  <1>3. CASE Conclude(t, 0, "put") /\ UNCHANGED tty
    BY <1>1, <1>3, AloneConcluded
  <1> QED
    BY <1>2, <1>3 DEF nativeConsole

\* A session ends and its terminal is free.
LEMMA ConsoleEndsStep ==
    ASSUME IInv, NEW t \in Thread, ConsoleEnds(t)
    PROVE  IInv'
  <1> USE DEF IInv
  <1>1. PICK v \in {0, 1} :
          /\ pc[t] = "session" /\ Conclude(t, v, "put") /\ UNCHANGED <<held, proc>>
          /\ tty' = [y \in Tty |-> IF tty[y] = t THEN None ELSE tty[y]]
    BY DEF ConsoleEnds
  <1>2. /\ tty' \in [Tty -> Thread \cup {"kept", None}] /\ v \in Int
        /\ proc' \in [Pid -> Attached \cup {None}]
    BY <1>1 DEF Types
  <1>3. Types' /\ Moves(t) /\ ThreadOK(t)' /\ pc' = [pc EXCEPT ![t] = "put"]
    BY <1>1, <1>2, Concluded
  <1>4. pc'[t] = "put" /\ \A u \in Thread : u # t => pc'[u] = pc[u]
    BY <1>3 DEF Types
  <1>5. /\ \A y \in Tty : tty'[y] # t
        /\ \A u \in Thread \ {t}, y \in Tty : tty'[y] = u <=> tty[y] = u
    BY <1>1, SessionAssumption
  <1>6. Terminals'
    BY <1>4, <1>5 DEF Terminals
  <1>7. Copies' /\ Processes'
    BY <1>1, <1>3, <1>4, CopiesKept, ProcessesKept DEF Conclude
  <1> QED
    BY <1>3, <1>6, <1>7, LocalStep

\* A descriptor is asked for; its terminal stays taken and no session has it.
LEMMA ConsoleFdStep ==
    ASSUME IInv, NEW t \in Thread, nativeGetConsoleFd(t)
    PROVE  IInv'
  <1> USE DEF IInv
  <1>1. pc[t] = "open" /\ UNCHANGED <<held, proc>>
    BY DEF nativeGetConsoleFd
  <1>2. CASE jni_lxc_console_getfd /\ Conclude(t, 3, "put")
    <2>1. PICK y \in Tty : tty[y] = None /\ tty' = [tty EXCEPT ![y] = "kept"]
      BY <1>2 DEF jni_lxc_console_getfd
    <2>2. /\ tty' \in [Tty -> Thread \cup {"kept", None}] /\ 3 \in Int
          /\ proc' \in [Pid -> Attached \cup {None}]
      BY <1>1, <2>1 DEF Types
    <2>3. Types' /\ Moves(t) /\ ThreadOK(t)' /\ pc' = [pc EXCEPT ![t] = "put"]
      BY <1>1, <1>2, <2>2, Concluded
    <2>4. pc'[t] = "put" /\ \A u \in Thread : u # t => pc'[u] = pc[u]
      BY <2>3 DEF Types
    <2>5. \A u \in Thread, z \in Tty : tty'[z] = u <=> tty[z] = u
      BY <2>1, SessionAssumption DEF Types
    <2>6. Terminals'
      BY <1>1, <2>4, <2>5 DEF Terminals
    <2>7. Copies' /\ Processes'
      BY <1>1, <1>2, <2>3, <2>4, CopiesKept, ProcessesKept DEF Conclude
    <2> QED
      BY <2>3, <2>6, <2>7, LocalStep
  <1>3. CASE Conclude(t, -1, "put") /\ UNCHANGED tty
    BY <1>1, <1>3, AloneConcluded
  <1> QED
    BY <1>2, <1>3 DEF nativeGetConsoleFd

\* The methods that conclude at once.
LEMMA ShortStep ==
    ASSUME IInv, NEW t \in Thread, nativeIsRunning(t) \/ ContainerNewFails(t)
    PROVE  IInv'
  <1>1. CASE nativeIsRunning(t)
    BY <1>1, AloneConcluded DEF nativeIsRunning
  <1>2. CASE ContainerNewFails(t)
    <2>1. Default(call[t].op) \in Int
      BY DEF Default
    <2> QED
      BY <1>2, <2>1, AloneConcluded DEF ContainerNewFails
  <1> QED
    BY <1>1, <1>2

-----------------------------------------------------------------------------
(* The environment *)

\* The library is loaded, or a call is queued.
LEMMA PoolStep ==
    ASSUME IInv, JNI_OnLoad \/ Send
    PROVE  IInv'
  <1> USE DEF IInv
  <1>1. UNCHANGED <<call, pc, held, argv, mem, live, proc, tty, ret>>
    BY DEF JNI_OnLoad, Send, memory
  <1>2. Types'
    <2>1. CASE JNI_OnLoad
      BY <2>1, <1>1 DEF JNI_OnLoad, Types
    <2>2. CASE Send
      <3>1. PICK q \in Workload : queue' = Append(queue, q)
        BY <2>2 DEF Send
      <3>2. queue' \in Seq(Workload) /\ Len(queue') = Len(queue) + 1
        BY <3>1, AppendProperties DEF Types
      <3>3. Len(queue') <= MaxWaiting
        BY <2>2, <3>2, SessionAssumption, LenProperties DEF Send, Types
      <3> QED
        BY <1>1, <2>2, <3>2, <3>3 DEF Send, Types
    <2> QED
      BY <2>1, <2>2
  <1> QED
    BY <1>1, <1>2
       DEF ThreadOK, Copies, Copying, Last, Processes, ProcessOK, WaitOK, Terminals

\* An attached process ends.
LEMMA ProcessEndsStep ==
    ASSUME IInv, NEW p \in Pid, ProcessEnds(p)
    PROVE  IInv'
  <1> USE DEF IInv
  <1>1. PICK f \in IF proc[p].thread = None THEN {CHOOSE g \in Fate : TRUE} ELSE Fate :
           proc' = [proc EXCEPT ![p].fate = f]
    BY DEF ProcessEnds
  <1>2. f \in Fate
    BY SessionAssumption
  <1>3. /\ proc[p] # None /\ proc[p] \in Attached
        /\ UNCHANGED <<bound, queue, call, pc, held, argv, mem, live, tty, ret>>
    BY DEF ProcessEnds, memory, Types
  <1> DEFINE P == [proc[p] EXCEPT !.fate = f]
  <1>4. /\ P \in Attached /\ P.op = proc[p].op /\ P.thread = proc[p].thread
        /\ P.opts = proc[p].opts
    BY <1>2, <1>3 DEF Attached
  <1>5. proc' = [proc EXCEPT ![p] = P]
    BY <1>1
  <1> HIDE DEF P
  <1>6. Types'
    <2>1. proc' \in [Pid -> Attached \cup {None}]
      BY <1>4, <1>5 DEF Types
    <2> QED
      BY <1>3, <2>1 DEF Types
  <1>7. \A q \in Pid : /\ proc'[q] # None <=> proc[q] # None
                       /\ proc[q] # None => /\ proc'[q].op = proc[q].op
                                            /\ proc'[q].thread = proc[q].thread
                                            /\ proc'[q].opts = proc[q].opts
    BY <1>3, <1>4, <1>5, SessionAssumption DEF Types
  <1>8. Processes'
    BY <1>3, <1>7 DEF Processes, ProcessOK, WaitOK
  <1> QED
    BY <1>3, <1>6, <1>8
       DEF ThreadOK, Copies, Copying, Last, Terminals

\* The root process dies, and all that threads held with it.
LEMMA DiesStep ==
    ASSUME IInv, Dies
    PROVE  IInv'
  <1> USE DEF IInv
  <1>1. Types'
    <2>1. queue' \in Seq(Workload) /\ Len(queue') <= MaxWaiting
      BY SessionAssumption, EmptySeq DEF Dies
    <2>2. held' \in [Thread -> Account]
      BY DEF Dies, Nothing, Account
    <2>3. argv' \in [Thread -> Seq(Addr)]
      BY EmptySeq DEF Dies
    <2> QED
      BY <2>1, <2>2, <2>3 DEF Dies, Types
  <1>2. \A t \in Thread : ThreadOK(t)'
    BY DEF Dies, ThreadOK, Owed, Nothing, Open
  <1>3. Copying' = {}
    BY DEF Dies, Copying
  <1>4. Copies'
    BY <1>3 DEF Dies, Copies
  <1>5. Processes'
    BY DEF Dies, Processes, ProcessOK, WaitOK
  <1>6. Terminals'
    BY SessionAssumption DEF Dies, Terminals
  <1> QED
    BY <1>1, <1>2, <1>4, <1>5, <1>6 DEF Dies

\* Every step keeps the invariant.
LEMMA StepInv == IInv /\ [Next]_vars => IInv'
  <1> SUFFICES ASSUME IInv, [Next]_vars PROVE IInv'
    OBVIOUS
  <1>1. ASSUME NEW t \in Thread, Proceed(t) PROVE IInv'
    BY <1>1, ContainerNewStep, ShortStep, CopyArgStep, ReleaseArgStep, DiesStep,
       RunWaitStep, NoWaitStep, ConsoleStep, ConsoleFdStep, ReturnStep DEF Proceed, Fault
  <1>2. ASSUME NEW t \in Thread, Receive(t) \/ Reap(t) \/ ConsoleEnds(t) PROVE IInv'
    BY <1>2, ReceiveStep, ReapStep, ConsoleEndsStep
  <1>3. CASE Die
    BY <1>3, DiesStep DEF Die
  <1>4. CASE UNCHANGED vars
    BY <1>4 DEF vars, memory, IInv, Types, ThreadOK, Copies, Copying, Last, Processes,
                ProcessOK, WaitOK, Terminals
  <1> QED
    BY <1>1, <1>2, <1>3, <1>4, PoolStep, ProcessEndsStep DEF Next

\* So it holds in every state of every behaviour.
LEMMA Invariance == Spec => []IInv
  BY InitInv, StepInv, PTL DEF Spec

-----------------------------------------------------------------------------
(* Theorems *)

\* Sessions: the state has its types, and a terminal is in use while its
\* session lasts.
THEOREM TypeCorrect == Spec => []SessionTypeOK
  <1>1. IInv => SessionTypeOK
    BY DEF IInv, Types, Account, ThreadOK, Terminals, SessionTypeOK
  <1> QED
    BY <1>1, Invariance, PTL

\* nativeAttachRunWait, nativeAttachNoWait, nativeConsole and
\* nativeGetConsoleFd: at each step of each path a thread owns exactly what it
\* has still to give back, and the copies of argument strings in memory are
\* those being copied at the moment.
THEOREM NothingLeaks == Spec => []HeldIsOwed
  <1>1. IInv => HeldIsOwed
    BY DEF IInv, ThreadOK, Owed, Copies, Copying, HeldIsOwed
  <1> QED
    BY <1>1, Invariance, PTL

\* Attached processes: a waiting thread has exactly one, with the environment
\* and the flags its caller asked for, and every other process is one that
\* attachNoWait left behind.
THEOREM ProcessesOwned == Spec => []ProcessesAccounted
  <1>1. IInv => ProcessesAccounted
    BY DEF IInv, Processes, ProcessOK, WaitOK, ProcessesAccounted
  <1> QED
    BY <1>1, Invariance, PTL

\* A thread stops waiting to answer only when its process is reaped.
LEMMA OnlyReapAnswers ==
    ASSUME IInv, [Next]_vars, NEW t \in Thread, pc[t] = "wait", pc'[t] = "put"
    PROVE  Reap(t)
  <1> USE DEF IInv, Types
  <1>1. ASSUME NEW u \in Thread, u # t PROVE ~(Proceed(u) \/ Receive(u) \/ Reap(u) \/ ConsoleEnds(u))
    <2>1. ASSUME NEW v, NEW next, Conclude(u, v, next) PROVE FALSE
      BY <1>1, <2>1 DEF Conclude
    <2>2. ~Fault(u)
      BY DEF Fault, Dies
    <2>3. ~(ContainerNew(u) \/ CopyArg(u) \/ ReleaseArg(u) \/ Return(u) \/ Receive(u))
      BY <1>1 DEF ContainerNew, CopyArg, ReleaseArg, Return, Receive
    <2>4. ~(\/ ContainerNewFails(u) \/ nativeAttachRunWait(u) \/ nativeAttachNoWait(u)
            \/ nativeConsole(u) \/ nativeGetConsoleFd(u) \/ nativeIsRunning(u)
            \/ Reap(u) \/ ConsoleEnds(u))
      BY <2>1 DEF ContainerNewFails, nativeAttachRunWait, nativeAttachNoWait, nativeConsole,
                  nativeGetConsoleFd, nativeIsRunning, Reap, ConsoleEnds
    <2> QED
      BY <2>2, <2>3, <2>4 DEF Proceed
  <1>2. ~(Proceed(t) \/ Receive(t) \/ ConsoleEnds(t))
    <2>1. ~Fault(t)
      BY DEF Fault, ArgsReady
    <2> QED
      BY <2>1 DEF Proceed, Receive, ConsoleEnds, ContainerNew, ContainerNewFails, CopyArg,
                  ReleaseArg, nativeAttachRunWait, nativeAttachNoWait, ArgsReady,
                  nativeConsole, nativeGetConsoleFd, nativeIsRunning, Return
  <1>3. ~(JNI_OnLoad \/ Send \/ Die \/ \E p \in Pid : ProcessEnds(p))
    BY DEF JNI_OnLoad, Send, Die, Dies, ProcessEnds
  <1>4. ~UNCHANGED vars
    BY DEF vars
  <1> QED
    BY <1>1, <1>2, <1>3, <1>4 DEF Next

\* No two ends of a process have the same wait status.
LEMMA WaitStatusInjective ==
    ASSUME NEW f \in Fate, NEW g \in Fate, WaitStatus(f) = WaitStatus(g)
    PROVE  f = g
  <1>1. /\ \A c \in Code : c \in 0..255
        /\ \A c \in Signal : c \in 1..126
    BY AttachAssumption
  <1>2. /\ \/ f.how = "exit" /\ f.code \in 0..255
           \/ f.how = "signal" /\ f.code \in 1..126
        /\ \/ g.how = "exit" /\ g.code \in 0..255
           \/ g.how = "signal" /\ g.code \in 1..126
    <2>1. \A h \in Fate : \/ h.how = "exit" /\ h.code \in Code
                          \/ h.how = "signal" /\ h.code \in Signal
      BY DEF Fate
    <2> QED
      BY <1>1, <2>1
  <1>3. \A x, y \in 0..255 : x * 256 = y * 256 => x = y
    OBVIOUS
  <1>4. \A x \in 0..255, y \in 1..126 : x * 256 # y
    OBVIOUS
  <1>5. f.how = g.how /\ f.code = g.code
    <2>1. CASE f.how = "exit" /\ g.how = "exit"
      BY <1>2, <1>3, <2>1 DEF WaitStatus
    <2>2. CASE f.how = "signal" /\ g.how = "signal"
      BY <2>2 DEF WaitStatus
    <2>3. CASE f.how = "exit" /\ g.how = "signal"
      BY <1>2, <1>4, <2>3 DEF WaitStatus
    <2>4. CASE f.how = "signal" /\ g.how = "exit"
      BY <1>2, <1>4, <2>4 DEF WaitStatus
    <2> QED
      BY <1>2, <2>1, <2>2, <2>3, <2>4
  <1> QED
    BY <1>5 DEF Fate

\* attachRunWait answers with the wait status of the very process it started,
\* which has ended and is reaped by then; from any answer but -1 the caller can
\* tell how it ended.
THEOREM AnswerIsFate == Spec => AnswerTellsFate
  <1> DEFINE A == \A t \in Thread : pc[t] = "wait" /\ pc'[t] = "put" =>
                     \E p \in Pid :
                        /\ proc[p] # None /\ proc'[p] = None
                        /\ proc[p].thread = t /\ proc[p].fate # None
                        /\ ret'[t] # -1 =>
                              \A f \in Fate : WaitStatus(f) = ret'[t] <=> f = proc[p].fate
  <1>1. ASSUME IInv, [Next]_vars, NEW t \in Thread, pc[t] = "wait", pc'[t] = "put"
        PROVE  \E p \in Pid :
                  /\ proc[p] # None /\ proc'[p] = None
                  /\ proc[p].thread = t /\ proc[p].fate # None
                  /\ ret'[t] # -1 =>
                        \A f \in Fate : WaitStatus(f) = ret'[t] <=> f = proc[p].fate
    <2>1. PICK p \in Pid :
             /\ proc[p] # None /\ proc[p].thread = t /\ proc[p].fate # None
             /\ Conclude(t, RunWaitAnswer(WaitStatus(proc[p].fate)), "put")
             /\ proc' = [proc EXCEPT ![p] = None]
      BY <1>1, OnlyReapAnswers DEF Reap
    <2>2. proc[p].fate \in Fate
      BY <1>1, <2>1 DEF IInv, Types, Attached
    <2>3. ret'[t] = RunWaitAnswer(WaitStatus(proc[p].fate)) /\ proc'[p] = None
      BY <1>1, <2>1 DEF IInv, Types, Conclude
    <2>4. ret'[t] # -1 => ret'[t] = WaitStatus(proc[p].fate)
      BY <2>3 DEF RunWaitAnswer
    <2>5. \A f \in Fate : WaitStatus(f) = WaitStatus(proc[p].fate) <=> f = proc[p].fate
      BY <2>2, WaitStatusInjective
    <2> QED
      BY <2>1, <2>3, <2>4, <2>5
  <1>2. IInv /\ [Next]_vars => A
    BY <1>1
  <1>3. IInv /\ [Next]_vars => [A]_vars
    BY <1>2
  <1> QED
    BY <1>3, Invariance, PTL DEF Spec, AnswerTellsFate
=============================================================================
