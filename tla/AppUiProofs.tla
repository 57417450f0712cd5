---------------------------- MODULE AppUiProofs ----------------------------
(***************************************************************************)
(* Theorems about AppUi for any threads, containers and operations: what   *)
(* the UI thread and the background threads do to the fields they share    *)
(* neither ends the app nor leaves a stale text on the screen.             *)
(***************************************************************************)
EXTENDS AppUi, LxcLibProofs, SequenceTheorems

-----------------------------------------------------------------------------
(* Inductive invariant *)

\* The runnables waiting are of different threads.
QueueOK ==
    /\ queue \in Seq(Worker)
    /\ \A i \in 1..Len(queue), j \in 1..Len(queue) : queue[i] = queue[j] => i = j

\* A free thread is at its first step; one that selects or performs has a container.
WorkersOK ==
    \A w \in Worker :
        /\ job[w] = "none" => at[w] = "check"
        /\ job[w] = "select" \/ (job[w] \in Clicks /\ at[w] = "perform") => name[w] \in Container

\* There is a container as long as its information is being read.
ReadingCurrent == info # None /\ ~crashed => current # None

\* A thread is about to post, or has posted, that the information be read again.
Pending ==
    \E w \in Worker : job[w] # "none" /\ at[w] \in {"post", "posted"} /\ note[w] = "info"

\* The information d is about the current container, and not out of date.
UpToDate(d) ==
    /\ d.of = {current} /\ d.name = current
    /\ DeviceActs \/ ~up \/ d.run \in {"UNKNOWN", world[current].run}

\* Unless it will be read again, what has been read or is shown is up to date.
Display ==
    ~crashed /\ ~Pending /\ current # None =>
        /\ info # None => UpToDate(info)
        /\ info = None /\ shown.text = "info" => UpToDate(shown.about)

\* The two parts of the types, and the threads whose runnables wait.
FieldTypes ==
    /\ world \in World /\ up \in BOOLEAN
    /\ told \in {"none", "connected", "disconnected"}
    /\ conn \in BOOLEAN /\ manager \in BOOLEAN /\ binding \in BOOLEAN
    /\ crashed \in BOOLEAN
    /\ current \in Container \cup {None}
    /\ info \in Info \cup {None}
    /\ shown.text \in {"start", "wait", "demo", "destroyed", "info"}
    /\ shown.about \in Info \cup {None}

ThreadTypes ==
    /\ job \in [Worker -> {"none", "demo", "select"} \cup Clicks]
    /\ at \in [Worker -> {"check", "ask", "confirm", "assign", "call", "perform",
                          "post", "posted"}]
    /\ name \in [Worker -> Container \cup {None}]
    /\ note \in [Worker -> Runnable]

Posted == \A w \in Worker : at[w] = "posted" <=> \E i \in DOMAIN queue : queue[i] = w

Threads == ThreadTypes /\ QueueOK /\ Posted /\ WorkersOK

\* What every reachable state satisfies, strong enough to be inductive.
IInv == FieldTypes /\ Threads /\ CrashOnlyAfterDestroy /\ ReadingCurrent /\ Display

\* The types of the module.
LEMMA TypeParts == FieldTypes /\ ThreadTypes /\ Posted => TypeOK
  BY DEF FieldTypes, ThreadTypes, Posted, TypeOK

-----------------------------------------------------------------------------
(* What a step does to the threads *)

\* No operation is called as the other jobs are.
LEMMA Jobs == "none" \notin Clicks /\ "demo" \notin Clicks /\ "select" \notin Clicks
  BY AppAssumption

\* Nothing happens to them.
LEMMA ThreadsKept ==
    ASSUME Threads, UNCHANGED <<threads, queue>>
    PROVE  Threads' /\ (Pending => Pending')
<1>1. UNCHANGED <<job, at, name, note, queue>>
  BY DEF threads
<1> QED
  BY <1>1 DEF Threads, ThreadTypes, QueueOK, Posted, WorkersOK, Pending

\* A click or the connection starts one.
LEMMA ThreadStarted ==
    ASSUME Threads, UNCHANGED queue, NEW j \in {"demo", "select"} \cup Clicks,
           NEW first \in {"check", "call"}, NEW c \in Container \cup {None},
           j = "select" => c \in Container, Spawn(j, first, c)
    PROVE  Threads' /\ (Pending => Pending')
<1>1. PICK w \in Worker : /\ job[w] = "none"
                          /\ job' = [job EXCEPT ![w] = j] /\ at' = [at EXCEPT ![w] = first]
                          /\ name' = [name EXCEPT ![w] = c] /\ UNCHANGED note
  BY DEF Spawn
<1>2. at[w] = "check"
  BY <1>1 DEF Threads, WorkersOK
<1>3. ThreadTypes'
  BY <1>1 DEF Threads, ThreadTypes
<1>4. QueueOK'
  BY DEF Threads, QueueOK
<1>5. Posted'
  BY <1>1, <1>2 DEF Threads, Posted, ThreadTypes
<1>6. WorkersOK'
  BY <1>1, Jobs DEF Threads, WorkersOK, ThreadTypes
<1>7. Pending => Pending'
  BY <1>1 DEF Threads, Pending, ThreadTypes
<1> QED
  BY <1>3, <1>4, <1>5, <1>6, <1>7 DEF Threads

\* One takes a step, and does not post yet.
LEMMA ThreadStepped ==
    ASSUME Threads, UNCHANGED <<job, queue>>, NEW w \in Worker, job[w] # "none",
           at[w] \notin {"post", "posted"},
           NEW s \in {"ask", "confirm", "assign", "perform", "post"}, at' = [at EXCEPT ![w] = s],
           NEW r \in Runnable, note' = [note EXCEPT ![w] = r],
           NEW c \in Container \cup {None}, name' = [name EXCEPT ![w] = c],
           job[w] = "select" \/ s = "perform" => c \in Container
    PROVE  Threads' /\ (Pending => Pending')
<1>1. ThreadTypes'
  BY DEF Threads, ThreadTypes
<1>2. QueueOK'
  BY DEF Threads, QueueOK
<1>3. Posted'
  BY DEF Threads, Posted, ThreadTypes
<1>4. WorkersOK'
  BY DEF Threads, WorkersOK, ThreadTypes
<1>5. Pending => Pending'
  BY DEF Threads, Pending, ThreadTypes
<1> QED
  BY <1>1, <1>2, <1>3, <1>4, <1>5 DEF Threads

\* One posts its runnable.
LEMMA ThreadPosted ==
    ASSUME Threads, NEW w \in Worker, Post(w)
    PROVE  Threads' /\ (Pending => Pending')
<1>1. /\ job[w] # "none" /\ at[w] = "post" /\ UNCHANGED <<job, name, note>>
      /\ queue' = Append(queue, w) /\ at' = [at EXCEPT ![w] = "posted"]
  BY DEF Post, Go
<1>2. queue \in Seq(Worker) /\ Len(queue) \in Nat /\ \A i \in 1..Len(queue) : queue[i] # w
  BY <1>1 DEF Threads, QueueOK, Posted
<1>3. /\ queue' \in Seq(Worker) /\ Len(queue') = Len(queue) + 1
      /\ \A i \in 1..Len(queue) : queue'[i] = queue[i]
      /\ queue'[Len(queue) + 1] = w
  BY <1>1, <1>2
<1>4. DOMAIN queue = 1..Len(queue) /\ DOMAIN queue' = 1..(Len(queue) + 1)
  BY <1>2, <1>3
<1>5. ThreadTypes'
  BY <1>1 DEF Threads, ThreadTypes
<1>6. QueueOK'
  <2>1. \A i \in 1..Len(queue'), j \in 1..Len(queue') : queue'[i] = queue'[j] => i = j
    BY <1>2, <1>3 DEF Threads, QueueOK
  <2> QED
    BY <1>3, <2>1 DEF QueueOK
<1>7. Posted'
  <2>1. \A u \in Worker : (\E i \in DOMAIN queue' : queue'[i] = u)
                             <=> (u = w \/ \E i \in DOMAIN queue : queue[i] = u)
    BY <1>2, <1>3, <1>4
  <2>2. \A u \in Worker : at'[u] = "posted" <=> (u = w \/ at[u] = "posted")
    BY <1>1 DEF Threads, ThreadTypes
  <2> QED
    BY <2>1, <2>2 DEF Threads, Posted
<1>8. WorkersOK'
  BY <1>1 DEF Threads, WorkersOK, ThreadTypes
<1>9. Pending => Pending'
  BY <1>1 DEF Threads, Pending, ThreadTypes
<1> QED
  BY <1>5, <1>6, <1>7, <1>8, <1>9 DEF Threads

\* The runnable of one is run.
LEMMA ThreadFreed ==
    ASSUME Threads, queue # <<>>, queue' = Tail(queue), NEW w, w = Head(queue), Free(w)
    PROVE  /\ w \in Worker /\ Threads'
           /\ Pending /\ note[w] # "info" => Pending'
<1>1. queue \in Seq(Worker) /\ Len(queue) \in Nat /\ Len(queue) >= 1
  BY DEF Threads, QueueOK
<1>2. /\ w \in Worker /\ w = queue[1] /\ queue' \in Seq(Worker)
      /\ Len(queue') = Len(queue) - 1
      /\ \A i \in 1..Len(queue') : queue'[i] = queue[i + 1]
  BY <1>1, HeadTailProperties
<1>3. DOMAIN queue = 1..Len(queue) /\ DOMAIN queue' = 1..(Len(queue) - 1)
  BY <1>1, <1>2
<1>4. /\ job' = [job EXCEPT ![w] = "none"] /\ at' = [at EXCEPT ![w] = "check"]
      /\ name' = [name EXCEPT ![w] = None] /\ note' = [note EXCEPT ![w] = "toast"]
  BY DEF Free
<1>5. ThreadTypes'
  BY <1>2, <1>4 DEF Threads, ThreadTypes, Runnable
<1>6. \A i \in 1..Len(queue), j \in 1..Len(queue) : queue[i] = queue[j] => i = j
  BY DEF Threads, QueueOK
<1>7. QueueOK'
  <2>1. ASSUME NEW i \in 1..Len(queue'), NEW j \in 1..Len(queue'), queue'[i] = queue'[j]
        PROVE  i = j
    <3>1. i + 1 \in 1..Len(queue) /\ j + 1 \in 1..Len(queue) /\ i \in Int /\ j \in Int
      BY <1>1, <1>2
    <3>2. queue[i + 1] = queue[j + 1]
      BY <1>2, <2>1
    <3>3. i + 1 = j + 1
      BY <1>6, <3>1, <3>2
    <3> QED
      BY <3>1, <3>3
  <2> QED
    BY <1>2, <2>1 DEF QueueOK
<1>8. Posted'
  <2>1. ASSUME NEW u \in Worker
        PROVE  (\E i \in DOMAIN queue' : queue'[i] = u)
                  <=> (u # w /\ \E i \in DOMAIN queue : queue[i] = u)
    <3>1. ASSUME NEW i \in DOMAIN queue', queue'[i] = u
          PROVE  u # w /\ \E k \in DOMAIN queue : queue[k] = u
      <4>1. i \in Int /\ 1 <= i /\ i + 1 \in 1..Len(queue) /\ 1 \in 1..Len(queue)
        BY <1>1, <1>3
      <4>2. queue[i + 1] = u
        BY <1>2, <1>3, <3>1
      <4>3. u # w
        BY <1>2, <1>6, <4>1, <4>2
      <4> QED
        BY <1>3, <4>1, <4>2, <4>3
    <3>2. ASSUME u # w, NEW k \in DOMAIN queue, queue[k] = u
          PROVE  \E i \in DOMAIN queue' : queue'[i] = u
      <4>1. k \in Int /\ k # 1
        BY <1>2, <1>3, <3>2
      <4>2. k - 1 \in DOMAIN queue' /\ (k - 1) + 1 = k
        BY <1>1, <1>3, <4>1
      <4> QED
        BY <1>2, <1>3, <3>2, <4>2
    <3> QED
      BY <3>1, <3>2
  <2>2. \A u \in Worker : at'[u] = "posted" <=> (u # w /\ at[u] = "posted")
    BY <1>4 DEF Threads, ThreadTypes
  <2> QED
    BY <2>1, <2>2 DEF Threads, Posted
<1>9. WorkersOK'
  BY <1>2, <1>4, Jobs DEF Threads, WorkersOK, ThreadTypes
<1>10. Pending /\ note[w] # "info" => Pending'
  BY <1>2, <1>4 DEF Threads, Pending, ThreadTypes
<1> QED
  BY <1>2, <1>5, <1>7, <1>8, <1>9, <1>10 DEF Threads

-----------------------------------------------------------------------------
(* The UI thread *)

\* A step that leaves alone what the UI shows and reads.
LEMMA ScreenKept ==
    ASSUME IInv, UNCHANGED <<world, told, conn, manager, binding, current, crashed, info, shown>>,
           UNCHANGED up \/ up' = FALSE, Threads', Pending => Pending'
    PROVE  IInv'
<1>1. FieldTypes'
  BY DEF IInv, FieldTypes
<1>2. CrashOnlyAfterDestroy' /\ ReadingCurrent'
  BY DEF IInv, CrashOnlyAfterDestroy, ReadingCurrent
<1>3. ASSUME NEW d, UpToDate(d)
      PROVE  UpToDate(d)'
  BY <1>3 DEF UpToDate
<1>4. Display'
  BY <1>3 DEF IInv, Display
<1> QED
  BY <1>1, <1>2, <1>4 DEF IInv

\* A step at which the UI thread forgets the container, or the text is not that of
\* one: nothing is left to be up to date.
LEMMA NothingShown ==
    ASSUME IInv, Threads', FieldTypes', UNCHANGED binding, info' = None,
           crashed' = FALSE \/ crashed' = ~binding, current' = None \/ shown'.text # "info"
    PROVE  IInv'
<1>1. CrashOnlyAfterDestroy'
  BY DEF CrashOnlyAfterDestroy
<1>2. ReadingCurrent' /\ Display'
  BY DEF ReadingCurrent, Display
<1> QED
  BY <1>1, <1>2 DEF IInv

\* The clicks of the user.
LEMMA UserStep ==
    ASSUME IInv, User
    PROVE  IInv'
<1>1. Threads /\ FieldTypes
  BY DEF IInv
<1>2. CASE ClickRefresh
  <2>1. CASE manager /\ Spawn("demo", "check", None) /\ UNCHANGED shown
    <3>1. UNCHANGED <<world, up, told, conn, manager, binding, current, crashed, queue, info, shown>>
      BY <1>2, <2>1 DEF ClickRefresh, service, fields
    <3>2. Threads' /\ (Pending => Pending')
      BY <1>1, <2>1, <3>1, ThreadStarted
    <3> QED
      BY <3>1, <3>2, ScreenKept
  <2>2. CASE shown' = Text("wait") /\ UNCHANGED threads
    <3>1. UNCHANGED <<world, up, told, conn, manager, binding, current, crashed, queue, info>>
          /\ info = None /\ crashed = FALSE
      BY <1>1, <1>2, <2>2 DEF ClickRefresh, service, fields, Clickable, UiIdle, FieldTypes
    <3>2. Threads'
      BY <1>1, <2>2, <3>1, ThreadsKept
    <3>3. shown'.text = "wait" /\ shown'.about = None
      BY <2>2 DEF Text
    <3>4. FieldTypes'
      BY <1>1, <3>1, <3>3 DEF FieldTypes
    <3> QED
      BY <3>1, <3>2, <3>3, <3>4, NothingShown
  <2> QED
    BY <1>2, <2>1, <2>2 DEF ClickRefresh
<1>3. CASE \E c \in Container : ClickSelect(c)
  <2>1. PICK c \in Container : Spawn("select", "check", c) /\ UNCHANGED <<service, fields, screen>>
    BY <1>3 DEF ClickSelect
  <2>2. UNCHANGED <<world, up, told, conn, manager, binding, current, crashed, queue, info, shown>>
    BY <2>1 DEF service, fields, screen
  <2>3. Threads' /\ (Pending => Pending')
    BY <1>1, <2>1, <2>2, ThreadStarted
  <2> QED
    BY <2>2, <2>3, ScreenKept
<1>4. CASE \E op \in Clicks : ClickOperation(op)
  <2>1. PICK op \in Clicks : Spawn(op, "call", None) /\ UNCHANGED <<service, fields, screen>>
    BY <1>4 DEF ClickOperation
  <2>2. UNCHANGED <<world, up, told, conn, manager, binding, current, crashed, queue, info, shown>>
    BY <2>1 DEF service, fields, screen
  <2>3. Threads' /\ (Pending => Pending')
    BY <1>1, <2>1, <2>2, ThreadStarted, Jobs
  <2> QED
    BY <2>2, <2>3, ScreenKept
<1>5. CASE OnDestroy
  <2>1. /\ UNCHANGED <<world, up, crashed, queue, info, shown>> /\ UNCHANGED <<threads, queue>>
        /\ binding' = FALSE /\ info = None /\ crashed = FALSE
        /\ current' = None \/ UNCHANGED current
    BY <1>1, <1>5 DEF OnDestroy, ForgetService, Clickable, UiIdle, service, screen, FieldTypes
  <2>2. Threads' /\ (Pending => Pending')
    BY <1>1, <2>1, ThreadsKept
  <2>3. FieldTypes'
    BY <1>1, <1>5, <2>1 DEF OnDestroy, ForgetService, FieldTypes
  <2>4. CrashOnlyAfterDestroy' /\ ReadingCurrent'
    BY <2>1 DEF CrashOnlyAfterDestroy, ReadingCurrent
  <2>5. Display'
    <3>1. CASE current' = None
      BY <3>1 DEF Display
    <3>2. CASE UNCHANGED current
      <4>1. ASSUME NEW d, UpToDate(d)
            PROVE  UpToDate(d)'
        BY <2>1, <3>2, <4>1 DEF UpToDate
      <4> QED
        BY <2>1, <2>2, <3>2, <4>1 DEF IInv, Display
    <3> QED
      BY <2>1, <3>1, <3>2
  <2> QED
    BY <2>2, <2>3, <2>4, <2>5 DEF IInv
<1> QED
  BY <1>2, <1>3, <1>4, <1>5 DEF User

\* The callbacks of the connection.
LEMMA ConnectionStep ==
    ASSUME IInv, OnServiceConnected \/ OnServiceDisconnected
    PROVE  IInv'
<1>1. Threads /\ FieldTypes
  BY DEF IInv
<1>2. CASE OnServiceConnected
  <2>1. /\ UNCHANGED <<world, up, conn, current, binding, queue, info, shown>>
        /\ told' = "connected" /\ manager' \in BOOLEAN /\ info = None /\ crashed = FALSE
        /\ crashed' = ~binding
        /\ Spawn("demo", "check", None) \/ UNCHANGED threads
    BY <1>1, <1>2 DEF OnServiceConnected, service, UiIdle, FieldTypes
  <2>2. Threads' /\ (Pending => Pending')
    BY <1>1, <2>1, ThreadStarted, ThreadsKept
  <2>3. FieldTypes'
    BY <1>1, <2>1 DEF FieldTypes
  <2>4. CrashOnlyAfterDestroy' /\ ReadingCurrent'
    BY <2>1 DEF CrashOnlyAfterDestroy, ReadingCurrent
  <2>5. ASSUME NEW d, UpToDate(d)
        PROVE  UpToDate(d)'
    BY <2>1, <2>5 DEF UpToDate
  <2>6. Display'
    BY <2>1, <2>2, <2>5 DEF IInv, Display
  <2> QED
    BY <2>2, <2>3, <2>4, <2>6 DEF IInv
<1>3. CASE OnServiceDisconnected
  <2>1. /\ UNCHANGED <<world, up, binding, queue, info, shown>> /\ UNCHANGED <<threads, queue>>
        /\ told' = "disconnected" /\ conn' = FALSE /\ manager' = FALSE /\ current' = None
        /\ info = None /\ crashed' = ~binding
    BY <1>3 DEF OnServiceDisconnected, ForgetService, service, UiIdle
  <2>2. Threads'
    BY <1>1, <2>1, ThreadsKept
  <2>3. FieldTypes'
    BY <1>1, <2>1 DEF FieldTypes
  <2> QED
    BY <2>1, <2>2, <2>3, NothingShown
<1> QED
  BY <1>2, <1>3

\* The next runnable.
LEMMA RunNextStep ==
    ASSUME IInv, RunNext
    PROVE  IInv'
<1> DEFINE w == Head(queue)
<1>1. Threads /\ FieldTypes /\ info = None /\ crashed = FALSE /\ UNCHANGED <<world, up>>
  BY DEF IInv, RunNext, UiIdle, service, FieldTypes
<1>2. queue # <<>> /\ queue' = Tail(queue) /\ Free(w)
  BY DEF RunNext
<1> HIDE DEF w
<1>3. w \in Worker /\ Threads' /\ (Pending /\ note[w] # "info" => Pending')
  BY <1>1, <1>2, ThreadFreed DEF w
<1>4. note[w] \in {"toast", "text", "info", "destroyed"}
  BY <1>1, <1>3 DEF Threads, ThreadTypes, Runnable
<1>5. CASE note[w] = "toast"
  <2>1. UNCHANGED <<told, conn, manager, current, binding, crashed, info, shown>>
    BY <1>5 DEF RunNext, fields, w
  <2> QED
    BY <1>1, <1>3, <1>5, <2>1, ScreenKept
<1>6. CASE note[w] = "text"
  <2>1. /\ UNCHANGED <<told, conn, manager, current, binding, info>>
        /\ crashed' = ~binding /\ shown' = IF binding THEN Text("demo") ELSE shown
    BY <1>6 DEF RunNext, fields, w
  <2>2. shown'.text \in {"start", "wait", "demo", "destroyed", "info"}
        /\ shown'.about \in Info \cup {None} /\ (binding => shown'.text = "demo")
    BY <1>1, <2>1 DEF FieldTypes, Text
  <2>3. FieldTypes'
    BY <1>1, <2>1, <2>2 DEF FieldTypes
  <2>4. CrashOnlyAfterDestroy' /\ ReadingCurrent' /\ Display'
    BY <1>1, <2>1, <2>2 DEF CrashOnlyAfterDestroy, ReadingCurrent, Display
  <2> QED
    BY <1>3, <2>3, <2>4 DEF IInv
<1>7. CASE note[w] = "info"
  <2>1. /\ UNCHANGED <<told, conn, manager, current, binding, crashed, shown>>
        /\ info' = IF current = None THEN None
                   ELSE [name |-> current, of |-> {current}, n |-> 1, run |-> "UNKNOWN"]
    BY <1>7 DEF RunNext, fields, w
  <2>2. CASE current = None
    BY <1>1, <1>3, <2>1, <2>2, NothingShown DEF FieldTypes
  <2>3. CASE current # None
    <3> DEFINE d == [name |-> current, of |-> {current}, n |-> 1, run |-> "UNKNOWN"]
    <3>1. info' = d /\ d \in Info /\ d # None
      BY <1>1, <2>1, <2>3, AppAssumption DEF FieldTypes, Info, Reads
    <3>2. d.of = {current} /\ d.name = current /\ d.run = "UNKNOWN"
      OBVIOUS
    <3> HIDE DEF d
    <3>3. FieldTypes'
      BY <1>1, <2>1, <3>1 DEF FieldTypes
    <3>4. CrashOnlyAfterDestroy' /\ ReadingCurrent'
      BY <1>1, <2>1, <2>3 DEF CrashOnlyAfterDestroy, ReadingCurrent
    <3>5. UpToDate(info)'
      BY <2>1, <3>1, <3>2 DEF UpToDate
    <3>6. Display'
      BY <3>1, <3>5 DEF Display
    <3> QED
      BY <1>3, <3>3, <3>4, <3>6 DEF IInv
  <2> QED
    BY <2>2, <2>3
<1>8. CASE note[w] = "destroyed"
  <2>1. /\ UNCHANGED <<told, conn, manager, binding, info>> /\ current' = None
        /\ crashed' = ~binding /\ shown' = IF binding THEN Text("destroyed") ELSE shown
    BY <1>8 DEF RunNext, w
  <2>2. shown'.text \in {"start", "wait", "demo", "destroyed", "info"}
        /\ shown'.about \in Info \cup {None}
    BY <1>1, <2>1 DEF FieldTypes, Text
  <2>3. FieldTypes'
    BY <1>1, <2>1, <2>2 DEF FieldTypes
  <2> QED
    BY <1>1, <1>3, <2>1, <2>3, NothingShown
<1> QED
  BY <1>4, <1>5, <1>6, <1>7, <1>8

\* One more line of the information, which is about the current container as
\* those before it, unless it will be read again.
LEMMA ReadInfoStep ==
    ASSUME IInv, ReadInfo
    PROVE  IInv'
<1>1. /\ Threads /\ FieldTypes /\ info \in Info /\ info.n < Reads /\ crashed = FALSE
      /\ current # None /\ current \in Container
  BY DEF IInv, ReadInfo, ReadingCurrent, FieldTypes
<1>2. UNCHANGED <<world, up, told, conn, manager, current, binding, queue, shown, crashed, threads>>
  BY <1>1 DEF ReadInfo, service, fields
<1>3. Threads' /\ (Pending => Pending')
  BY <1>1, <1>2, ThreadsKept
<1>4. PICK s \in {info.run} \cup (IF up THEN {world[current].run} ELSE {}) :
        info' = [info EXCEPT !.n = info.n + 1, !.of = info.of \cup {current},
                             !.run = IF info.n = 1 THEN s ELSE info.run]
  BY <1>1 DEF ReadInfo
<1>5. /\ info.n \in 1..5 /\ info.name \in Container /\ info.of \in SUBSET Container
      /\ info.run \in RunState \cup {"UNKNOWN"}
  BY <1>1 DEF Info, Reads
<1>6. s \in {info.run, world[current].run} /\ s \in RunState \cup {"UNKNOWN"}
  BY <1>1, <1>4, <1>5 DEF FieldTypes, World, Record
<1> DEFINE r == IF info.n = 1 THEN s ELSE info.run
           o == info.of \cup {current}
           n == info.n + 1
<1>7. n \in 1..Reads /\ o \in SUBSET Container /\ r \in RunState \cup {"UNKNOWN"}
      /\ r \in {info.run, world[current].run}
  BY <1>1, <1>5, <1>6 DEF Reads
<1>8. o = info.of \cup {current}
  OBVIOUS
<1>9. info' = [info EXCEPT !.n = n, !.of = o, !.run = r]
  BY <1>4
<1> HIDE DEF r, o, n
<1>10. info' \in Info
  BY <1>1, <1>7, <1>9 DEF Info
<1>11. info'.of = o
  BY <1>1, <1>9 DEF Info
<1>12. info'.run = r
  BY <1>1, <1>9 DEF Info
<1>13. info'.name = info.name
  BY <1>1, <1>9 DEF Info
<1>14. FieldTypes'
  BY <1>1, <1>2, <1>10 DEF FieldTypes
<1>15. CrashOnlyAfterDestroy' /\ ReadingCurrent'
  BY <1>1, <1>2 DEF CrashOnlyAfterDestroy, ReadingCurrent
<1>16. ASSUME UpToDate(info)
       PROVE  UpToDate(info)'
  <2>1. info'.of = {current'} /\ info'.name = current'
    BY <1>2, <1>8, <1>11, <1>13, <1>16 DEF UpToDate
  <2>2. DeviceActs \/ ~up' \/ info'.run \in {"UNKNOWN", world'[current'].run}
    BY <1>2, <1>7, <1>12, <1>16 DEF UpToDate
  <2> QED
    BY <2>1, <2>2 DEF UpToDate
<1>17. info # None /\ info' # None
  BY <1>1, <1>10, AppAssumption
<1>18. Display'
  BY <1>1, <1>2, <1>3, <1>16, <1>17 DEF IInv, Display
<1> QED
  BY <1>3, <1>14, <1>15, <1>18 DEF IInv

\* The information is shown.
LEMMA ShowInfoStep ==
    ASSUME IInv, ShowInfo
    PROVE  IInv'
<1>1. /\ Threads /\ FieldTypes /\ info \in Info /\ info # None /\ info' = None
      /\ crashed = FALSE /\ crashed' = ~binding
      /\ UNCHANGED <<world, up, told, conn, manager, current, binding, queue, threads>>
  BY DEF IInv, ShowInfo, FieldTypes, service, fields
<1>2. Threads' /\ (Pending => Pending')
  BY <1>1, ThreadsKept
<1>3. shown' = IF binding THEN [text |-> "info", about |-> info] ELSE shown
  BY DEF ShowInfo
<1>4. shown'.text \in {"start", "wait", "demo", "destroyed", "info"}
      /\ shown'.about \in Info \cup {None} /\ (binding => shown'.about = info)
  BY <1>1, <1>3 DEF FieldTypes
<1>5. FieldTypes'
  BY <1>1, <1>4 DEF FieldTypes
<1>6. CrashOnlyAfterDestroy' /\ ReadingCurrent'
  BY <1>1 DEF CrashOnlyAfterDestroy, ReadingCurrent
<1>7. ASSUME UpToDate(info), shown'.about = info
      PROVE  UpToDate(shown.about)'
  BY <1>1, <1>7 DEF UpToDate
<1>8. Display'
  BY <1>1, <1>2, <1>4, <1>7 DEF IInv, Display
<1> QED
  BY <1>2, <1>5, <1>6, <1>8 DEF IInv

-----------------------------------------------------------------------------
(* Background threads *)

\* An operation leaves a container in the state it was in, or the thread will
\* post that its information be read again.
LEMMA OperationTold ==
    ASSUME NEW op \in Clicks, NEW r \in Record, NEW o \in Outcomes(op, r)
    PROVE  /\ o.rec \in Record /\ AfterCall(op, o.ret) \in Runnable
           /\ o.rec.run = r.run \/ AfterCall(op, o.ret) = "info"
<1>1. op \in {"startContainer", "stopContainer", "freezeContainer", "unfreezeContainer",
              "destroyContainer", "createSnapshot"}
  BY AppAssumption
<1>2. AfterCall(op, o.ret) \in Runnable
  BY DEF AfterCall, Runnable
<1>3. \A new, can : o \in Attempt(r, can, new) => o.rec = r \/ (can /\ o.rec = new /\ o.ret = JNI_TRUE)
  BY DEF Attempt, Outcome
<1>4. CASE op \in {"startContainer", "stopContainer", "freezeContainer", "unfreezeContainer"}
  <2>1. o \in Start(r) \cup Stop(r) \cup Freeze(r) \cup Unfreeze(r)
    BY <1>4 DEF Outcomes
  <2>2. o.rec \in Record
    BY <2>1, LibraryTypes
  <2>3. o.rec = r \/ o.ret = JNI_TRUE
    BY <1>3, <2>1 DEF Start, Stop, Freeze, Unfreeze
  <2> QED
    BY <1>2, <1>4, <2>2, <2>3 DEF AfterCall
<1>5. CASE op = "destroyContainer"
  <2>1. o \in Destroy(r)
    BY <1>5 DEF Outcomes
  <2>2. o.rec \in Record
    BY <2>1, LibraryTypes
  <2>3. o.rec = r \/ (r.run = "STOPPED" /\ o.rec = Undefined)
    BY <1>3, <2>1 DEF Destroy
  <2>4. Undefined.run = "STOPPED"
    BY DEF Undefined
  <2> QED
    BY <1>2, <2>2, <2>3, <2>4
<1>6. CASE op = "createSnapshot"
  <2>1. o \in Snapshot(r)
    BY <1>6 DEF Outcomes
  <2>2. o.rec \in Record
    BY <2>1, LibraryTypes
  <2>3. o.rec = r \/ o.rec = [r EXCEPT !.snaps = r.snaps + 1]
    BY <2>1 DEF Snapshot, Outcome
  <2>4. [r EXCEPT !.snaps = r.snaps + 1].run = r.run
    BY DEF Record
  <2> QED
    BY <1>2, <2>2, <2>3, <2>4
<1> QED
  BY <1>1, <1>4, <1>5, <1>6

\* The steps of a background thread.
LEMMA WorkStep ==
    ASSUME IInv, NEW w \in Worker, Work(w)
    PROVE  IInv'
<1>1. /\ Threads /\ FieldTypes /\ ThreadTypes /\ crashed = FALSE
      /\ job[w] = "select" \/ (job[w] \in Clicks /\ at[w] = "perform") => name[w] \in Container
  BY DEF IInv, Threads, WorkersOK, Work, FieldTypes
<1>2. ASSUME NEW s \in {"ask", "confirm", "assign", "post"}, Go(w, s), UNCHANGED <<job, name, queue>>,
             UNCHANGED note \/ \E r \in Runnable : note' = [note EXCEPT ![w] = r],
             job[w] # "none", at[w] \notin {"post", "posted"}
      PROVE  Threads' /\ (Pending => Pending')
  <2>1. name' = [name EXCEPT ![w] = name[w]] /\ name[w] \in Container \cup {None}
    BY <1>1, <1>2 DEF ThreadTypes
  <2>2. \E r \in Runnable : note' = [note EXCEPT ![w] = r]
    BY <1>1, <1>2 DEF ThreadTypes
  <2> QED
    BY <1>1, <1>2, <2>1, <2>2, ThreadStepped DEF Go
<1>3. CASE CheckManager(w)
  <2>1. UNCHANGED <<world, up, told, conn, manager, current, binding, crashed, info, shown, queue, job, name>>
        /\ job[w] # "none" /\ at[w] \notin {"post", "posted"}
    BY <1>3 DEF CheckManager, service, fields, screen
  <2>2. \E s \in {"ask", "post"} : Go(w, s)
    BY <1>3 DEF CheckManager, Conclude
  <2>3. UNCHANGED note \/ \E r \in Runnable : note' = [note EXCEPT ![w] = r]
    BY <1>3 DEF CheckManager, Conclude, Runnable
  <2>4. Threads' /\ (Pending => Pending')
    BY <1>2, <2>1, <2>2, <2>3
  <2> QED
    BY <2>1, <2>4, ScreenKept
<1>4. CASE GatherDemo(w)
  <2>1. UNCHANGED <<world, up, told, conn, manager, current, binding, crashed, info, shown, queue, job, name>>
        /\ job[w] # "none" /\ at[w] \notin {"post", "posted"}
    BY <1>4 DEF GatherDemo, service, fields, screen
  <2>2. Go(w, "post") /\ \E r \in Runnable : note' = [note EXCEPT ![w] = r]
    BY <1>4 DEF GatherDemo, Conclude, Runnable
  <2>3. Threads' /\ (Pending => Pending')
    BY <1>2, <2>1, <2>2
  <2> QED
    BY <2>1, <2>3, ScreenKept
<1>5. CASE AskDefined(w)
  <2>1. UNCHANGED <<world, up, told, conn, manager, current, binding, crashed, info, shown, queue, job, name>>
        /\ job[w] # "none" /\ at[w] \notin {"post", "posted"}
    BY <1>5 DEF AskDefined, service, fields, screen
  <2>2. \E s \in {"confirm", "assign", "post"} : Go(w, s)
    BY <1>5 DEF AskDefined, Conclude
  <2>3. UNCHANGED note \/ \E r \in Runnable : note' = [note EXCEPT ![w] = r]
    BY <1>5 DEF AskDefined, Conclude, Runnable
  <2>4. Threads' /\ (Pending => Pending')
    BY <1>2, <2>1, <2>2, <2>3
  <2> QED
    BY <2>1, <2>4, ScreenKept
<1>6. CASE AssignCurrent(w)
  <2>1. /\ UNCHANGED <<world, up, told, conn, manager, binding, crashed, info, shown, queue, job, name>>
        /\ job[w] = "select" /\ at[w] = "assign" /\ current' = name[w] /\ name[w] \in Container
        /\ Go(w, "post") /\ note' = [note EXCEPT ![w] = "info"]
    BY <1>1, <1>6 DEF AssignCurrent, Conclude, service, screen
  <2>2. Threads'
    BY <1>2, <2>1 DEF Runnable
  <2>3. Pending'
    BY <1>1, <2>1 DEF Pending, Go, ThreadTypes
  <2>4. FieldTypes'
    BY <1>1, <2>1 DEF FieldTypes
  <2>5. CrashOnlyAfterDestroy' /\ ReadingCurrent' /\ Display'
    BY <1>1, <2>1, <2>3, AppAssumption DEF CrashOnlyAfterDestroy, ReadingCurrent, Display
  <2> QED
    BY <2>2, <2>4, <2>5 DEF IInv
<1>7. CASE ReadCurrent(w)
  <2>1. UNCHANGED <<world, up, told, conn, manager, current, binding, crashed, info, shown, queue, job>>
        /\ job[w] \in Clicks /\ at[w] = "call"
    BY <1>7 DEF ReadCurrent, service, fields, screen
  <2>2. Threads' /\ (Pending => Pending')
    <3>1. CASE current = None
      BY <1>2, <1>7, <2>1, <3>1, Jobs DEF ReadCurrent, Conclude, Runnable
    <3>2. CASE current # None
      <4>1. current \in Container /\ Go(w, "perform") /\ name' = [name EXCEPT ![w] = current]
            /\ note' = [note EXCEPT ![w] = note[w]] /\ note[w] \in Runnable
        BY <1>1, <1>7, <3>2 DEF ReadCurrent, FieldTypes, ThreadTypes
      <4> QED
        BY <1>1, <2>1, <4>1, ThreadStepped, Jobs DEF Go
    <3> QED
      BY <3>1, <3>2
  <2> QED
    BY <2>1, <2>2, ScreenKept
<1>8. CASE PerformCall(w)
  <2>1. /\ UNCHANGED <<told, conn, manager, current, binding, crashed, info, shown, queue, job, name>>
        /\ job[w] \in Clicks /\ at[w] = "perform" /\ name[w] \in Container
    BY <1>1, <1>8 DEF PerformCall, fields, screen
  <2>2. \A r \in Runnable : Conclude(w, r) => Threads' /\ (Pending => Pending')
    BY <1>2, <2>1, Jobs DEF Conclude
  <2>3. CASE ~up /\ Conclude(w, "toast") /\ UNCHANGED service
    BY <2>1, <2>2, <2>3, ScreenKept DEF service, Runnable
  <2>4. ASSUME NEW o \in Outcomes(job[w], world[name[w]]),
               world' = [world EXCEPT ![name[w]] = o.rec],
               \/ Conclude(w, AfterCall(job[w], o.ret)) /\ UNCHANGED up
               \/ Conclude(w, "toast") /\ up' = FALSE
        PROVE  IInv'
    <3>1. world[name[w]] \in Record
      BY <1>1, <2>1 DEF FieldTypes, World
    <3>2. /\ o.rec \in Record /\ AfterCall(job[w], o.ret) \in Runnable
          /\ o.rec.run = world[name[w]].run \/ AfterCall(job[w], o.ret) = "info"
      BY <2>1, <3>1, OperationTold
    <3>3. Threads' /\ (Pending => Pending')
      BY <2>2, <2>4, <3>2 DEF Runnable
    <3>4. FieldTypes'
      BY <1>1, <2>1, <2>4, <3>2 DEF FieldTypes, World
    <3>5. CrashOnlyAfterDestroy' /\ ReadingCurrent'
      BY <2>1 DEF IInv, CrashOnlyAfterDestroy, ReadingCurrent
    <3>6. CASE Conclude(w, "info")
      <4>1. Pending'
        BY <1>1, <2>1, <3>6, Jobs DEF Pending, Conclude, Go, ThreadTypes
      <4> QED
        BY <3>3, <3>4, <3>5, <4>1 DEF IInv, Display
    <3>7. CASE ~Conclude(w, "info")
      <4>1. up' = FALSE \/ (UNCHANGED up /\ \A c \in Container : world'[c].run = world[c].run)
        BY <1>1, <2>1, <2>4, <3>2, <3>7 DEF FieldTypes, World
      <4>2. ASSUME current # None, NEW d, UpToDate(d)
            PROVE  UpToDate(d)'
        BY <1>1, <2>1, <4>1, <4>2 DEF UpToDate, FieldTypes
      <4>3. Display'
        BY <2>1, <3>3, <4>2 DEF IInv, Display
      <4> QED
        BY <3>3, <3>4, <3>5, <4>3 DEF IInv
    <3> QED
      BY <3>6, <3>7
  <2> QED
    BY <1>8, <2>3, <2>4 DEF PerformCall
<1>9. CASE Post(w)
  <2>1. UNCHANGED <<world, up, told, conn, manager, current, binding, crashed, info, shown>>
    BY <1>9 DEF Post, service, fields
  <2>2. Threads' /\ (Pending => Pending')
    BY <1>1, <1>9, ThreadPosted
  <2> QED
    BY <2>1, <2>2, ScreenKept
<1> QED
  BY <1>3, <1>4, <1>5, <1>6, <1>7, <1>8, <1>9 DEF Work

-----------------------------------------------------------------------------
(* The theorems *)

\* The root process dies, or a container stops by itself.
LEMMA OutsideStep ==
    ASSUME IInv, ServiceDies \/ \E c \in Container : Halt(c)
    PROVE  IInv'
<1>1. Threads /\ FieldTypes
  BY DEF IInv
<1>2. UNCHANGED <<told, conn, manager, current, binding, crashed, info, shown>>
      /\ UNCHANGED <<threads, queue>>
  BY DEF ServiceDies, Halt, fields, screen
<1>3. Threads' /\ (Pending => Pending')
  BY <1>1, <1>2, ThreadsKept
<1>4. CASE ServiceDies
  BY <1>2, <1>3, <1>4, ScreenKept DEF ServiceDies
<1>5. CASE \E c \in Container : Halt(c)
  <2>1. PICK c \in Container : DeviceActs /\ UNCHANGED up
                               /\ world' = [world EXCEPT ![c] = [world[c] EXCEPT !.run = "STOPPED"]]
    BY <1>5 DEF Halt
  <2>2. [world[c] EXCEPT !.run = "STOPPED"] \in Record
    BY <1>1, RecordTypes DEF FieldTypes, World, RunState
  <2>3. FieldTypes'
    BY <1>1, <1>2, <2>1, <2>2 DEF FieldTypes, World
  <2>4. CrashOnlyAfterDestroy' /\ ReadingCurrent'
    BY <1>2 DEF IInv, CrashOnlyAfterDestroy, ReadingCurrent
  <2>5. ASSUME NEW d, UpToDate(d)
        PROVE  UpToDate(d)'
    BY <1>2, <2>1, <2>5 DEF UpToDate
  <2>6. Display'
    BY <1>2, <1>3, <2>5 DEF IInv, Display
  <2> QED
    BY <1>3, <2>3, <2>4, <2>6 DEF IInv
<1> QED
  BY <1>4, <1>5

\* The initial state.
LEMMA IInvInit == Init => IInv
<1> SUFFICES ASSUME Init PROVE IInv
  OBVIOUS
<1>1. world \in World
  <2>1. EmptyConf \in Conf
    BY DEF EmptyConf, Conf
  <2> QED
    BY <2>1, RecordTypes DEF Init, World
<1>2. shown.text = "start" /\ shown.about = None
  BY DEF Init, Text
<1>3. FieldTypes
  BY <1>1, <1>2 DEF Init, FieldTypes
<1>4. Threads
  <2>1. ThreadTypes
    BY DEF Init, ThreadTypes, Runnable
  <2>2. QueueOK /\ Posted
    BY DEF Init, QueueOK, Posted
  <2>3. WorkersOK
    BY Jobs DEF Init, WorkersOK
  <2> QED
    BY <2>1, <2>2, <2>3 DEF Threads
<1>5. CrashOnlyAfterDestroy /\ ReadingCurrent /\ Display
  BY <1>2 DEF Init, CrashOnlyAfterDestroy, ReadingCurrent, Display
<1> QED
  BY <1>3, <1>4, <1>5 DEF IInv

\* Every step.
LEMMA IInvStep ==
    ASSUME IInv, [Next]_vars
    PROVE  IInv'
<1>1. CASE UNCHANGED vars
  <2>1. UNCHANGED <<world, up, told, conn, manager, current, binding, crashed, info, shown>>
        /\ UNCHANGED <<threads, queue>>
    BY <1>1 DEF vars, service, fields, screen
  <2>2. Threads' /\ (Pending => Pending')
    BY <2>1, ThreadsKept DEF IInv
  <2> QED
    BY <2>1, <2>2, ScreenKept
<1>2. CASE Next
  BY <1>2, UserStep, ConnectionStep, RunNextStep, ReadInfoStep, ShowInfoStep, WorkStep, OutsideStep
     DEF Next, Ui
<1> QED
  BY <1>1, <1>2

\* The invariant holds in every reachable state.
LEMMA Invariance == Spec => []IInv
  BY IInvInit, IInvStep, PTL DEF Spec

\* The fields the threads share have their types, and every runnable that waits is
\* that of one thread that has posted it.
THEOREM TypeCorrect == Spec => []TypeOK
<1>1. IInv => TypeOK
  BY TypeParts DEF IInv, Threads
<1> QED
  BY <1>1, Invariance, PTL

\* No exception escapes on the UI thread while the activity lives, whatever the
\* background threads, the connection and the root process do.
THEOREM NoCrashWhileAlive == Spec => []CrashOnlyAfterDestroy
<1>1. IInv => CrashOnlyAfterDestroy
  BY DEF IInv
<1> QED
  BY <1>1, Invariance, PTL

\* When nothing is left to run, the information on the screen is that of the current
\* container, for any number of threads and in whatever order their runnables ran.
THEOREM DisplaySettles == Spec => []SettledDisplayIsCurrent
<1>1. IInv => SettledDisplayIsCurrent
  BY DEF IInv, Display, Pending, Settled, UpToDate, SettledDisplayIsCurrent
<1> QED
  BY <1>1, Invariance, PTL
=============================================================================
