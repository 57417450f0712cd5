------------------------------- MODULE AppUi -------------------------------
(***************************************************************************)
(* MainActivity: the UI thread handles clicks, the service's connection    *)
(* callbacks and the runnables that background threads post to it.  Every  *)
(* click that needs the service starts a background thread; all of them    *)
(* share the fields lxcManager, currentContainer and binding.  A call of   *)
(* the service is one step (LxcService), RemoteException when it is dead.  *)
(***************************************************************************)
EXTENDS LxcLib, Sequences

CONSTANTS
    Worker,      \* bound: background threads whose work is not yet on screen
    Clicks,      \* the operations a user may click
    DeviceActs   \* whether containers also stop by themselves

\* updateContainerInfo reads the name, state, running, defined and interfaces.
Reads == 5

\* What is read of, or shown of, a container: the field currentContainer is
\* read anew for each line, so the lines may be about several containers.
Info == [name : Container, of : SUBSET Container, n : 1..Reads,
         run : RunState \cup {"UNKNOWN"}]

ASSUME AppAssumption ==
    /\ Clicks \subseteq {"startContainer", "stopContainer", "freezeContainer",
                         "unfreezeContainer", "destroyContainer", "createSnapshot"}
    /\ DeviceActs \in BOOLEAN
    /\ None \notin Container /\ None \notin Info

VARIABLES
    world,    \* the containers under the LXC path
    up,       \* the root process is alive
    told,     \* the last callback delivered: "none", "connected", "disconnected"
    conn,     \* aidlConn is not null
    manager,  \* lxcManager is not null
    current,  \* currentContainer, None for null
    binding,  \* binding is not null: the activity is not destroyed
    crashed,  \* an exception escaped on the UI thread
    queue,    \* threads whose runnable waits for the UI thread
    info,     \* what updateContainerInfo has read so far, None when it is not running
    shown,    \* the text of demoOutput
    job,      \* what each background thread does
    at,       \* its next step
    name,     \* the container it works on
    note      \* the runnable it posts

service == <<world, up>>
fields == <<told, conn, manager, current, binding>>
screen == <<crashed, queue, info, shown>>
threads == <<job, at, name, note>>
vars == <<service, fields, screen, threads>>

Runnable == {"toast", "text", "info", "destroyed"}

\* The text of demoOutput, and the container it is about.
Text(s) == [text |-> s, about |-> None]

Init ==
    /\ world \in [Container -> {Undefined, Created(EmptyConf)}]
    /\ up = TRUE /\ told = "none" /\ conn = TRUE /\ manager = FALSE
    /\ current = None /\ binding = TRUE /\ crashed = FALSE
    /\ queue = <<>> /\ info = None /\ shown = Text("start")
    /\ job = [w \in Worker |-> "none"]
    /\ at = [w \in Worker |-> "check"]
    /\ name = [w \in Worker |-> None]
    /\ note = [w \in Worker |-> "toast"]

-----------------------------------------------------------------------------
(* The UI thread: one message at a time *)

UiIdle == info = None /\ ~crashed

\* new Thread(...).start(): a free background thread takes the job.
Spawn(j, first, c) ==
    \E w \in Worker :
        /\ job[w] = "none"
        /\ job' = [job EXCEPT ![w] = j]
        /\ at' = [at EXCEPT ![w] = first]
        /\ name' = [name EXCEPT ![w] = c]
        /\ UNCHANGED note

\* The thread is gone and what it posted has run.
Free(w) ==
    /\ job' = [job EXCEPT ![w] = "none"]
    /\ at' = [at EXCEPT ![w] = "check"]
    /\ name' = [name EXCEPT ![w] = None]
    /\ note' = [note EXCEPT ![w] = "toast"]

\* The user can click while the activity lives.
Clickable == UiIdle /\ binding

\* isServiceAvailable asks the library in this process, not the service, and
\* is true whenever there is a manager.
ClickRefresh ==
    /\ Clickable
    /\ \/ manager /\ Spawn("demo", "check", None) /\ UNCHANGED shown
       \/ ~manager /\ shown' = Text("wait") /\ UNCHANGED threads
    /\ UNCHANGED <<service, fields, crashed, queue, info>>

ClickSelect(c) ==
    /\ Clickable
    /\ Spawn("select", "check", c)
    /\ UNCHANGED <<service, fields, screen>>

\* Without a current container the click only shows a toast.
ClickOperation(op) ==
    /\ Clickable /\ current # None
    /\ Spawn(op, "call", None)
    /\ UNCHANGED <<service, fields, screen>>

\* onServiceConnected: getUid may already find the process dead.
OnServiceConnected ==
    /\ UiIdle /\ told = "none"
    /\ told' = "connected"
    /\ IF up THEN manager' = TRUE ELSE UNCHANGED manager
    /\ crashed' = ~binding
    /\ IF up /\ binding THEN Spawn("demo", "check", None) ELSE UNCHANGED threads
    /\ UNCHANGED <<service, conn, current, binding, queue, info, shown>>

ForgetService ==
    conn' = FALSE /\ manager' = FALSE /\ current' = None

\* A slip: the callback runs between two lines of updateContainerInfo.
DisconnectedMidUpdate ==
    /\ ~crashed /\ told = "connected" /\ (~up \/ ~binding)
    /\ told' = "disconnected"
    /\ ForgetService
    /\ crashed' = ~binding
    /\ UNCHANGED <<service, binding, queue, info, shown, threads>>

\* onServiceDisconnected, after the process died or after unbind.
OnServiceDisconnected ==
    /\ UiIdle /\ told = "connected" /\ (~up \/ ~binding)
    /\ told' = "disconnected"
    /\ ForgetService
    /\ crashed' = ~binding
    /\ UNCHANGED <<service, binding, queue, info, shown, threads>>

\* onDestroy: unbind may run onServiceDisconnected at once or leave it for later.
OnDestroy ==
    /\ Clickable
    /\ binding' = FALSE
    /\ \/ conn /\ told = "connected" /\ told' = "disconnected" /\ ForgetService
       \/ UNCHANGED <<told, conn, manager, current>>
    /\ UNCHANGED <<service, screen, threads>>

\* The next runnable: a toast, the text of demoOutput, a toast and the
\* container's information, or the end of the current container.
RunNext ==
    /\ UiIdle /\ queue # <<>>
    /\ queue' = Tail(queue)
    /\ LET w == Head(queue)
       IN  /\ Free(w)
           /\ CASE note[w] = "toast" -> UNCHANGED <<fields, crashed, info, shown>>
                [] note[w] = "text" ->
                     /\ crashed' = ~binding
                     /\ shown' = IF binding THEN Text("demo") ELSE shown
                     /\ UNCHANGED <<fields, info>>
                [] note[w] = "info" ->
                     /\ info' = IF current = None THEN None
                                ELSE [name |-> current, of |-> {current}, n |-> 1,
                                      run |-> "UNKNOWN"]
                     /\ UNCHANGED <<fields, crashed, shown>>
                [] note[w] = "destroyed" ->
                     /\ current' = None
                     /\ crashed' = ~binding
                     /\ shown' = IF binding THEN Text("destroyed") ELSE shown
                     /\ UNCHANGED <<told, conn, manager, binding, info>>
    /\ UNCHANGED service

\* updateContainerInfo reads the next line from the service.  The state may be
\* unknown: the call fails, or meets a dead process.
ReadInfo ==
    /\ info # None /\ ~crashed /\ info.n < Reads
    /\ IF current = None
       THEN crashed' = TRUE /\ UNCHANGED info
       ELSE /\ \E s \in {info.run} \cup (IF up THEN {world[current].run} ELSE {}) :
                  info' = [info EXCEPT !.n = @ + 1, !.of = @ \cup {current},
                                       !.run = IF info.n = 1 THEN s ELSE @]
            /\ UNCHANGED crashed
    /\ UNCHANGED <<service, fields, queue, shown, threads>>

\* updateContainerInfo sets the text.
ShowInfo ==
    /\ info # None /\ ~crashed /\ info.n = Reads
    /\ crashed' = ~binding
    /\ shown' = IF binding THEN [text |-> "info", about |-> info] ELSE shown
    /\ info' = None
    /\ UNCHANGED <<service, fields, queue, threads>>

-----------------------------------------------------------------------------
(* Background threads *)

Go(w, step) == at' = [at EXCEPT ![w] = step]

\* The thread will post r and end.
Conclude(w, r) ==
    /\ note' = [note EXCEPT ![w] = r]
    /\ Go(w, "post")

\* demoLxcFeatures and selectContainer look at lxcManager first.
CheckManager(w) ==
    /\ job[w] \in {"demo", "select"} /\ at[w] = "check"
    /\ IF manager THEN Go(w, "ask") /\ UNCHANGED note
       ELSE Conclude(w, IF job[w] = "demo" THEN "text" ELSE "toast")
    /\ UNCHANGED <<service, fields, screen, job, name>>

\* demoLxcFeatures gathers its text; a null manager is an exception it shows.
GatherDemo(w) ==
    /\ job[w] = "demo" /\ at[w] = "ask"
    /\ Conclude(w, "text")
    /\ UNCHANGED <<service, fields, screen, job, name>>

\* selectContainer: getContainer asks whether the name is defined; so does
\* isDefined of the container it returns.  The answer is no of a container that
\* is defined too, if the service finds no memory for a handle.
AskDefined(w) ==
    /\ job[w] = "select" /\ at[w] \in {"ask", "confirm"}
    /\ \/ /\ at[w] = "ask" => manager
          /\ up /\ world[name[w]].defined
          /\ Go(w, IF at[w] = "ask" THEN "confirm" ELSE "assign") /\ UNCHANGED note
       \/ Conclude(w, "toast")
    /\ UNCHANGED <<service, fields, screen, job, name>>

AssignCurrent(w) ==
    /\ job[w] = "select" /\ at[w] = "assign"
    /\ current' = name[w]
    /\ Conclude(w, "info")
    /\ UNCHANGED <<service, told, conn, manager, binding, screen, job, name>>

\* A slip: the NullPointerException of a null field ends the thread.
ReadCurrentUncaught(w) ==
    /\ job[w] \in Clicks /\ at[w] = "call" /\ current # None
    /\ name' = [name EXCEPT ![w] = current]
    /\ Go(w, "perform")
    /\ UNCHANGED <<service, fields, screen, job, note>>

\* The field currentContainer is read when the thread runs, not at the click.
ReadCurrent(w) ==
    /\ job[w] \in Clicks /\ at[w] = "call"
    /\ IF current = None THEN Conclude(w, "toast") /\ UNCHANGED name
       ELSE /\ name' = [name EXCEPT ![w] = current]
            /\ Go(w, "perform") /\ UNCHANGED note
    /\ UNCHANGED <<service, fields, screen, job>>

\* The outcomes of the service's operation on container record r.
Outcomes(op, r) ==
    CASE op = "startContainer" -> Start(r)
      [] op = "stopContainer" -> Stop(r)
      [] op = "freezeContainer" -> Freeze(r)
      [] op = "unfreezeContainer" -> Unfreeze(r)
      [] op = "destroyContainer" -> Destroy(r)
      [] op = "createSnapshot" -> Snapshot(r)

\* A slip: a success that updates nothing.
AfterCallQuiet(op, v) ==
    IF v = JNI_TRUE /\ op = "destroyContainer" THEN "destroyed" ELSE "toast"

\* What is posted after an operation that answered v.
AfterCall(op, v) ==
    IF v # JNI_TRUE THEN "toast"
    ELSE IF op = "destroyContainer" THEN "destroyed" ELSE "info"

\* The process may die with the reply: the operation took effect, and fails.
PerformCall(w) ==
    /\ job[w] \in Clicks /\ at[w] = "perform"
    /\ \/ /\ up
          /\ \E o \in Outcomes(job[w], world[name[w]]) :
                /\ world' = [world EXCEPT ![name[w]] = o.rec]
                /\ \/ Conclude(w, AfterCall(job[w], o.ret)) /\ UNCHANGED up
                   \/ Conclude(w, "toast") /\ up' = FALSE
       \/ ~up /\ Conclude(w, "toast") /\ UNCHANGED service
    /\ UNCHANGED <<fields, screen, job, name>>

\* A slip: the handler of an exception posts once more.
PostTwice(w) ==
    /\ job[w] # "none" /\ at[w] = "post"
    /\ queue' = queue \o <<w, w>>
    /\ Go(w, "posted")
    /\ UNCHANGED <<service, fields, crashed, info, shown, job, name, note>>

\* runOnUiThread; the thread ends.
Post(w) ==
    /\ job[w] # "none" /\ at[w] = "post"
    /\ queue' = Append(queue, w)
    /\ Go(w, "posted")
    /\ UNCHANGED <<service, fields, crashed, info, shown, job, name, note>>

-----------------------------------------------------------------------------
(* The root process and the device *)

ServiceDies ==
    /\ up
    /\ up' = FALSE
    /\ UNCHANGED <<world, fields, screen, threads>>

Halt(c) ==
    /\ DeviceActs /\ world[c].run = "RUNNING"
    /\ world' = [world EXCEPT ![c].run = "STOPPED"]
    /\ UNCHANGED <<up, fields, screen, threads>>

User ==
    \/ ClickRefresh \/ OnDestroy
    \/ \E c \in Container : ClickSelect(c)
    \/ \E op \in Clicks : ClickOperation(op)

Ui == RunNext \/ ReadInfo \/ ShowInfo

Work(w) ==
    /\ ~crashed
    /\ \/ CheckManager(w) \/ GatherDemo(w) \/ AskDefined(w) \/ AssignCurrent(w)
       \/ ReadCurrent(w) \/ PerformCall(w) \/ Post(w)

Next ==
    \/ User \/ Ui
    \/ OnServiceConnected \/ OnServiceDisconnected
    \/ \E w \in Worker : Work(w)
    \/ ServiceDies \/ \E c \in Container : Halt(c)

Spec == Init /\ [][Next]_vars

\* The looper runs what is posted to it, threads are scheduled, the service's
\* calls return, and libsu delivers its callbacks; nobody has to click.
FairSpec ==
    /\ Spec
    /\ WF_vars(Ui) /\ WF_vars(OnServiceConnected) /\ WF_vars(OnServiceDisconnected)
    /\ \A w \in Worker : WF_vars(Work(w))

-----------------------------------------------------------------------------
(* Properties *)

TypeOK ==
    /\ world \in World /\ up \in BOOLEAN
    /\ told \in {"none", "connected", "disconnected"}
    /\ conn \in BOOLEAN /\ manager \in BOOLEAN /\ binding \in BOOLEAN
    /\ crashed \in BOOLEAN
    /\ current \in Container \cup {None}
    /\ info \in Info \cup {None}
    /\ shown.text \in {"start", "wait", "demo", "destroyed", "info"}
    /\ shown.about \in Info \cup {None}
    /\ job \in [Worker -> {"none", "demo", "select"} \cup Clicks]
    /\ at \in [Worker -> {"check", "ask", "confirm", "assign", "call", "perform",
                          "post", "posted"}]
    /\ name \in [Worker -> Container \cup {None}]
    /\ note \in [Worker -> Runnable]
    /\ \A w \in Worker :
          at[w] = "posted" <=> \E i \in DOMAIN queue : queue[i] = w

\* No exception escapes on the UI thread while the activity lives, although
\* background threads change currentContainer under updateContainerInfo and the
\* fields are nulled when the service goes.
CrashOnlyAfterDestroy == crashed => ~binding

\* Nothing is left to run.
Settled ==
    ~crashed /\ info = None /\ queue = <<>> /\ \A w \in Worker : job[w] = "none"

\* Once every click has been handled, a container's information on the screen is
\* all about the current container and shows the state it is in, in whatever
\* order threads ran and runnables were posted, as long as the service lives.
SettledDisplayIsCurrent ==
    Settled /\ shown.text = "info" /\ current # None =>
        /\ shown.about.of = {current} /\ shown.about.name = current
        /\ DeviceActs \/ ~up \/ shown.about.run \in {"UNKNOWN", world[current].run}

\* Every click that starts a thread is answered on the screen, or with a toast.
ClickAnswered ==
    \A w \in Worker : job[w] # "none" ~> (job[w] = "none" \/ crashed)

\* "=== Current Container Information ===": the text is about one container.
InfoOfOneContainer ==
    shown.text = "info" => Cardinality(shown.about.of) = 1

\* "LXC service not available, please wait for connection...": waiting helps
\* a user whose connection, which gave a manager, was lost.
WaitingHelps ==
    [](manager => [](shown.text = "wait" /\ told = "disconnected" =>
                       <>(manager \/ ~binding \/ crashed)))
=============================================================================
