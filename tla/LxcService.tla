----------------------------- MODULE LxcService -----------------------------
(***************************************************************************)
(* What the LXC service promises its clients: the AIDL interface           *)
(* IService, as LxcNative.LxcIPC offers it to Binder threads.  Each call   *)
(* takes effect at one instant between its arrival and its reply, on one   *)
(* container, or fails without an effect.  When the root process dies its  *)
(* calls are lost, and the containers stay.                                *)
(***************************************************************************)
EXTENDS LxcLib

CONSTANTS
    Thread,   \* Binder threads of the root process
    Workload  \* the calls clients make

ASSUME ServiceAssumption ==
    /\ Workload \subseteq Call
    /\ None \notin Call
    /\ \A op \in Op : None \notin ResultOf(op)

VARIABLES
    world,  \* the containers under the LXC path
    req,    \* the call each thread serves
    out     \* the value it will return, once the call has taken effect

vars == <<world, req, out>>

Init ==
    /\ world \in [Container -> {Undefined} \cup {Created(f) : f \in Conf}]
    /\ req = [t \in Thread |-> None]
    /\ out = [t \in Thread |-> None]

-----------------------------------------------------------------------------
Receive(t, q) ==
    /\ req[t] = None
    /\ req' = [req EXCEPT ![t] = q]
    /\ UNCHANGED <<world, out>>

\* The call of thread t takes effect with one of the outcomes given.
Perform(t, op, outcomes) ==
    /\ req[t] # None /\ req[t].op = op /\ out[t] = None
    /\ \E o \in outcomes :
          /\ world' = [world EXCEPT ![req[t].c] = o.rec]
          /\ out' = [out EXCEPT ![t] = o.ret]
    /\ UNCHANGED req

\* The call of thread t yields a value and leaves the containers alone.
Observe(t, op, values) ==
    /\ req[t] # None /\ req[t].op = op /\ out[t] = None
    /\ \E v \in values : out' = [out EXCEPT ![t] = v]
    /\ UNCHANGED <<world, req>>

Fail(t) == \E op \in Op : Observe(t, op, {Default(op)})

Subject(t) == world[req[t].c]

isDefined(t) == Perform(t, "isDefined", IsDefined(Subject(t)))
isRunning(t) == Perform(t, "isRunning", IsRunning(Subject(t)))
getState(t) == Perform(t, "getState", State(Subject(t)))
startContainer(t) == Perform(t, "startContainer", Start(Subject(t)))
stopContainer(t) == Perform(t, "stopContainer", Stop(Subject(t)))
freezeContainer(t) == Perform(t, "freezeContainer", Freeze(Subject(t)))
unfreezeContainer(t) == Perform(t, "unfreezeContainer", Unfreeze(Subject(t)))
destroyContainer(t) == Perform(t, "destroyContainer", Destroy(Subject(t)))
createSnapshot(t) == Perform(t, "createSnapshot", Snapshot(Subject(t)))

getInterfaces(t) ==
    Observe(t, "getInterfaces", {Strings(S) : S \in Interfaces(Subject(t))})

\* No container is the null array.
listContainers(t) ==
    LET D == DefinedIn(world)
    IN  Observe(t, "listContainers", {IF D = {} THEN Null ELSE Strings(D)})

getConfigItem(t) ==
    Observe(t, "getConfigItem", {Lookup(Subject(t).conf, req[t].key)})

\* Changes a copy of the configuration that is dropped with the call.
setConfigItem(t) == Observe(t, "setConfigItem", {Bool(b) : b \in BOOLEAN})

\* The number a fresh handle reports.
getErrorNum(t) == Observe(t, "getErrorNum", {Int_(0)})

Reply(t) ==
    /\ out[t] # None
    /\ req' = [req EXCEPT ![t] = None]
    /\ out' = [out EXCEPT ![t] = None]
    /\ UNCHANGED world

-----------------------------------------------------------------------------
\* The root process dies, and its threads with it.
Die ==
    /\ req' = [t \in Thread |-> None]
    /\ out' = [t \in Thread |-> None]
    /\ UNCHANGED world

\* Other tools on the device: lxc-create defines a container, and a
\* container's init may exit by itself.
Define(c) ==
    /\ ~world[c].defined
    /\ \E f \in Conf : world' = [world EXCEPT ![c] = Created(f)]
    /\ UNCHANGED <<req, out>>

Halt(c) ==
    /\ world[c].run = "RUNNING"
    /\ world' = [world EXCEPT ![c].run = "STOPPED"]
    /\ UNCHANGED <<req, out>>

-----------------------------------------------------------------------------
\* The call of thread t takes effect.
Execute(t) ==
    \/ isDefined(t) \/ isRunning(t) \/ getState(t)
    \/ startContainer(t) \/ stopContainer(t)
    \/ freezeContainer(t) \/ unfreezeContainer(t)
    \/ destroyContainer(t) \/ createSnapshot(t)
    \/ getInterfaces(t) \/ listContainers(t)
    \/ getConfigItem(t) \/ setConfigItem(t)
    \/ getErrorNum(t)

Serve(t) == Fail(t) \/ Execute(t)

Next ==
    \/ \E t \in Thread : (\E q \in Workload : Receive(t, q)) \/ Serve(t) \/ Reply(t)
    \/ Die
    \/ \E c \in Container : Define(c) \/ Halt(c)

Spec == Init /\ [][Next]_vars
=============================================================================
