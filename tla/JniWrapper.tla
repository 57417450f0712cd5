----------------------------- MODULE JniWrapper -----------------------------
(***************************************************************************)
(* The native methods of jni-wrapper.c, run by the Binder threads of the   *)
(* root process.  A call pins its Java strings, opens a container handle,  *)
(* makes one library call through lxc-binding.c, copies what it returned   *)
(* into Java objects, puts the handle and releases the strings.  Threads   *)
(* interleave between those steps and the process may die at any of them.  *)
(***************************************************************************)
EXTENDS LxcLib

CONSTANTS
    Thread,   \* Binder threads of the root process
    Workload  \* the calls clients make

\* What a container handle holds in memory: the configuration, and the
\* number of the last error.
Handle == [conf : Conf, err : 0..1]

ASSUME WrapperAssumption ==
    /\ Workload \subseteq Call
    /\ None \notin Call \cup Handle
    /\ \A op \in Op : None \notin ResultOf(op)

VARIABLES
    world,    \* the containers under the LXC path
    call,     \* the call each thread serves
    pc,       \* the next step of the thread
    handle,   \* what the thread's container handle holds in memory
    ret,      \* the result the method has built so far
    left,     \* elements of the library's array not yet copied
    pins,     \* Java strings pinned by GetStringUTFChars
    handles,  \* references to container handles
    blocks    \* malloc'ed blocks owned by the method

resources == <<pins, handles, blocks>>
vars == <<world, call, pc, handle, ret, left, pins, handles, blocks>>

Step == {"idle", "pinned", "open", "value", "loop", "put", "unpin"}

\* A fresh handle holds the configuration on disk and no error.
Fresh(r) == [conf |-> r.conf, err |-> 0]

\* The strings an operation takes: name and path, then key and value.
Pins(op) ==
    CASE op = "listContainers" -> 1
      [] op = "getConfigItem" -> 3
      [] op = "setConfigItem" -> 4
      [] OTHER -> 2

Init ==
    /\ world \in [Container -> {Undefined} \cup {Created(f) : f \in Conf}]
    /\ call = [t \in Thread |-> None]
    /\ pc = [t \in Thread |-> "idle"]
    /\ handle = [t \in Thread |-> None]
    /\ ret = [t \in Thread |-> None]
    /\ left = [t \in Thread |-> {}]
    /\ pins = [t \in Thread |-> 0]
    /\ handles = [t \in Thread |-> 0]
    /\ blocks = [t \in Thread |-> 0]

-----------------------------------------------------------------------------
(* Entering a method and getting a container handle *)

\* A transaction arrives; the method pins its strings.
Receive(t, q) ==
    /\ pc[t] = "idle"
    /\ call' = [call EXCEPT ![t] = q]
    /\ pins' = [pins EXCEPT ![t] = @ + Pins(q.op)]
    /\ pc' = [pc EXCEPT ![t] = "pinned"]
    /\ UNCHANGED <<world, handle, ret, left, handles, blocks>>

ContainerNew(t) ==
    /\ pc[t] = "pinned" /\ call[t].op # "listContainers"
    /\ handle' = [handle EXCEPT ![t] = Fresh(world[call[t].c])]
    /\ handles' = [handles EXCEPT ![t] = @ + 1]
    /\ pc' = [pc EXCEPT ![t] = "open"]
    /\ UNCHANGED <<world, call, ret, left, pins, blocks>>

\* A slip: a method does not look whether it got a handle.
ContainerNewUnchecked(t) ==
    /\ pc[t] = "pinned" /\ call[t].op # "listContainers"
    /\ ret' = [ret EXCEPT ![t] = Default(call[t].op)]
    /\ pc' = [pc EXCEPT ![t] = "put"]
    /\ UNCHANGED <<world, call, handle, left, pins, handles, blocks>>

\* lxc_container_new returns NULL: the method returns its default.
ContainerNewFails(t) ==
    /\ pc[t] = "pinned" /\ call[t].op # "listContainers"
    /\ ret' = [ret EXCEPT ![t] = Default(call[t].op)]
    /\ pc' = [pc EXCEPT ![t] = "unpin"]
    /\ UNCHANGED <<world, call, handle, left, pins, handles, blocks>>

-----------------------------------------------------------------------------
(* The library calls made through an open handle *)

Opened(t, op) == pc[t] = "open" /\ call[t].op = op

\* A slip: the answer of the library is not looked at.
NativeUnchecked(t, op, outcomes) ==
    /\ Opened(t, op)
    /\ \E o \in outcomes :
          /\ world' = [world EXCEPT ![call[t].c] = o.rec]
          /\ ret' = [ret EXCEPT ![t] = IF o.ret = JNI_FALSE THEN JNI_TRUE ELSE o.ret]
    /\ pc' = [pc EXCEPT ![t] = "put"]
    /\ UNCHANGED <<call, handle, left, pins, handles, blocks>>

\* One call of liblxc on the container; the handle remembers that it failed.
Native(t, op, outcomes) ==
    /\ Opened(t, op)
    /\ \E o \in outcomes :
          /\ world' = [world EXCEPT ![call[t].c] = o.rec]
          /\ ret' = [ret EXCEPT ![t] = o.ret]
          /\ handle' = IF o.ret \in {JNI_FALSE, Int_(-1)}
                       THEN [handle EXCEPT ![t].err = 1] ELSE handle
    /\ pc' = [pc EXCEPT ![t] = "put"]
    /\ UNCHANGED <<call, left, pins, handles, blocks>>

Subject(t) == world[call[t].c]

nativeIsDefined(t) == Native(t, "isDefined", IsDefined(Subject(t)))
nativeIsRunning(t) == Native(t, "isRunning", IsRunning(Subject(t)))
nativeGetState(t) == Native(t, "getState", State(Subject(t)))
nativeStartContainer(t) == Native(t, "startContainer", Start(Subject(t)))
nativeStopContainer(t) == Native(t, "stopContainer", Stop(Subject(t)))
nativeFreezeContainer(t) == Native(t, "freezeContainer", Freeze(Subject(t)))
nativeUnfreezeContainer(t) == Native(t, "unfreezeContainer", Unfreeze(Subject(t)))
nativeDestroyContainer(t) == Native(t, "destroyContainer", Destroy(Subject(t)))
nativeCreateSnapshot(t) == Native(t, "createSnapshot", Snapshot(Subject(t)))

\* error_num of the handle, which this call has just created.
nativeGetErrorNum(t) ==
    /\ Opened(t, "getErrorNum")
    /\ ret' = [ret EXCEPT ![t] = Int_(handle[t].err)]
    /\ pc' = [pc EXCEPT ![t] = "put"]
    /\ UNCHANGED <<world, call, handle, left, pins, handles, blocks>>

\* Sets the key in the configuration the handle holds; nothing saves it.
nativeSetConfigItem(t) ==
    /\ Opened(t, "setConfigItem")
    /\ \E ok \in BOOLEAN :
          /\ ret' = [ret EXCEPT ![t] = Bool(ok)]
          /\ handle' = IF ok
                       THEN [handle EXCEPT ![t].conf[call[t].key] = call[t].val]
                       ELSE handle
    /\ pc' = [pc EXCEPT ![t] = "put"]
    /\ UNCHANGED <<world, call, left, pins, handles, blocks>>

\* jni_lxc_get_config_item: a malloc'ed copy of the value the handle holds,
\* NULL when the key is unset.
nativeGetConfigItem(t) ==
    /\ Opened(t, "getConfigItem")
    /\ LET v == Lookup(handle[t].conf, call[t].key)
       IN  /\ ret' = [ret EXCEPT ![t] = v]
           /\ blocks' = IF v = Null THEN blocks ELSE [blocks EXCEPT ![t] = @ + 1]
           /\ pc' = [pc EXCEPT ![t] = IF v = Null THEN "put" ELSE "value"]
    /\ UNCHANGED <<world, call, handle, left, pins, handles>>

\* The value has become a Java string and is freed.
FreeValue(t) ==
    /\ pc[t] = "value"
    /\ blocks' = [blocks EXCEPT ![t] = @ - 1]
    /\ pc' = [pc EXCEPT ![t] = "put"]
    /\ UNCHANGED <<world, call, handle, ret, left, pins, handles>>

-----------------------------------------------------------------------------
(* Arrays the library returns: each element is copied, then freed *)

\* get_interfaces returns NULL, or an array of malloc'ed names.
nativeGetInterfaces(t) ==
    /\ Opened(t, "getInterfaces")
    /\ \/ /\ ret' = [ret EXCEPT ![t] = Null]
          /\ pc' = [pc EXCEPT ![t] = "put"]
          /\ UNCHANGED <<left, blocks>>
       \/ \E S \in Interfaces(Subject(t)) :
             /\ ret' = [ret EXCEPT ![t] = Strings({})]
             /\ left' = [left EXCEPT ![t] = S]
             /\ blocks' = [blocks EXCEPT ![t] = @ + 1 + Cardinality(S)]
             /\ pc' = [pc EXCEPT ![t] = "loop"]
    /\ UNCHANGED <<world, call, handle, pins, handles>>

\* list_defined_containers returns a count that is not positive, or an array
\* of malloc'ed names and one of handles.
nativeListContainers(t) ==
    /\ pc[t] = "pinned" /\ call[t].op = "listContainers"
    /\ \/ /\ ret' = [ret EXCEPT ![t] = Null]
          /\ pc' = [pc EXCEPT ![t] = "unpin"]
          /\ UNCHANGED <<left, handles, blocks>>
       \/ LET D == DefinedIn(world)
          IN  /\ D # {}
              /\ ret' = [ret EXCEPT ![t] = Strings({})]
              /\ left' = [left EXCEPT ![t] = D]
              /\ handles' = [handles EXCEPT ![t] = @ + Cardinality(D)]
              /\ blocks' = [blocks EXCEPT ![t] = @ + 2 + Cardinality(D)]
              /\ pc' = [pc EXCEPT ![t] = "loop"]
    /\ UNCHANGED <<world, call, handle, pins>>

\* Slips: the loop puts no handle, or copies the first element for ever.
CopyElementOnly(t) ==
    /\ pc[t] = "loop"
    /\ \E x \in left[t] :
          /\ ret' = [ret EXCEPT ![t] = Strings(@[2] \cup {x})]
          /\ left' = [left EXCEPT ![t] = @ \ {x}]
    /\ blocks' = [blocks EXCEPT ![t] = @ - 1]
    /\ UNCHANGED <<world, call, pc, handle, pins, handles>>

CopySameElement(t) ==
    /\ pc[t] = "loop" /\ left[t] # {}
    /\ ret' = [ret EXCEPT ![t] = Strings(@[2] \cup {CHOOSE x \in left[t] : TRUE})]
    /\ UNCHANGED <<world, call, pc, handle, left, pins, handles, blocks>>

\* One round of the copying loop; the list also puts the element's handle.
CopyElement(t) ==
    /\ pc[t] = "loop"
    /\ \E x \in left[t] :
          /\ ret' = [ret EXCEPT ![t] = Strings(@[2] \cup {x})]
          /\ left' = [left EXCEPT ![t] = @ \ {x}]
    /\ blocks' = [blocks EXCEPT ![t] = @ - 1]
    /\ handles' = IF call[t].op = "listContainers"
                  THEN [handles EXCEPT ![t] = @ - 1] ELSE handles
    /\ UNCHANGED <<world, call, pc, handle, pins>>

\* Slips: one array is freed of two, or the loop ends one element early.
FreeNames(t) ==
    /\ pc[t] = "loop" /\ left[t] = {}
    /\ blocks' = [blocks EXCEPT ![t] = @ - 1]
    /\ pc' = [pc EXCEPT ![t] = IF call[t].op = "listContainers" THEN "unpin" ELSE "put"]
    /\ UNCHANGED <<world, call, handle, ret, left, pins, handles>>

FreeArraysEarly(t) ==
    /\ pc[t] = "loop" /\ Cardinality(left[t]) = 1
    /\ left' = [left EXCEPT ![t] = {}]
    /\ blocks' = [blocks EXCEPT ![t] = 0]
    /\ handles' = [handles EXCEPT ![t] = IF call[t].op = "listContainers" THEN 0 ELSE 1]
    /\ pc' = [pc EXCEPT ![t] = IF call[t].op = "listContainers" THEN "unpin" ELSE "put"]
    /\ UNCHANGED <<world, call, handle, ret, pins>>

\* The loop has ended and the arrays themselves are freed.
FreeArrays(t) ==
    /\ pc[t] = "loop" /\ left[t] = {}
    /\ IF call[t].op = "listContainers"
       THEN /\ blocks' = [blocks EXCEPT ![t] = @ - 2]
            /\ pc' = [pc EXCEPT ![t] = "unpin"]
       ELSE /\ blocks' = [blocks EXCEPT ![t] = @ - 1]
            /\ pc' = [pc EXCEPT ![t] = "put"]
    /\ UNCHANGED <<world, call, handle, ret, left, pins, handles>>

-----------------------------------------------------------------------------
(* Leaving a method *)

ContainerPut(t) ==
    /\ pc[t] = "put"
    /\ handle' = [handle EXCEPT ![t] = None]
    /\ handles' = [handles EXCEPT ![t] = @ - 1]
    /\ pc' = [pc EXCEPT ![t] = "unpin"]
    /\ UNCHANGED <<world, call, ret, left, pins, blocks>>

\* The strings are released and the result goes back to the client.
Reply(t) ==
    /\ pc[t] = "unpin"
    /\ pins' = [pins EXCEPT ![t] = @ - Pins(call[t].op)]
    /\ call' = [call EXCEPT ![t] = None]
    /\ ret' = [ret EXCEPT ![t] = None]
    /\ pc' = [pc EXCEPT ![t] = "idle"]
    /\ UNCHANGED <<world, handle, left, handles, blocks>>

-----------------------------------------------------------------------------
(* The environment *)

\* The root process dies; its memory goes with it, the containers stay.
Die ==
    /\ call' = [t \in Thread |-> None]
    /\ pc' = [t \in Thread |-> "idle"]
    /\ handle' = [t \in Thread |-> None]
    /\ ret' = [t \in Thread |-> None]
    /\ left' = [t \in Thread |-> {}]
    /\ pins' = [t \in Thread |-> 0]
    /\ handles' = [t \in Thread |-> 0]
    /\ blocks' = [t \in Thread |-> 0]
    /\ UNCHANGED world

\* Other tools on the device: lxc-create defines a container, and a
\* container's init may exit by itself.
Define(c) ==
    /\ ~world[c].defined
    /\ \E f \in Conf : world' = [world EXCEPT ![c] = Created(f)]
    /\ UNCHANGED <<call, pc, handle, ret, left, pins, handles, blocks>>

Halt(c) ==
    /\ world[c].run = "RUNNING"
    /\ world' = [world EXCEPT ![c].run = "STOPPED"]
    /\ UNCHANGED <<call, pc, handle, ret, left, pins, handles, blocks>>

-----------------------------------------------------------------------------
\* The steps of a method after it was entered.
Proceed(t) ==
    \/ ContainerNew(t) \/ ContainerNewFails(t)
    \/ nativeIsDefined(t) \/ nativeIsRunning(t) \/ nativeGetState(t)
    \/ nativeStartContainer(t) \/ nativeStopContainer(t)
    \/ nativeFreezeContainer(t) \/ nativeUnfreezeContainer(t)
    \/ nativeDestroyContainer(t) \/ nativeCreateSnapshot(t)
    \/ nativeGetErrorNum(t) \/ nativeSetConfigItem(t)
    \/ nativeGetConfigItem(t) \/ FreeValue(t)
    \/ nativeGetInterfaces(t) \/ nativeListContainers(t)
    \/ CopyElement(t) \/ FreeArrays(t)
    \/ ContainerPut(t) \/ Reply(t)

\* Those in which it gives up: its answer is the default of its type, because
\* the library gave it nothing.
GivesUp(t) ==
    \/ ContainerNewFails(t)
    \/ nativeGetInterfaces(t) /\ ret'[t] = Null
    \/ nativeListContainers(t) /\ ret'[t] = Null /\ DefinedIn(world) # {}

Next ==
    \/ \E t \in Thread : (\E q \in Workload : Receive(t, q)) \/ Proceed(t)
    \/ Die
    \/ \E c \in Container : Define(c) \/ Halt(c)

Spec == Init /\ [][Next]_vars

\* The kernel keeps scheduling a thread that can run, and liblxc returns
\* from the calls modelled here.
FairSpec == Spec /\ \A t \in Thread : WF_vars(Proceed(t))

-----------------------------------------------------------------------------
(* Properties *)

\* What a thread holds at each step of each method.
OwedPins(t) == IF pc[t] = "idle" THEN 0 ELSE Pins(call[t].op)

OwedHandles(t) ==
    IF pc[t] \in {"open", "value", "put"} THEN 1
    ELSE IF pc[t] # "loop" THEN 0
    ELSE IF call[t].op = "listContainers" THEN Cardinality(left[t]) ELSE 1

OwedBlocks(t) ==
    IF pc[t] = "value" THEN 1
    ELSE IF pc[t] # "loop" THEN 0
    ELSE Cardinality(left[t]) + (IF call[t].op = "listContainers" THEN 2 ELSE 1)

\* The state has the types above, and a result fits the method's signature
\* in method_table.
TypeOK ==
    /\ world \in World
    /\ pc \in [Thread -> Step]
    /\ call \in [Thread -> Call \cup {None}]
    /\ handle \in [Thread -> Handle \cup {None}]
    /\ ret \in [Thread -> Result \cup {None}]
    /\ left \in [Thread -> SUBSET (Container \cup Iface)]
    /\ pins \in [Thread -> Int]
    /\ handles \in [Thread -> Int]
    /\ blocks \in [Thread -> Int]
    /\ \A t \in Thread :
          /\ call[t] = None <=> pc[t] = "idle"
          /\ ret[t] = None <=> pc[t] \in {"idle", "pinned", "open"}
          /\ ret[t] # None => ret[t] \in ResultOf(call[t].op)

\* Every path through every method keeps exact account of what it pinned,
\* opened and allocated.
Accounted ==
    \A t \in Thread :
        /\ pins[t] = OwedPins(t)
        /\ handles[t] = OwedHandles(t)
        /\ blocks[t] = OwedBlocks(t)

\* Which steps a method passes through, and what it has in hand at each.
Phases ==
    \A t \in Thread :
        /\ handle[t] # None <=>
              \/ pc[t] \in {"open", "value", "put"}
              \/ pc[t] = "loop" /\ call[t].op = "getInterfaces"
        /\ pc[t] \in {"open", "value", "put"} => call[t].op # "listContainers"
        /\ pc[t] = "open" => handle[t].err = 0
        /\ pc[t] = "value" => call[t].op = "getConfigItem"
        /\ pc[t] = "loop" =>
              /\ call[t].op \in ArrayOp
              /\ \E S \in SUBSET (Container \cup Iface) : ret[t] = Strings(S)

\* While the library works on a handle, the handle is open and the strings
\* that name the container and the key are pinned.
NoUseAfterFree ==
    \A t \in Thread :
        pc[t] \in {"open", "value", "put"} =>
            handle[t] # None /\ handles[t] >= 1 /\ pins[t] >= 2

\* The steps a method has before it at most: those of its loop and after it,
\* as many rounds as there are elements, or as there may be.
Distance(t) ==
    CASE pc[t] = "idle" -> 0
      [] pc[t] = "unpin" -> 1
      [] pc[t] = "put" -> 2
      [] pc[t] = "value" -> 3
      [] pc[t] = "loop" -> 3 + Cardinality(left[t])
      [] pc[t] = "open" -> 4 + Cardinality(Iface)
      [] pc[t] = "pinned" -> 5 + Cardinality(Iface) + Cardinality(Container)

Own(t) == <<pc[t], call[t], handle[t], ret[t], left[t], pins[t], handles[t], blocks[t]>>

\* Whatever happens to a method that was entered brings it nearer to its reply:
\* no loop runs on, and nothing another thread does to the containers sends a
\* method back or makes its list longer.
NearerToReply ==
    [][\A t \in Thread :
          pc[t] # "idle" /\ Own(t)' # Own(t) => Distance(t)' \in 0 .. (Distance(t) - 1)]_vars

\* Every call is answered, unless the process dies with it.
CallReturns == \A t \in Thread : pc[t] # "idle" ~> pc[t] = "idle"

-----------------------------------------------------------------------------
(* Refinement: the methods implement the atomic service *)

\* The value a thread is bound to return.  A configuration value is decided
\* when the handle reads the configuration, before the value is asked for;
\* an array, when the library returns it, before its elements are copied.
Decided(t) ==
    IF pc[t] \in {"idle", "pinned"} THEN None
    ELSE IF pc[t] = "open"
         THEN IF call[t].op = "getConfigItem"
              THEN Lookup(handle[t].conf, call[t].key) ELSE None
    ELSE IF pc[t] = "loop" THEN Strings(ret[t][2] \cup left[t])
    ELSE ret[t]

Out == [t \in Thread |-> Decided(t)]

Service == INSTANCE LxcService WITH req <- call, out <- Out

\* Whatever the threads interleave, each call takes effect at one instant
\* between its arrival and its reply, as the AIDL service promises.
ImplementsService == Service!Spec
=============================================================================
