-------------------------- MODULE JniWrapperProofs --------------------------
(***************************************************************************)
(* Proofs about JniWrapper for any containers, threads, keys and values:   *)
(* types, exact accounting of pinned strings, handles and blocks on every  *)
(* path, and that the methods implement the atomic service.                *)
(***************************************************************************)
EXTENDS JniWrapper, LxcLibProofs, FiniteSetTheorems, TLAPS

-----------------------------------------------------------------------------
(* Inductive invariant *)

\* The invariant of one thread; it speaks of no other thread.
ThreadOK(t) ==
    /\ pc[t] \in Step
    /\ call[t] \in Call \cup {None}
    /\ handle[t] \in Handle \cup {None}
    /\ ret[t] \in Result \cup {None}
    /\ left[t] \in SUBSET (Container \cup Iface)
    /\ call[t] = None <=> pc[t] = "idle"
    /\ ret[t] = None <=> pc[t] \in {"idle", "pinned", "open"}
    /\ ret[t] # None => ret[t] \in ResultOf(call[t].op)
    /\ pins[t] = OwedPins(t) /\ pins[t] \in Int
    /\ handles[t] = OwedHandles(t) /\ handles[t] \in Int
    /\ blocks[t] = OwedBlocks(t) /\ blocks[t] \in Int
    /\ handle[t] # None <=>
          \/ pc[t] \in {"open", "value", "put"}
          \/ pc[t] = "loop" /\ call[t].op = "getInterfaces"
    /\ pc[t] \in {"open", "value", "put"} => call[t].op # "listContainers"
    /\ pc[t] = "open" => handle[t].err = 0
    /\ pc[t] = "value" => call[t].op = "getConfigItem"
    /\ pc[t] = "loop" =>
          /\ call[t].op \in ArrayOp
          /\ \E S \in SUBSET (Container \cup Iface) : ret[t] = Strings(S)

\* Each variable of the threads is a function on them.
Shape(f) == f = [t \in Thread |-> f[t]]

Shapes ==
    /\ Shape(pc) /\ Shape(call) /\ Shape(handle) /\ Shape(ret)
    /\ Shape(left) /\ Shape(pins) /\ Shape(handles) /\ Shape(blocks)

\* What every reachable state satisfies, strong enough to be inductive.
IInv == world \in World /\ Shapes /\ \A t \in Thread : ThreadOK(t)

\* It is the conjunction of the invariants that TLC checks.
LEMMA IInvParts == IInv => TypeOK /\ Accounted /\ Phases
  <1>1. IInv => TypeOK
    BY DEF IInv, Shapes, Shape, ThreadOK, TypeOK
  <1>2. IInv => Accounted /\ Phases
    BY DEF IInv, ThreadOK, Accounted, Phases
  <1> QED
    BY <1>1, <1>2

\* Only thread t moves.
Moves(t) ==
    /\ pc' = [pc EXCEPT ![t] = pc'[t]]
    /\ call' = [call EXCEPT ![t] = call'[t]]
    /\ handle' = [handle EXCEPT ![t] = handle'[t]]
    /\ ret' = [ret EXCEPT ![t] = ret'[t]]
    /\ left' = [left EXCEPT ![t] = left'[t]]
    /\ pins' = [pins EXCEPT ![t] = pins'[t]]
    /\ handles' = [handles EXCEPT ![t] = handles'[t]]
    /\ blocks' = [blocks EXCEPT ![t] = blocks'[t]]

\* A step of one thread keeps the invariant if it keeps that thread's.
LEMMA LocalStep ==
    ASSUME IInv, NEW t \in Thread, Moves(t), world' \in World, ThreadOK(t)'
    PROVE  IInv'
  <1>1. Shapes'
    BY DEF IInv, Moves, Shapes, Shape
  <1>2. ASSUME NEW u \in Thread, u # t
        PROVE  ThreadOK(u)'
    <2>1. /\ pc'[u] = pc[u] /\ call'[u] = call[u] /\ handle'[u] = handle[u]
          /\ ret'[u] = ret[u] /\ left'[u] = left[u] /\ pins'[u] = pins[u]
          /\ handles'[u] = handles[u] /\ blocks'[u] = blocks[u]
      BY <1>2 DEF IInv, Moves, Shapes, Shape
    <2> QED
      BY <2>1 DEF IInv, ThreadOK, OwedPins, OwedHandles, OwedBlocks
  <1>3. \A u \in Thread : ThreadOK(u)'
    BY <1>2
  <1> QED
    BY <1>1, <1>3 DEF IInv

LEMMA InitInv == Init => IInv
  <1> SUFFICES ASSUME Init PROVE IInv
    OBVIOUS
  <1>1. world \in World
    BY RecordTypes DEF Init, World
  <1>2. Shapes
    BY DEF Init, Shapes, Shape
  <1>3. ASSUME NEW t \in Thread
        PROVE  ThreadOK(t)
    BY DEF Init, ThreadOK, Step, OwedPins, OwedHandles, OwedBlocks
  <1> QED
    BY <1>1, <1>2, <1>3 DEF IInv

\* A native method that makes one library call and has its outcome.
LEMMA NativeStep ==
    ASSUME IInv, NEW t \in Thread, NEW op \in Op \ {"listContainers"},
           NEW STATE outcomes,
           \A o \in outcomes : o.rec \in Record /\ o.ret \in ResultOf(op),
           Native(t, op, outcomes)
    PROVE  IInv'
  <1>1. PICK o \in outcomes :
           /\ world' = [world EXCEPT ![call[t].c] = o.rec]
           /\ ret' = [ret EXCEPT ![t] = o.ret]
           /\ handle' = IF o.ret \in {JNI_FALSE, Int_(-1)}
                        THEN [handle EXCEPT ![t].err = 1] ELSE handle
    BY DEF Native
  <1>2. /\ pc[t] = "open" /\ call[t].op = op
        /\ pc' = [pc EXCEPT ![t] = "put"]
        /\ UNCHANGED <<call, left, pins, handles, blocks>>
    BY DEF Native, Opened
  <1>3. o.rec \in Record /\ o.ret \in ResultOf(op)
    BY <1>1
  <1>4. world' \in World
    BY <1>1, <1>3 DEF IInv, World
  <1>5. handle[t] \in Handle
    BY <1>2 DEF IInv, ThreadOK
  <1>6. handle'[t] \in Handle
    <2>1. [handle[t] EXCEPT !.err = 1] \in Handle
      BY <1>5 DEF Handle
    <2> QED
      BY <1>1, <1>5, <2>1 DEF IInv, Shapes, Shape
  <1>7. Moves(t)
    BY <1>1, <1>2 DEF IInv, Moves, Shapes, Shape
  <1>8. ThreadOK(t)'
    BY <1>1, <1>2, <1>3, <1>6, WrapperAssumption
       DEF IInv, Shapes, Shape, ThreadOK, Step, Result, OwedPins, OwedHandles, OwedBlocks
  <1> QED
    BY <1>4, <1>7, <1>8, LocalStep

\* Entering a method and getting a handle.
LEMMA EnterStep ==
    ASSUME IInv, NEW t \in Thread,
           (\E q \in Workload : Receive(t, q)) \/ ContainerNew(t) \/ ContainerNewFails(t)
    PROVE  IInv'
  <1> USE DEF IInv, Shapes, Shape
  <1>0. world' = world
    BY DEF Receive, ContainerNew, ContainerNewFails
  <1>1. Moves(t)
    BY DEF Receive, ContainerNew, ContainerNewFails, Moves
  <1>2. CASE \E q \in Workload : Receive(t, q)
    <2>1. PICK q \in Workload : Receive(t, q)
      BY <1>2
    <2>2. q \in Call /\ q # None /\ Pins(q.op) \in Int
      BY WrapperAssumption DEF Pins
    <2>3. ThreadOK(t)'
      BY <2>1, <2>2 DEF Receive, ThreadOK, Step, OwedPins, OwedHandles, OwedBlocks
    <2> QED
      BY <1>0, <1>1, <2>3, LocalStep
  <1>3. CASE ContainerNew(t)
    <2>1. call[t] \in Call /\ call[t].c \in Container
      BY <1>3 DEF ContainerNew, ThreadOK, Call
    <2>2. Fresh(world[call[t].c]) \in Handle /\ Fresh(world[call[t].c]).err = 0
      BY <2>1 DEF Fresh, Handle, World, Record
    <2>3. ThreadOK(t)'
      BY <1>3, <2>2, WrapperAssumption
         DEF ContainerNew, ThreadOK, Step, OwedPins, OwedHandles, OwedBlocks
    <2> QED
      BY <1>0, <1>1, <2>3, LocalStep
  <1>4. CASE ContainerNewFails(t)
    <2>1. call[t].op \in Op
      BY <1>4 DEF ContainerNewFails, ThreadOK, Call
    <2>2. Default(call[t].op) \in ResultOf(call[t].op)
      BY <2>1, DefaultType
    <2>3. ThreadOK(t)'
      BY <1>4, <2>1, <2>2, WrapperAssumption
         DEF ContainerNewFails, ThreadOK, Step, Result, OwedPins, OwedHandles, OwedBlocks
    <2> QED
      BY <1>0, <1>1, <2>3, LocalStep
  <1> QED
    BY <1>2, <1>3, <1>4

\* The methods that touch only the handle's own memory.
LEMMA HandleStep ==
    ASSUME IInv, NEW t \in Thread,
           nativeGetErrorNum(t) \/ nativeSetConfigItem(t)
           \/ nativeGetConfigItem(t) \/ FreeValue(t)
    PROVE  IInv'
  <1> USE DEF IInv, Shapes, Shape
  <1>0. world' = world
    BY DEF nativeGetErrorNum, nativeSetConfigItem, nativeGetConfigItem, FreeValue
  <1>1. Moves(t)
    BY DEF nativeGetErrorNum, nativeSetConfigItem, nativeGetConfigItem, FreeValue, Moves
  <1>2. pc[t] = "open" =>
          /\ handle[t] \in Handle /\ call[t] \in Call
          /\ call[t].key \in Key /\ call[t].val \in Value
    BY DEF ThreadOK, Call
  <1>3. CASE nativeGetErrorNum(t)
    <2>1. Int_(handle[t].err) \in ResultOf("getErrorNum")
      BY <1>3, Signatures, LibAssumption
         DEF nativeGetErrorNum, Opened, ThreadOK, IntOp
    <2>2. ThreadOK(t)'
      BY <1>3, <2>1, WrapperAssumption
         DEF nativeGetErrorNum, Opened, ThreadOK, Step, Op, IntOp, Result, OwedPins,
             OwedHandles, OwedBlocks
    <2> QED
      BY <1>0, <1>1, <2>2, LocalStep
  <1>4. CASE nativeSetConfigItem(t)
    <2>1. PICK ok \in BOOLEAN :
             /\ ret' = [ret EXCEPT ![t] = Bool(ok)]
             /\ handle' = IF ok
                          THEN [handle EXCEPT ![t].conf[call[t].key] = call[t].val]
                          ELSE handle
      BY <1>4 DEF nativeSetConfigItem
    <2>2. pc[t] = "open" /\ call[t].op = "setConfigItem"
      BY <1>4 DEF nativeSetConfigItem, Opened
    <2>3. Bool(ok) \in ResultOf("setConfigItem")
      BY BoolValue, Signatures DEF BoolOp
    <2>4. handle'[t] \in Handle
      <3>1. [handle[t].conf EXCEPT ![call[t].key] = call[t].val] \in Conf
        BY <1>2, <2>2 DEF Handle, Conf
      <3>2. [handle[t] EXCEPT !.conf =
                [handle[t].conf EXCEPT ![call[t].key] = call[t].val]] \in Handle
        BY <1>2, <2>2, <3>1 DEF Handle
      <3>3. handle'[t] \in {handle[t], [handle[t] EXCEPT !.conf =
                [handle[t].conf EXCEPT ![call[t].key] = call[t].val]]}
        BY <2>1
      <3> QED
        BY <1>2, <2>2, <3>2, <3>3
    <2>5. ThreadOK(t)'
      BY <1>4, <2>1, <2>2, <2>3, <2>4, WrapperAssumption
         DEF nativeSetConfigItem, ThreadOK, Step, Op, BoolOp, Result, OwedPins,
             OwedHandles, OwedBlocks
    <2> QED
      BY <1>0, <1>1, <2>5, LocalStep
  <1>5. CASE nativeGetConfigItem(t)
    <2>1. pc[t] = "open" /\ call[t].op = "getConfigItem"
      BY <1>5 DEF nativeGetConfigItem, Opened
    <2>2. Lookup(handle[t].conf, call[t].key) \in ResultOf("getConfigItem")
      BY <1>2, <2>1, LookupType DEF Handle
    <2>3. ThreadOK(t)'
      BY <1>5, <2>1, <2>2, WrapperAssumption
         DEF nativeGetConfigItem, ThreadOK, Step, Op, StringOp, Result, OwedPins,
             OwedHandles, OwedBlocks
    <2> QED
      BY <1>0, <1>1, <2>3, LocalStep
  <1>6. CASE FreeValue(t)
    <2>1. ThreadOK(t)'
      BY <1>6 DEF FreeValue, ThreadOK, Step, OwedPins, OwedHandles, OwedBlocks
    <2> QED
      BY <1>0, <1>1, <2>1, LocalStep
  <1> QED
    BY <1>3, <1>4, <1>5, <1>6

\* The loop over an array has one element less to copy after a round.
LEMMA OneLess ==
    ASSUME NEW S \in SUBSET (Container \cup Iface), NEW x \in S
    PROVE  /\ Cardinality(S) \in Nat
           /\ Cardinality(S \ {x}) = Cardinality(S) - 1
  BY ArraysFinite, FS_RemoveElement, FS_CardinalityType

LEMMA ArrayStep ==
    ASSUME IInv, NEW t \in Thread,
           nativeGetInterfaces(t) \/ nativeListContainers(t)
           \/ CopyElement(t) \/ FreeArrays(t)
    PROVE  IInv'
  <1> USE DEF IInv, Shapes, Shape
  <1>0. world' = world
    BY DEF nativeGetInterfaces, nativeListContainers, CopyElement, FreeArrays
  <1>1. Moves(t)
    BY DEF nativeGetInterfaces, nativeListContainers, CopyElement, FreeArrays, Moves
  <1>2. /\ Null \in ResultOf("getInterfaces") /\ Null \in ResultOf("listContainers")
        /\ \A S \in SUBSET (Container \cup Iface) :
              /\ Strings(S) \in ResultOf("getInterfaces")
              /\ Strings(S) \in ResultOf("listContainers")
        /\ {"getInterfaces", "listContainers"} \subseteq Op
    BY Signatures DEF ArrayOp, Op
  <1>3. CASE nativeGetInterfaces(t)
    <2> USE DEF nativeGetInterfaces, Opened
    <2>1. CASE ret' = [ret EXCEPT ![t] = Null] /\ UNCHANGED <<left, blocks>>
               /\ pc' = [pc EXCEPT ![t] = "put"]
      <3>1. ThreadOK(t)'
        BY <1>2, <1>3, <2>1, WrapperAssumption
           DEF ThreadOK, Step, Result, OwedPins, OwedHandles, OwedBlocks
      <3> QED
        BY <1>0, <1>1, <3>1, LocalStep
    <2>2. CASE \E S \in Interfaces(Subject(t)) :
                  /\ ret' = [ret EXCEPT ![t] = Strings({})]
                  /\ left' = [left EXCEPT ![t] = S]
                  /\ blocks' = [blocks EXCEPT ![t] = @ + 1 + Cardinality(S)]
                  /\ pc' = [pc EXCEPT ![t] = "loop"]
      <3>1. PICK S \in Interfaces(Subject(t)) :
                  /\ ret' = [ret EXCEPT ![t] = Strings({})]
                  /\ left' = [left EXCEPT ![t] = S]
                  /\ blocks' = [blocks EXCEPT ![t] = @ + 1 + Cardinality(S)]
                  /\ pc' = [pc EXCEPT ![t] = "loop"]
        BY <2>2
      <3>2. S \in SUBSET Iface
        BY DEF Interfaces
      <3>3. Cardinality(S) \in Nat
        BY <3>2, ArraysFinite, FS_CardinalityType
      <3>4. /\ pc[t] = "open" /\ call[t].op = "getInterfaces"
            /\ handles[t] = 1 /\ blocks[t] = 0
        BY <1>3 DEF ThreadOK, OwedBlocks, OwedHandles
      <3>5. /\ pc'[t] = "loop" /\ left'[t] = S /\ ret'[t] = Strings({})
            /\ blocks'[t] = blocks[t] + 1 + Cardinality(S)
            /\ call'[t] = call[t] /\ handle'[t] = handle[t]
            /\ pins'[t] = pins[t] /\ handles'[t] = handles[t]
        BY <1>3, <3>1
      <3>6. ThreadOK(t)'
        BY <1>2, <3>2, <3>3, <3>4, <3>5, WrapperAssumption
           DEF ThreadOK, Step, Result, ArrayOp, OwedPins, OwedHandles, OwedBlocks
      <3> QED
        BY <1>0, <1>1, <3>6, LocalStep
    <2> QED
      BY <1>3, <2>1, <2>2
  <1>4. CASE nativeListContainers(t)
    <2> USE DEF nativeListContainers
    <2>1. CASE ret' = [ret EXCEPT ![t] = Null] /\ UNCHANGED <<left, handles, blocks>>
               /\ pc' = [pc EXCEPT ![t] = "unpin"]
      <3>1. ThreadOK(t)'
        BY <1>2, <1>4, <2>1, WrapperAssumption
           DEF ThreadOK, Step, Result, OwedPins, OwedHandles, OwedBlocks
      <3> QED
        BY <1>0, <1>1, <3>1, LocalStep
    <2>2. CASE LET D == DefinedIn(world)
               IN  /\ ret' = [ret EXCEPT ![t] = Strings({})]
                   /\ left' = [left EXCEPT ![t] = D]
                   /\ handles' = [handles EXCEPT ![t] = @ + Cardinality(D)]
                   /\ blocks' = [blocks EXCEPT ![t] = @ + 2 + Cardinality(D)]
                   /\ pc' = [pc EXCEPT ![t] = "loop"]
      <3>1. DefinedIn(world) \in SUBSET Container
        BY DEF DefinedIn
      <3>2. Cardinality(DefinedIn(world)) \in Nat
        BY <3>1, ArraysFinite, FS_CardinalityType
      <3>3. ThreadOK(t)'
        BY <1>2, <1>4, <2>2, <3>1, <3>2, WrapperAssumption
           DEF ThreadOK, Step, Result, ArrayOp, OwedPins, OwedHandles, OwedBlocks
      <3> QED
        BY <1>0, <1>1, <3>3, LocalStep
    <2> QED
      BY <1>4, <2>1, <2>2
  <1>5. CASE CopyElement(t)
    <2> USE DEF CopyElement
    <2>1. PICK x \in left[t] : /\ ret' = [ret EXCEPT ![t] = Strings(@[2] \cup {x})]
                               /\ left' = [left EXCEPT ![t] = @ \ {x}]
      BY <1>5
    <2>2. left[t] \in SUBSET (Container \cup Iface)
      BY DEF ThreadOK
    <2>3. PICK S \in SUBSET (Container \cup Iface) : ret[t] = Strings(S)
      BY <1>5 DEF ThreadOK
    <2>4. ret'[t] = Strings(S \cup {x}) /\ S \cup {x} \in SUBSET (Container \cup Iface)
      <3>1. Strings(S)[2] = S
        BY DEF Strings
      <3>2. ret'[t] = Strings(ret[t][2] \cup {x})
        BY <2>1
      <3> QED
        BY <2>1, <2>2, <2>3, <3>1, <3>2
    <2>5. /\ Cardinality(left[t]) \in Nat
          /\ Cardinality(left[t] \ {x}) = Cardinality(left[t]) - 1
      BY <2>1, <2>2, OneLess
    <2>6. call[t].op \in {"getInterfaces", "listContainers"}
      BY <1>5 DEF ThreadOK, ArrayOp
    <2>7. /\ pc[t] = "loop" /\ pc'[t] = pc[t] /\ left'[t] = left[t] \ {x}
          /\ blocks'[t] = blocks[t] - 1
          /\ call'[t] = call[t] /\ handle'[t] = handle[t] /\ pins'[t] = pins[t]
          /\ handles'[t] = IF call[t].op = "listContainers"
                           THEN handles[t] - 1 ELSE handles[t]
      BY <1>5, <2>1
    <2>8. ThreadOK(t)'
      <3>1. ret'[t] # None /\ ret'[t] \in Result /\ ret'[t] \in ResultOf(call[t].op)
        BY <1>2, <2>4, <2>6, WrapperAssumption DEF Result
      <3>2. blocks'[t] = OwedBlocks(t)' /\ blocks'[t] \in Int
        BY <2>5, <2>7 DEF ThreadOK, OwedBlocks
      <3>3. handles'[t] = OwedHandles(t)' /\ handles'[t] \in Int
        BY <2>5, <2>7 DEF ThreadOK, OwedHandles
      <3>4. pins'[t] = OwedPins(t)'
        BY <2>7 DEF ThreadOK, OwedPins
      <3> QED
        BY <2>2, <2>4, <2>7, <3>1, <3>2, <3>3, <3>4 DEF ThreadOK
    <2> QED
      BY <1>0, <1>1, <2>8, LocalStep
  <1>6. CASE FreeArrays(t)
    <2>1. call[t].op \in {"getInterfaces", "listContainers"}
      BY <1>6 DEF FreeArrays, ThreadOK, ArrayOp
    <2>2. Cardinality(left[t]) = 0
      BY <1>6, FS_EmptySet DEF FreeArrays
    <2>3. ThreadOK(t)'
      BY <1>6, <2>1, <2>2 DEF FreeArrays, ThreadOK, Step, OwedPins, OwedHandles, OwedBlocks
    <2> QED
      BY <1>0, <1>1, <2>3, LocalStep
  <1> QED
    BY <1>3, <1>4, <1>5, <1>6

\* Leaving a method.
LEMMA LeaveStep ==
    ASSUME IInv, NEW t \in Thread, ContainerPut(t) \/ Reply(t)
    PROVE  IInv'
  <1> USE DEF IInv, Shapes, Shape
  <1>0. world' = world
    BY DEF ContainerPut, Reply
  <1>1. Moves(t)
    BY DEF ContainerPut, Reply, Moves
  <1>2. CASE ContainerPut(t)
    <2>1. ThreadOK(t)'
      BY <1>2 DEF ContainerPut, ThreadOK, Step, OwedPins, OwedHandles, OwedBlocks
    <2> QED
      BY <1>0, <1>1, <2>1, LocalStep
  <1>3. CASE Reply(t)
    <2>1. Pins(call[t].op) \in Int
      BY DEF Pins
    <2>2. ThreadOK(t)'
      BY <1>3, <2>1 DEF Reply, ThreadOK, Step, OwedPins, OwedHandles, OwedBlocks
    <2> QED
      BY <1>0, <1>1, <2>2, LocalStep
  <1> QED
    BY <1>2, <1>3

\* The environment: the process dies, or a container changes by itself.
LEMMA EnvironmentStep ==
    ASSUME IInv, Die \/ \E c \in Container : Define(c) \/ Halt(c)
    PROVE  IInv'
  <1>1. CASE Die
    <2>1. Shapes'
      BY <1>1 DEF Die, Shapes, Shape
    <2>2. ASSUME NEW t \in Thread
          PROVE  ThreadOK(t)'
      BY <1>1 DEF Die, ThreadOK, Step, OwedPins, OwedHandles, OwedBlocks
    <2> QED
      BY <1>1, <2>1, <2>2 DEF Die, IInv
  <1>2. ASSUME NEW c \in Container, Define(c) \/ Halt(c)
        PROVE  IInv'
    <2>1. world' \in World
      <3>1. CASE Define(c)
        BY <3>1, RecordTypes DEF Define, IInv, World
      <3>2. CASE Halt(c)
        <4>1. [world[c] EXCEPT !.run = "STOPPED"] \in Record
          BY RecordTypes DEF IInv, World, RunState
        <4> QED
          BY <3>2, <4>1 DEF Halt, IInv, World
      <3> QED
        BY <1>2, <3>1, <3>2
    <2>2. UNCHANGED <<call, pc, handle, ret, left, pins, handles, blocks>>
      BY <1>2 DEF Define, Halt
    <2> QED
      BY <2>1, <2>2 DEF IInv, Shapes, Shape, ThreadOK, OwedPins, OwedHandles, OwedBlocks
  <1> QED
    BY <1>1, <1>2

\* Every step keeps the invariant.
LEMMA StepInv == IInv /\ [Next]_vars => IInv'
  <1> SUFFICES ASSUME IInv, [Next]_vars PROVE IInv'
    OBVIOUS
  <1>1. ASSUME NEW t \in Thread, Proceed(t)
        PROVE  IInv'
    <2>1. CASE \/ ContainerNew(t) \/ ContainerNewFails(t)
               \/ nativeGetErrorNum(t) \/ nativeSetConfigItem(t)
               \/ nativeGetConfigItem(t) \/ FreeValue(t)
               \/ nativeGetInterfaces(t) \/ nativeListContainers(t)
               \/ CopyElement(t) \/ FreeArrays(t)
               \/ ContainerPut(t) \/ Reply(t)
      BY <2>1, EnterStep, HandleStep, ArrayStep, LeaveStep
    <2>2. CASE \/ nativeIsDefined(t) \/ nativeIsRunning(t) \/ nativeGetState(t)
               \/ nativeStartContainer(t) \/ nativeStopContainer(t)
               \/ nativeFreezeContainer(t) \/ nativeUnfreezeContainer(t)
               \/ nativeDestroyContainer(t) \/ nativeCreateSnapshot(t)
      <3> DEFINE r == Subject(t)
      <3>1. call[t] \in Call /\ r \in Record
        BY <2>2 DEF nativeIsDefined, nativeIsRunning, nativeGetState,
           nativeStartContainer, nativeStopContainer, nativeFreezeContainer,
           nativeUnfreezeContainer, nativeDestroyContainer, nativeCreateSnapshot,
           Native, Opened, Subject, IInv, ThreadOK, World, Call
      <3>2. {"isDefined", "isRunning", "getState", "startContainer", "stopContainer",
             "freezeContainer", "unfreezeContainer", "destroyContainer",
             "createSnapshot"} \subseteq Op \ {"listContainers"}
        BY DEF Op, BoolOp, IntOp, StringOp
      <3> HIDE DEF r
      <3>3. CASE nativeIsDefined(t)
        BY <3>1, <3>2, <3>3, LibraryTypes, NativeStep DEF nativeIsDefined, r
      <3>4. CASE nativeIsRunning(t)
        BY <3>1, <3>2, <3>4, LibraryTypes, NativeStep DEF nativeIsRunning, r
      <3>5. CASE nativeGetState(t)
        BY <3>1, <3>2, <3>5, LibraryTypes, NativeStep DEF nativeGetState, r
      <3>6. CASE nativeStartContainer(t)
        BY <3>1, <3>2, <3>6, LibraryTypes, NativeStep DEF nativeStartContainer, r
      <3>7. CASE nativeStopContainer(t)
        BY <3>1, <3>2, <3>7, LibraryTypes, NativeStep DEF nativeStopContainer, r
      <3>8. CASE nativeFreezeContainer(t)
        BY <3>1, <3>2, <3>8, LibraryTypes, NativeStep DEF nativeFreezeContainer, r
      <3>9. CASE nativeUnfreezeContainer(t)
        BY <3>1, <3>2, <3>9, LibraryTypes, NativeStep DEF nativeUnfreezeContainer, r
      <3>10. CASE nativeDestroyContainer(t)
        BY <3>1, <3>2, <3>10, LibraryTypes, NativeStep DEF nativeDestroyContainer, r
      <3>11. CASE nativeCreateSnapshot(t)
        BY <3>1, <3>2, <3>11, LibraryTypes, NativeStep DEF nativeCreateSnapshot, r
      <3> QED
        BY <2>2, <3>3, <3>4, <3>5, <3>6, <3>7, <3>8, <3>9, <3>10, <3>11
    <2> QED
      BY <1>1, <2>1, <2>2 DEF Proceed
  <1>2. CASE UNCHANGED vars
    BY <1>2 DEF vars, IInv, Shapes, Shape, ThreadOK, OwedPins, OwedHandles, OwedBlocks
  <1> QED
    BY <1>1, <1>2, EnterStep, EnvironmentStep DEF Next

\* In every reachable state of the wrapper, with any number of threads, the
\* invariant holds.
LEMMA Invariance == Spec => []IInv
  BY InitInv, StepInv, PTL DEF Spec

-----------------------------------------------------------------------------
(* Safety *)

\* The wrapper's state keeps its types, and every result fits the signature
\* of its method, for any containers, threads and calls.
THEOREM TypeCorrect == Spec => []TypeOK
  BY Invariance, IInvParts, PTL

\* Every path through every native method keeps exact account of the strings,
\* handles and blocks it holds, however the threads interleave.
THEOREM ExactAccounting == Spec => []Accounted
  BY Invariance, IInvParts, PTL

\* No native method works on a handle it has put or on strings it released.
THEOREM NothingFreedInUse == Spec => []NoUseAfterFree
  <1>1. ASSUME IInv, NEW t \in Thread, pc[t] \in {"open", "value", "put"}
        PROVE  handle[t] # None /\ handles[t] >= 1 /\ pins[t] >= 2
    BY <1>1 DEF IInv, ThreadOK, OwedPins, OwedHandles, Pins
  <1>2. IInv => NoUseAfterFree
    BY <1>1 DEF NoUseAfterFree
  <1> QED
    BY <1>2, Invariance, PTL

-----------------------------------------------------------------------------
(* Every step of a method brings it nearer to its reply *)

LEMMA ArraySizes ==
    /\ Cardinality(Iface) \in Nat /\ Cardinality(Container) \in Nat
    /\ \A S \in SUBSET Iface : Cardinality(S) \in Nat /\ Cardinality(S) <= Cardinality(Iface)
    /\ \A S \in SUBSET Container :
          Cardinality(S) \in Nat /\ Cardinality(S) <= Cardinality(Container)
  BY LibAssumption, FS_Subset, FS_CardinalityType

\* A distance is a number of steps.
Measured ==
    \A t \in Thread : Distance(t) \in Nat /\ (pc[t] # "idle" => Distance(t) >= 1)

LEMMA DistanceType == IInv => Measured
  <1>1. ASSUME IInv, NEW t \in Thread
        PROVE  Distance(t) \in Nat /\ (pc[t] # "idle" => Distance(t) >= 1)
    <2>1. pc[t] \in Step /\ Cardinality(left[t]) \in Nat
      BY <1>1, ArraysFinite, FS_CardinalityType DEF IInv, ThreadOK
    <2> QED
      BY <2>1, ArraySizes DEF Step, Distance
  <1> QED
    BY <1>1 DEF Measured

\* A step of one thread leaves what the others own.
LEMMA OthersOwn ==
    ASSUME IInv, NEW t \in Thread, NEW u \in Thread, u # t,
           (\E q \in Workload : Receive(t, q)) \/ Proceed(t)
    PROVE  Own(u)' = Own(u)
  <1> USE DEF IInv, Shapes, Shape
  <1>1. ASSUME NEW op, NEW outcomes, Native(t, op, outcomes) PROVE Own(u)' = Own(u)
    BY <1>1 DEF Native, Own
  <1>2. CASE \/ nativeIsDefined(t) \/ nativeIsRunning(t) \/ nativeGetState(t)
             \/ nativeStartContainer(t) \/ nativeStopContainer(t)
             \/ nativeFreezeContainer(t) \/ nativeUnfreezeContainer(t)
             \/ nativeDestroyContainer(t) \/ nativeCreateSnapshot(t)
    BY <1>1, <1>2
       DEF nativeIsDefined, nativeIsRunning, nativeGetState, nativeStartContainer,
           nativeStopContainer, nativeFreezeContainer, nativeUnfreezeContainer,
           nativeDestroyContainer, nativeCreateSnapshot
  <1>3. CASE \/ \E q \in Workload : Receive(t, q)
             \/ ContainerNew(t) \/ ContainerNewFails(t) \/ ContainerPut(t) \/ Reply(t)
    BY <1>3 DEF Receive, ContainerNew, ContainerNewFails, ContainerPut, Reply, Own
  <1>4. CASE \/ nativeGetErrorNum(t) \/ nativeSetConfigItem(t) \/ nativeGetConfigItem(t)
             \/ FreeValue(t)
    BY <1>4 DEF nativeGetErrorNum, nativeSetConfigItem, nativeGetConfigItem, FreeValue, Own
  <1>5. CASE \/ nativeGetInterfaces(t) \/ nativeListContainers(t)
             \/ CopyElement(t) \/ FreeArrays(t)
    BY <1>5 DEF nativeGetInterfaces, nativeListContainers, CopyElement, FreeArrays, Own
  <1> QED
    BY <1>2, <1>3, <1>4, <1>5 DEF Proceed

\* The steps that enter a loop know how many rounds it has, and a round of it
\* is one less.
LEMMA ArraysNearer ==
    ASSUME IInv, NEW t \in Thread,
           nativeGetInterfaces(t) \/ nativeListContainers(t)
           \/ CopyElement(t) \/ FreeArrays(t)
    PROVE  Distance(t)' < Distance(t)
  <1> USE DEF IInv, Shapes, Shape
  <1>1. CASE nativeGetInterfaces(t)
    <2>1. pc[t] = "open" /\ Distance(t) = 4 + Cardinality(Iface)
      BY <1>1 DEF nativeGetInterfaces, Opened, Distance
    <2>2. \/ pc'[t] = "put"
          \/ pc'[t] = "loop" /\ left'[t] \in SUBSET Iface
      BY <1>1 DEF nativeGetInterfaces, Interfaces
    <2>3. \/ Distance(t)' = 2
          \/ left'[t] \in SUBSET Iface /\ Distance(t)' = 3 + Cardinality(left'[t])
      BY <2>2 DEF Distance
    <2> QED
      BY <2>1, <2>3, ArraySizes
  <1>2. CASE nativeListContainers(t)
    <2>1. pc[t] = "pinned" /\ Distance(t) = 5 + Cardinality(Iface) + Cardinality(Container)
      BY <1>2 DEF nativeListContainers, Distance
    <2>2. \/ pc'[t] = "unpin"
          \/ pc'[t] = "loop" /\ left'[t] \in SUBSET Container
      BY <1>2 DEF nativeListContainers, DefinedIn
    <2>3. \/ Distance(t)' = 1
          \/ left'[t] \in SUBSET Container /\ Distance(t)' = 3 + Cardinality(left'[t])
      BY <2>2 DEF Distance
    <2> QED
      BY <2>1, <2>3, ArraySizes
  <1>3. CASE CopyElement(t)
    <2>1. PICK x \in left[t] : left' = [left EXCEPT ![t] = @ \ {x}]
      BY <1>3 DEF CopyElement
    <2>2. left[t] \in SUBSET (Container \cup Iface)
      BY DEF ThreadOK
    <2>3. pc[t] = "loop" /\ pc'[t] = "loop" /\ left'[t] = left[t] \ {x}
      BY <1>3, <2>1 DEF CopyElement
    <2>4. Distance(t) = 3 + Cardinality(left[t]) /\ Distance(t)' = 3 + Cardinality(left'[t])
      BY <2>3 DEF Distance
    <2> QED
      BY <2>2, <2>3, <2>4, OneLess
  <1>4. CASE FreeArrays(t)
    <2>1. pc[t] = "loop" /\ left[t] = {} /\ pc'[t] \in {"unpin", "put"}
      BY <1>4 DEF FreeArrays
    <2>2. Distance(t) = 3 + Cardinality(left[t]) /\ Distance(t)' \in {1, 2}
      BY <2>1 DEF Distance
    <2> QED
      BY <2>1, <2>2, FS_EmptySet
  <1> QED
    BY <1>1, <1>2, <1>3, <1>4

LEMMA ProceedNearer ==
    ASSUME IInv, NEW t \in Thread, Proceed(t)
    PROVE  Distance(t)' < Distance(t)
  <1> USE DEF IInv, Shapes, Shape
  <1>1. ASSUME NEW op, NEW outcomes, Native(t, op, outcomes)
        PROVE  pc[t] = "open" /\ pc'[t] = "put"
    BY <1>1 DEF Native, Opened
  <1>2. CASE \/ nativeIsDefined(t) \/ nativeIsRunning(t) \/ nativeGetState(t)
             \/ nativeStartContainer(t) \/ nativeStopContainer(t)
             \/ nativeFreezeContainer(t) \/ nativeUnfreezeContainer(t)
             \/ nativeDestroyContainer(t) \/ nativeCreateSnapshot(t)
             \/ nativeGetErrorNum(t) \/ nativeSetConfigItem(t) \/ nativeGetConfigItem(t)
    <2>1. pc[t] = "open" /\ pc'[t] \in {"put", "value"}
      BY <1>1, <1>2
         DEF nativeIsDefined, nativeIsRunning, nativeGetState, nativeStartContainer,
             nativeStopContainer, nativeFreezeContainer, nativeUnfreezeContainer,
             nativeDestroyContainer, nativeCreateSnapshot, nativeGetErrorNum,
             nativeSetConfigItem, nativeGetConfigItem, Opened
    <2> QED
      BY <2>1, ArraySizes DEF Distance
  <1>3. CASE \/ ContainerNew(t) \/ ContainerNewFails(t) \/ FreeValue(t)
             \/ ContainerPut(t) \/ Reply(t)
    <2>1. \/ pc[t] = "pinned" /\ pc'[t] \in {"open", "unpin"}
          \/ pc[t] = "value" /\ pc'[t] = "put"
          \/ pc[t] = "put" /\ pc'[t] = "unpin"
          \/ pc[t] = "unpin" /\ pc'[t] = "idle"
      BY <1>3 DEF ContainerNew, ContainerNewFails, FreeValue, ContainerPut, Reply
    <2> QED
      BY <2>1, ArraySizes DEF Distance
  <1> QED
    BY <1>2, <1>3, ArraysNearer DEF Proceed

\* Whatever happens to a method that was entered brings it nearer to its reply,
\* for arrays of any length and whatever the other threads do.
THEOREM MethodsProgress == Spec => NearerToReply
  <1> DEFINE Nearer ==
        \A t \in Thread :
            pc[t] # "idle" /\ Own(t)' # Own(t) => Distance(t)' \in 0 .. (Distance(t) - 1)
  <1>1. ASSUME IInv, Measured, Measured', [Next]_vars PROVE Nearer
    <2> SUFFICES ASSUME NEW t \in Thread, pc[t] # "idle", Own(t)' # Own(t)
                 PROVE  Distance(t)' < Distance(t)
      BY <1>1 DEF Measured
    <2>1. ASSUME NEW u \in Thread, (\E q \in Workload : Receive(u, q)) \/ Proceed(u)
          PROVE  Distance(t)' < Distance(t)
      <3>1. CASE u # t
        BY <1>1, <2>1, <3>1, OthersOwn
      <3>2. CASE u = t
        <4>1. ~ \E q \in Workload : Receive(t, q)
          BY DEF Receive
        <4> QED
          BY <1>1, <2>1, <3>2, <4>1, ProceedNearer
      <3> QED
        BY <3>1, <3>2
    <2>2. CASE Die
      <3>1. Distance(t)' = 0
        BY <2>2 DEF Die, Distance
      <3> QED
        BY <1>1, <3>1 DEF Measured
    <2>3. ASSUME NEW c \in Container, Define(c) \/ Halt(c) PROVE FALSE
      BY <2>3 DEF Define, Halt, Own
    <2>4. CASE UNCHANGED vars
      BY <2>4 DEF vars, Own
    <2> QED
      BY <1>1, <2>1, <2>2, <2>3, <2>4 DEF Next
  <1>2. IInv /\ Measured /\ Measured' /\ [Next]_vars => [Nearer]_vars
    BY <1>1
  <1> QED
    BY <1>2, DistanceType, Invariance, PTL DEF Spec, NearerToReply

-----------------------------------------------------------------------------
(* The methods implement the atomic service *)

\* The service and the wrapper speak of the same library.
LEMMA SameLibrary ==
    /\ Service!Conf = Conf /\ Service!Undefined = Undefined
    /\ \A f : Service!Created(f) = Created(f)
    /\ Service!Op = Op
    /\ \A op : Service!Default(op) = Default(op)
    /\ \A w : Service!DefinedIn(w) = DefinedIn(w)
    /\ \A S : Service!Strings(S) = Strings(S)
    /\ \A n : Service!Int_(n) = Int_(n)
    /\ \A f, k : Service!Lookup(f, k) = Lookup(f, k)
    /\ \A r : Service!Interfaces(r) = Interfaces(r)
    /\ Service!JNI_TRUE = JNI_TRUE /\ Service!JNI_FALSE = JNI_FALSE
  BY DEF Service!Conf, Conf, Service!Undefined, Undefined, Service!EmptyConf, EmptyConf,
     Service!Created, Created, Service!Op, Op, Service!BoolOp, BoolOp, Service!IntOp, IntOp,
     Service!StringOp, StringOp, Service!ArrayOp, ArrayOp, Service!Default, Default,
     Service!DefinedIn, DefinedIn, Service!Strings, Strings, Service!Int_, Int_,
     Service!Lookup, Lookup, Service!Interfaces, Interfaces, Service!JNI_TRUE, JNI_TRUE,
     Service!JNI_FALSE, JNI_FALSE, Service!Null, Null, Service!Str, Str

LEMMA SameOutcomes ==
    ASSUME NEW r
    PROVE  /\ Service!IsDefined(r) = IsDefined(r)
           /\ Service!IsRunning(r) = IsRunning(r)
           /\ Service!State(r) = State(r)
           /\ Service!Start(r) = Start(r)
           /\ Service!Stop(r) = Stop(r)
           /\ Service!Freeze(r) = Freeze(r)
           /\ Service!Unfreeze(r) = Unfreeze(r)
           /\ Service!Destroy(r) = Destroy(r)
           /\ Service!Snapshot(r) = Snapshot(r)
  <1>1. \A v, q : Service!Outcome(q, v) = Outcome(q, v)
    BY DEF Service!Outcome, Outcome
  <1>2. \A b : Service!Bool(b) = Bool(b)
    BY SameLibrary DEF Service!Bool, Bool
  <1>3. \A can, new : Service!Attempt(r, can, new) = Attempt(r, can, new)
    BY <1>1, SameLibrary DEF Service!Attempt, Attempt
  <1>4. Service!Null = Null /\ \A v : Service!Str(v) = Str(v)
    BY DEF Service!Null, Null, Service!Str, Str
  <1>5. /\ Service!IsDefined(r) = IsDefined(r)
        /\ Service!IsRunning(r) = IsRunning(r)
        /\ Service!State(r) = State(r)
    BY <1>1, <1>2, <1>4 DEF Service!IsDefined, IsDefined, Service!IsRunning, IsRunning,
       Service!State, State
  <1>6. /\ Service!Start(r) = Start(r)
        /\ Service!Stop(r) = Stop(r)
        /\ Service!Freeze(r) = Freeze(r)
        /\ Service!Unfreeze(r) = Unfreeze(r)
        /\ Service!Destroy(r) = Destroy(r)
    BY <1>3, SameLibrary DEF Service!Start, Start, Service!Stop, Stop, Service!Freeze,
       Freeze, Service!Unfreeze, Unfreeze, Service!Destroy, Destroy
  <1>7. Service!Snapshot(r) = Snapshot(r)
    BY <1>1, SameLibrary DEF Service!Snapshot, Snapshot
  <1> QED
    BY <1>5, <1>6, <1>7

\* When one thread moves, no other thread's answer is decided.
LEMMA OneDecides ==
    ASSUME IInv, NEW t \in Thread, Moves(t)
    PROVE  Out' = [Out EXCEPT ![t] = Decided(t)']
  <1>1. ASSUME NEW u \in Thread, u # t
        PROVE  Decided(u)' = Decided(u)
    <2>1. /\ pc'[u] = pc[u] /\ call'[u] = call[u] /\ handle'[u] = handle[u]
          /\ ret'[u] = ret[u] /\ left'[u] = left[u]
      BY <1>1 DEF IInv, Moves, Shapes, Shape
    <2> QED
      BY <2>1 DEF Decided
  <1> QED
    BY <1>1 DEF Out

\* An answer is decided exactly in the steps after the call took effect.
LEMMA WhenDecided ==
    ASSUME IInv, NEW t \in Thread
    PROVE  /\ pc[t] \in {"idle", "pinned"} => Out[t] = None
           /\ pc[t] = "open" /\ call[t].op # "getConfigItem" => Out[t] = None
           /\ pc[t] \in {"value", "put", "unpin"} => Out[t] = ret[t] /\ Out[t] # None
           /\ pc[t] # "idle" => call[t] # None
  BY DEF IInv, ThreadOK, Out, Decided

\* The initial states are the service's.
LEMMA InitRefines == Init => Service!Init
  <1> SUFFICES ASSUME Init PROVE Service!Init
    OBVIOUS
  <1>1. Out = [t \in Thread |-> None]
    BY DEF Init, Out, Decided
  <1> QED
    BY <1>1, SameLibrary DEF Init, Service!Init

\* A native method that makes one library call is that call of the service.
LEMMA NativeRefines ==
    ASSUME IInv, NEW t \in Thread, NEW op \in Op \ {"getConfigItem"},
           NEW STATE outcomes, Native(t, op, outcomes)
    PROVE  Service!Perform(t, op, outcomes)
  <1>1. PICK o \in outcomes : /\ world' = [world EXCEPT ![call[t].c] = o.rec]
                              /\ ret' = [ret EXCEPT ![t] = o.ret]
    BY DEF Native
  <1>2. /\ pc[t] = "open" /\ call[t].op = op /\ UNCHANGED call
        /\ pc' = [pc EXCEPT ![t] = "put"]
    BY DEF Native, Opened
  <1>3. Moves(t)
    BY DEF Native, Moves, IInv, Shapes, Shape
  <1>4. Decided(t)' = o.ret
    BY <1>1, <1>2 DEF Decided, IInv, Shapes, Shape
  <1>5. Out' = [Out EXCEPT ![t] = o.ret]
    BY <1>3, <1>4, OneDecides
  <1> QED
    BY <1>1, <1>2, <1>5, WhenDecided DEF Service!Perform

\* Entering a method receives the call.
LEMMA ReceiveRefines ==
    ASSUME IInv, NEW t \in Thread, NEW q \in Workload, Receive(t, q)
    PROVE  Service!Receive(t, q)
  <1> USE DEF IInv, Shapes, Shape
  <1>1. Moves(t)
    BY DEF Receive, Moves
  <1>2. Out' = [Out EXCEPT ![t] = Decided(t)']
    BY <1>1, OneDecides
  <1>3. Out = [u \in Thread |-> Out[u]]
    BY DEF Out
  <1>4. Decided(t)' = None /\ Out[t] = None /\ call[t] = None
    BY WhenDecided DEF Receive, Decided, ThreadOK
  <1> QED
    BY <1>2, <1>3, <1>4 DEF Service!Receive, Receive

\* Getting a handle is no step of the service, except that it decides a
\* configuration value.
LEMMA HandleGotRefines ==
    ASSUME IInv, NEW t \in Thread, ContainerNew(t)
    PROVE  Service!Execute(t) \/ UNCHANGED Service!vars
  <1> USE DEF IInv, Shapes, Shape
  <1>1. Moves(t)
    BY DEF ContainerNew, Moves
  <1>2. Out' = [Out EXCEPT ![t] = Decided(t)']
    BY <1>1, OneDecides
  <1>3. Out = [u \in Thread |-> Out[u]]
    BY DEF Out
  <1>4. /\ pc[t] = "pinned" /\ pc'[t] = "open" /\ call'[t] = call[t]
        /\ handle'[t] = Fresh(world[call[t].c]) /\ UNCHANGED <<world, call>>
    BY DEF ContainerNew
  <1>5. Out[t] = None /\ call[t] # None
    BY <1>4, WhenDecided
  <1>6. CASE call[t].op = "getConfigItem"
    <2>1. Decided(t)' = Lookup(world[call[t].c].conf, call[t].key)
      BY <1>4, <1>6 DEF Decided, Fresh
    <2>2. Service!getConfigItem(t)
      BY <1>2, <1>4, <1>5, <1>6, <2>1, SameLibrary
         DEF Service!getConfigItem, Service!Observe, Service!Subject
    <2> QED
      BY <2>2 DEF Service!Execute
  <1>7. CASE call[t].op # "getConfigItem"
    <2>1. Decided(t)' = None
      BY <1>4, <1>7 DEF Decided
    <2> QED
      BY <1>2, <1>3, <1>4, <1>5, <2>1 DEF Service!vars
  <1> QED
    BY <1>6, <1>7

\* Getting no handle fails the call.
LEMMA NoHandleRefines ==
    ASSUME IInv, NEW t \in Thread, ContainerNewFails(t)
    PROVE  Service!Fail(t)
  <1> USE DEF IInv, Shapes, Shape
  <1>1. Moves(t)
    BY DEF ContainerNewFails, Moves
  <1>2. Out' = [Out EXCEPT ![t] = Decided(t)']
    BY <1>1, OneDecides
  <1>3. /\ pc[t] = "pinned" /\ UNCHANGED <<world, call>>
        /\ Decided(t)' = Default(call[t].op)
    BY DEF ContainerNewFails, Decided
  <1>4. Out[t] = None /\ call[t] # None /\ call[t].op \in Op
    BY <1>3, WhenDecided DEF ThreadOK, Call
  <1>5. Service!Observe(t, call[t].op, {Default(call[t].op)})
    BY <1>2, <1>3, <1>4 DEF Service!Observe
  <1> QED
    BY <1>4, <1>5, SameLibrary DEF Service!Fail

\* Each of the one-call methods is the operation of the service it is named for.
LEMMA CallsRefine ==
    ASSUME IInv, NEW t \in Thread,
           \/ nativeIsDefined(t) \/ nativeIsRunning(t) \/ nativeGetState(t)
           \/ nativeStartContainer(t) \/ nativeStopContainer(t)
           \/ nativeFreezeContainer(t) \/ nativeUnfreezeContainer(t)
           \/ nativeDestroyContainer(t) \/ nativeCreateSnapshot(t)
    PROVE  Service!Execute(t)
  <1>0. {"isDefined", "isRunning", "getState", "startContainer", "stopContainer",
         "freezeContainer", "unfreezeContainer", "destroyContainer",
         "createSnapshot"} \subseteq Op \ {"getConfigItem"}
    BY DEF Op, BoolOp, IntOp, StringOp
  <1>1. Service!Subject(t) = Subject(t)
    BY DEF Service!Subject, Subject
  <1>2. nativeIsDefined(t) => Service!isDefined(t)
    BY <1>0, <1>1, NativeRefines, SameOutcomes DEF nativeIsDefined, Service!isDefined
  <1>3. nativeIsRunning(t) => Service!isRunning(t)
    BY <1>0, <1>1, NativeRefines, SameOutcomes DEF nativeIsRunning, Service!isRunning
  <1>4. nativeGetState(t) => Service!getState(t)
    BY <1>0, <1>1, NativeRefines, SameOutcomes DEF nativeGetState, Service!getState
  <1>5. nativeStartContainer(t) => Service!startContainer(t)
    BY <1>0, <1>1, NativeRefines, SameOutcomes
       DEF nativeStartContainer, Service!startContainer
  <1>6. nativeStopContainer(t) => Service!stopContainer(t)
    BY <1>0, <1>1, NativeRefines, SameOutcomes DEF nativeStopContainer, Service!stopContainer
  <1>7. nativeFreezeContainer(t) => Service!freezeContainer(t)
    BY <1>0, <1>1, NativeRefines, SameOutcomes
       DEF nativeFreezeContainer, Service!freezeContainer
  <1>8. nativeUnfreezeContainer(t) => Service!unfreezeContainer(t)
    BY <1>0, <1>1, NativeRefines, SameOutcomes
       DEF nativeUnfreezeContainer, Service!unfreezeContainer
  <1>9. nativeDestroyContainer(t) => Service!destroyContainer(t)
    BY <1>0, <1>1, NativeRefines, SameOutcomes
       DEF nativeDestroyContainer, Service!destroyContainer
  <1>10. nativeCreateSnapshot(t) => Service!createSnapshot(t)
    BY <1>0, <1>1, NativeRefines, SameOutcomes
       DEF nativeCreateSnapshot, Service!createSnapshot
  <1> QED
    BY <1>2, <1>3, <1>4, <1>5, <1>6, <1>7, <1>8, <1>9, <1>10 DEF Service!Execute

\* The methods on the handle's own memory decide their answer; a configuration
\* value was decided before.
LEMMA HandleRefines ==
    ASSUME IInv, NEW t \in Thread,
           nativeGetErrorNum(t) \/ nativeSetConfigItem(t)
           \/ nativeGetConfigItem(t) \/ FreeValue(t)
    PROVE  Service!Execute(t) \/ UNCHANGED Service!vars
  <1> USE DEF IInv, Shapes, Shape
  <1>1. Moves(t) /\ UNCHANGED <<world, call>>
    BY DEF nativeGetErrorNum, nativeSetConfigItem, nativeGetConfigItem, FreeValue, Moves
  <1>2. Out' = [Out EXCEPT ![t] = Decided(t)']
    BY <1>1, OneDecides
  <1>3. Out = [u \in Thread |-> Out[u]]
    BY DEF Out
  <1>4. CASE nativeGetErrorNum(t)
    <2>1. /\ pc[t] = "open" /\ call[t].op = "getErrorNum" /\ handle[t].err = 0
          /\ Decided(t)' = Int_(handle[t].err)
      BY <1>4 DEF nativeGetErrorNum, Opened, Decided, ThreadOK
    <2>2. Service!getErrorNum(t)
      BY <1>1, <1>2, <2>1, WhenDecided, SameLibrary
         DEF Service!getErrorNum, Service!Observe
    <2> QED
      BY <2>2 DEF Service!Execute
  <1>5. CASE nativeSetConfigItem(t)
    <2>1. pc[t] = "open" /\ call[t].op = "setConfigItem"
      BY <1>5 DEF nativeSetConfigItem, Opened
    <2>2. PICK ok \in BOOLEAN : ret' = [ret EXCEPT ![t] = Bool(ok)]
      BY <1>5 DEF nativeSetConfigItem
    <2>3. Decided(t)' = Bool(ok)
      BY <1>5, <2>2 DEF nativeSetConfigItem, Decided
    <2>4. Service!Bool(ok) = Bool(ok)
      BY SameLibrary DEF Service!Bool, Bool
    <2>5. Service!setConfigItem(t)
      BY <1>1, <1>2, <2>1, <2>3, <2>4, WhenDecided
         DEF Service!setConfigItem, Service!Observe
    <2> QED
      BY <2>5 DEF Service!Execute
  <1>6. CASE nativeGetConfigItem(t)
    <2>1. Decided(t)' = Decided(t)
      BY <1>6 DEF nativeGetConfigItem, Opened, Decided
    <2> QED
      BY <1>1, <1>2, <1>3, <2>1 DEF Service!vars, Out
  <1>7. CASE FreeValue(t)
    <2>1. Decided(t)' = Decided(t)
      BY <1>7 DEF FreeValue, Decided
    <2> QED
      BY <1>1, <1>2, <1>3, <2>1 DEF Service!vars, Out
  <1> QED
    BY <1>4, <1>5, <1>6, <1>7

\* An array is not the null array.
LEMMA ArrayNotNull == \A S : Strings(S) # Null
  BY DEF Strings, Null

\* An array is decided when the library returns it; copying its elements one
\* by one into the Java array decides nothing more.
LEMMA ArrayRefines ==
    ASSUME IInv, NEW t \in Thread,
           nativeGetInterfaces(t) \/ nativeListContainers(t)
           \/ CopyElement(t) \/ FreeArrays(t)
    PROVE  IF GivesUp(t) THEN Service!Fail(t)
           ELSE Service!Execute(t) \/ UNCHANGED Service!vars
  <1> USE DEF IInv, Shapes, Shape
  <1>1. Moves(t) /\ UNCHANGED <<world, call>>
    BY DEF nativeGetInterfaces, nativeListContainers, CopyElement, FreeArrays, Moves
  <1>2. Out' = [Out EXCEPT ![t] = Decided(t)']
    BY <1>1, OneDecides
  <1>3. Out = [u \in Thread |-> Out[u]]
    BY DEF Out
  <1>4. \A S : Strings({})[2] \cup S = S /\ Strings(S)[2] = S
    BY DEF Strings
  <1>5. ASSUME pc[t] # "idle", Out[t] = None, call[t].op \in ArrayOp,
               Decided(t)' = Null
        PROVE  Service!Fail(t)
    <2>1. Default(call[t].op) = Null /\ call[t].op \in Op
      BY <1>5 DEF Default, ArrayOp, BoolOp, IntOp, Op
    <2>2. Service!Observe(t, call[t].op, {Default(call[t].op)})
      BY <1>1, <1>2, <1>5, <2>1, WhenDecided DEF Service!Observe
    <2> QED
      BY <2>1, <2>2, SameLibrary DEF Service!Fail
  <1>6. CASE nativeGetInterfaces(t)
    <2>1. pc[t] = "open" /\ call[t].op = "getInterfaces" /\ Out[t] = None
      BY <1>6, WhenDecided DEF nativeGetInterfaces, Opened
    <2>4. GivesUp(t) <=> ret'[t] = Null
      BY <1>6, <2>1 DEF GivesUp, ContainerNewFails, nativeListContainers
    <2>2. CASE ret' = [ret EXCEPT ![t] = Null] /\ pc' = [pc EXCEPT ![t] = "put"]
      <3>1. Decided(t)' = Null
        BY <2>2 DEF Decided
      <3>2. Service!Fail(t)
        BY <1>5, <2>1, <3>1 DEF ArrayOp
      <3> QED
        BY <2>2, <2>4, <3>2
    <2>3. CASE \E S \in Interfaces(Subject(t)) :
                  /\ ret' = [ret EXCEPT ![t] = Strings({})]
                  /\ left' = [left EXCEPT ![t] = S]
                  /\ pc' = [pc EXCEPT ![t] = "loop"]
      <3>1. PICK S \in Interfaces(Subject(t)) :
                  /\ ret' = [ret EXCEPT ![t] = Strings({})]
                  /\ left' = [left EXCEPT ![t] = S]
                  /\ pc' = [pc EXCEPT ![t] = "loop"]
        BY <2>3
      <3>2. Decided(t)' = Strings(S)
        BY <1>4, <3>1 DEF Decided
      <3>3. Service!Subject(t) = Subject(t)
        BY DEF Service!Subject, Subject
      <3>4. Strings(S) \in {Service!Strings(R) : R \in Service!Interfaces(Service!Subject(t))}
        BY <3>3, SameLibrary
      <3>5. Service!getInterfaces(t)
        BY <1>1, <1>2, <2>1, <3>2, <3>4, WhenDecided
           DEF Service!getInterfaces, Service!Observe
      <3>6. ~GivesUp(t)
        BY <2>4, <3>1, ArrayNotNull
      <3> QED
        BY <3>5, <3>6 DEF Service!Execute
    <2> QED
      BY <1>6, <2>2, <2>3 DEF nativeGetInterfaces
  <1>7. CASE nativeListContainers(t)
    <2>1. pc[t] = "pinned" /\ call[t].op = "listContainers" /\ Out[t] = None
      BY <1>7, WhenDecided DEF nativeListContainers
    <2>2. GivesUp(t) <=> ret'[t] = Null /\ DefinedIn(world) # {}
      BY <1>7, <2>1 DEF GivesUp, ContainerNewFails, nativeGetInterfaces, Opened
    <2>3. ASSUME Decided(t)' = IF DefinedIn(world) = {} THEN Null ELSE Strings(DefinedIn(world))
          PROVE  Service!Execute(t)
      <3>1. Service!Null = Null
        BY DEF Service!Null, Null
      <3>2. Decided(t)' = LET D == Service!DefinedIn(world)
                          IN  IF D = {} THEN Service!Null ELSE Service!Strings(D)
        BY <2>3, <3>1, SameLibrary
      <3>3. Service!listContainers(t)
        BY <1>1, <1>2, <2>1, <3>2, WhenDecided DEF Service!listContainers, Service!Observe
      <3> QED
        BY <3>3 DEF Service!Execute
    <2>4. CASE ret' = [ret EXCEPT ![t] = Null] /\ pc' = [pc EXCEPT ![t] = "unpin"]
      <3>1. Decided(t)' = Null /\ ret'[t] = Null
        BY <2>4 DEF Decided
      <3>2. Service!Fail(t)
        BY <1>5, <2>1, <3>1 DEF ArrayOp
      <3> QED
        BY <2>2, <2>3, <3>1, <3>2
    <2>5. CASE /\ DefinedIn(world) # {}
               /\ ret' = [ret EXCEPT ![t] = Strings({})]
               /\ left' = [left EXCEPT ![t] = DefinedIn(world)]
               /\ pc' = [pc EXCEPT ![t] = "loop"]
      <3>1. Decided(t)' = Strings(DefinedIn(world))
        BY <1>4, <2>5 DEF Decided
      <3>2. ~GivesUp(t)
        BY <2>2, <2>5, ArrayNotNull
      <3> QED
        BY <2>3, <2>5, <3>1, <3>2
    <2> QED
      BY <1>7, <2>4, <2>5 DEF nativeListContainers
  <1>10. pc[t] = "loop" => ~GivesUp(t)
    BY DEF GivesUp, ContainerNewFails, nativeGetInterfaces, nativeListContainers, Opened
  <1>8. CASE CopyElement(t)
    <2>1. PICK x \in left[t] : /\ ret' = [ret EXCEPT ![t] = Strings(@[2] \cup {x})]
                               /\ left' = [left EXCEPT ![t] = @ \ {x}]
      BY <1>8 DEF CopyElement
    <2>2. pc[t] = "loop" /\ pc'[t] = "loop"
      BY <1>8 DEF CopyElement
    <2>3. ret'[t] = Strings(ret[t][2] \cup {x}) /\ left'[t] = left[t] \ {x}
      BY <2>1
    <2>4. ret'[t][2] = ret[t][2] \cup {x}
      BY <1>4, <2>3
    <2>5. ret'[t][2] \cup left'[t] = ret[t][2] \cup left[t]
      BY <2>1, <2>3, <2>4
    <2>6. Decided(t)' = Decided(t)
      BY <2>2, <2>5 DEF Decided
    <2> QED
      BY <1>1, <1>2, <1>3, <1>10, <2>2, <2>6 DEF Service!vars, Out
  <1>9. CASE FreeArrays(t)
    <2>1. /\ pc[t] = "loop" /\ left[t] = {} /\ pc'[t] \in {"put", "unpin"}
          /\ ret'[t] = ret[t]
      BY <1>9 DEF FreeArrays
    <2>2. PICK S \in SUBSET (Container \cup Iface) : ret[t] = Strings(S)
      BY <2>1 DEF ThreadOK
    <2>3. Strings(ret[t][2] \cup left[t]) = ret[t]
      <3>1. ret[t][2] \cup left[t] = S
        BY <1>4, <2>1, <2>2
      <3> QED
        BY <2>2, <3>1
    <2>4. Decided(t)' = Decided(t)
      BY <2>1, <2>3 DEF Decided
    <2> QED
      BY <1>1, <1>2, <1>3, <1>10, <2>1, <2>4 DEF Service!vars, Out
  <1> QED
    BY <1>6, <1>7, <1>8, <1>9

\* Putting the handle is no step of the service.
LEMMA PutRefines ==
    ASSUME IInv, NEW t \in Thread, ContainerPut(t)
    PROVE  UNCHANGED Service!vars
  <1> USE DEF IInv, Shapes, Shape
  <1>1. Moves(t) /\ UNCHANGED <<world, call>>
    BY DEF ContainerPut, Moves
  <1>2. Out' = [Out EXCEPT ![t] = Decided(t)']
    BY <1>1, OneDecides
  <1>3. Decided(t)' = Decided(t)
    BY DEF ContainerPut, Decided
  <1> QED
    BY <1>1, <1>2, <1>3 DEF Service!vars, Out

\* The reply is the service's.
LEMMA ReplyRefines ==
    ASSUME IInv, NEW t \in Thread, Reply(t)
    PROVE  Service!Reply(t)
  <1> USE DEF IInv, Shapes, Shape
  <1>1. Moves(t) /\ UNCHANGED world
    BY DEF Reply, Moves
  <1>2. Out' = [Out EXCEPT ![t] = Decided(t)']
    BY <1>1, OneDecides
  <1>3. pc[t] = "unpin" /\ call' = [call EXCEPT ![t] = None] /\ Decided(t)' = None
    BY DEF Reply, Decided
  <1> QED
    BY <1>1, <1>2, <1>3, WhenDecided DEF Service!Reply

\* Each step of a method is the reply, the failure or the effect of its call,
\* or no step of the service.
LEMMA ProceedRefines ==
    ASSUME IInv, NEW t \in Thread, Proceed(t)
    PROVE  IF pc[t] = "unpin" THEN Reply(t) /\ Service!Reply(t)
           ELSE IF GivesUp(t) THEN Service!Fail(t)
           ELSE Service!Execute(t) \/ UNCHANGED Service!vars
  <1> DEFINE Query(u) ==
        \/ nativeIsDefined(u) \/ nativeIsRunning(u) \/ nativeGetState(u)
        \/ nativeStartContainer(u) \/ nativeStopContainer(u)
        \/ nativeFreezeContainer(u) \/ nativeUnfreezeContainer(u)
        \/ nativeDestroyContainer(u) \/ nativeCreateSnapshot(u)
  <1>1. Query(t) => pc[t] = "open" /\ call[t].op # "getInterfaces"
    BY DEF nativeIsDefined, nativeIsRunning, nativeGetState, nativeStartContainer,
           nativeStopContainer, nativeFreezeContainer, nativeUnfreezeContainer,
           nativeDestroyContainer, nativeCreateSnapshot, Native, Opened
  <1>2. \/ nativeGetErrorNum(t) \/ nativeSetConfigItem(t) \/ nativeGetConfigItem(t)
        \/ FreeValue(t) \/ ContainerPut(t)
        => pc[t] # "pinned" /\ pc[t] # "unpin" /\ (pc[t] = "open" => call[t].op # "getInterfaces")
    BY DEF nativeGetErrorNum, nativeSetConfigItem, nativeGetConfigItem, FreeValue,
           ContainerPut, Opened
  <1>3. \/ nativeGetInterfaces(t) \/ nativeListContainers(t) \/ CopyElement(t) \/ FreeArrays(t)
        => pc[t] # "unpin"
    BY DEF nativeGetInterfaces, nativeListContainers, CopyElement, FreeArrays, Opened
  <1>4. ContainerNew(t) => pc[t] # "unpin" /\ ~GivesUp(t)
    BY DEF ContainerNew, GivesUp, ContainerNewFails, nativeGetInterfaces, nativeListContainers,
           Opened, IInv, Shapes, Shape
  <1>5. ContainerNewFails(t) => pc[t] # "unpin" /\ GivesUp(t)
    BY DEF ContainerNewFails, GivesUp
  <1>6. pc[t] # "pinned" /\ (pc[t] = "open" => call[t].op # "getInterfaces") => ~GivesUp(t)
    BY DEF GivesUp, ContainerNewFails, nativeGetInterfaces, nativeListContainers, Opened
  <1>7. Query(t) => Service!Execute(t)
    BY CallsRefine
  <1>8. Reply(t) => pc[t] = "unpin"
    BY DEF Reply
  <1> HIDE DEF Query
  <1>9. \/ ContainerNew(t) \/ ContainerNewFails(t) \/ Query(t)
        \/ nativeGetErrorNum(t) \/ nativeSetConfigItem(t) \/ nativeGetConfigItem(t)
        \/ FreeValue(t) \/ ContainerPut(t)
        \/ nativeGetInterfaces(t) \/ nativeListContainers(t) \/ CopyElement(t) \/ FreeArrays(t)
        \/ Reply(t)
    BY DEF Proceed, Query
  <1>10. CASE ContainerNew(t)
    BY <1>4, <1>10, HandleGotRefines
  <1>11. CASE ContainerNewFails(t)
    BY <1>5, <1>11, NoHandleRefines
  <1>12. CASE Query(t)
    BY <1>1, <1>6, <1>7, <1>12
  <1>13. CASE \/ nativeGetErrorNum(t) \/ nativeSetConfigItem(t) \/ nativeGetConfigItem(t)
              \/ FreeValue(t)
    BY <1>2, <1>6, <1>13, HandleRefines
  <1>14. CASE ContainerPut(t)
    BY <1>2, <1>6, <1>14, PutRefines
  <1>15. CASE \/ nativeGetInterfaces(t) \/ nativeListContainers(t)
              \/ CopyElement(t) \/ FreeArrays(t)
    BY <1>3, <1>15, ArrayRefines
  <1>16. CASE Reply(t)
    BY <1>8, <1>16, ReplyRefines
  <1> QED
    BY <1>9, <1>10, <1>11, <1>12, <1>13, <1>14, <1>15, <1>16

\* The service dies with the process, and the device is its device.
LEMMA EnvironmentRefines ==
    ASSUME IInv
    PROVE  /\ Die => Service!Die
           /\ \A c \in Container : Define(c) => Service!Define(c)
           /\ \A c \in Container : Halt(c) => Service!Halt(c)
  <1>1. ASSUME Die PROVE Service!Die
    <2>1. Out' = [t \in Thread |-> None]
      BY <1>1 DEF Die, Out, Decided
    <2> QED
      BY <1>1, <2>1 DEF Die, Service!Die
  <1>2. ASSUME NEW c \in Container, Define(c) \/ Halt(c) PROVE Out' = Out
    BY <1>2 DEF Define, Halt, Out, Decided
  <1>3. ASSUME NEW c \in Container, Define(c) PROVE Service!Define(c)
    BY <1>2, <1>3, SameLibrary DEF Define, Service!Define
  <1>4. ASSUME NEW c \in Container, Halt(c) PROVE Service!Halt(c)
    BY <1>2, <1>4 DEF Halt, Service!Halt
  <1> QED
    BY <1>1, <1>3, <1>4

\* Every step of the wrapper is a step of the service or none.
LEMMA StepRefines == IInv /\ [Next]_vars => [Service!Next]_Service!vars
  <1> SUFFICES ASSUME IInv, [Next]_vars
               PROVE  Service!Next \/ UNCHANGED Service!vars
    OBVIOUS
  <1>1. ASSUME NEW t \in Thread, NEW q \in Workload, Receive(t, q)
        PROVE  Service!Next
    BY <1>1, ReceiveRefines DEF Service!Next
  <1>2. ASSUME NEW t \in Thread, Proceed(t)
        PROVE  Service!Next \/ UNCHANGED Service!vars
    <2>1. Service!Fail(t) \/ Service!Execute(t) \/ Service!Reply(t) => Service!Next
      BY DEF Service!Next, Service!Serve
    <2> QED
      BY <1>2, <2>1, ProceedRefines
  <1>3. CASE Die \/ \E c \in Container : Define(c) \/ Halt(c)
    BY <1>3, EnvironmentRefines DEF Service!Next
  <1>4. CASE UNCHANGED vars
    BY <1>4 DEF vars, Service!vars, Out, Decided
  <1> QED
    BY <1>1, <1>2, <1>3, <1>4 DEF Next

\* However Binder threads interleave and whenever the process dies, the native
\* methods implement the atomic AIDL service.
THEOREM WrapperImplementsService == Spec => ImplementsService
  BY InitRefines, StepRefines, Invariance, PTL DEF Spec, ImplementsService, Service!Spec
=============================================================================
