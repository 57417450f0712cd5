------------------------------- MODULE LxcLib -------------------------------
(***************************************************************************)
(* What the JNI layer relies on of liblxc and of the LXC path it manages:  *)
(* the containers that exist there, the state each one is in, and what one *)
(* liblxc call may do to a container.  liblxc is not part of this          *)
(* repository; these operators say of it what jni-wrapper.c,               *)
(* lxc-binding.c and the vendored header lxc/lxccontainer.h rely on.       *)
(* A call to the library is one step, and may fail without an effect.      *)
(***************************************************************************)
EXTENDS Integers, FiniteSets

CONSTANTS
    Container,  \* names a container may have under the LXC path
    Key,        \* configuration keys
    Value,      \* configuration values
    Unset,      \* a key with no value
    Iface,      \* network interface names inside a container
    MaxSnaps,   \* bound: snapshots a container may have
    None        \* no call, or no answer yet

\* The names are few, and the two placeholders are told apart from every
\* value they stand in for.
ASSUME LibAssumption ==
    /\ IsFiniteSet(Container)
    /\ IsFiniteSet(Iface)
    /\ Unset \notin Value
    /\ MaxSnaps \in Nat

-----------------------------------------------------------------------------
(* Containers on disk *)

RunState == {"STOPPED", "RUNNING", "FROZEN"}

Conf == [Key -> Value \cup {Unset}]

EmptyConf == [k \in Key |-> Unset]

Record == [defined : BOOLEAN, run : RunState, conf : Conf, snaps : 0..MaxSnaps]

World == [Container -> Record]

Undefined ==
    [defined |-> FALSE, run |-> "STOPPED", conf |-> EmptyConf, snaps |-> 0]

\* A container as lxc-create leaves it, with configuration f.
Created(f) == [defined |-> TRUE, run |-> "STOPPED", conf |-> f, snaps |-> 0]

DefinedIn(w) == {c \in Container : w[c].defined}

-----------------------------------------------------------------------------
(* The operations of the AIDL interface and the values they return: a jni  *)
(* value is a pair of its kind and its content; null is the null reference *)

BoolOp == {"isDefined", "isRunning", "startContainer", "stopContainer",
           "freezeContainer", "unfreezeContainer", "destroyContainer",
           "setConfigItem"}
IntOp == {"createSnapshot", "getErrorNum"}
StringOp == {"getState", "getConfigItem"}
ArrayOp == {"listContainers", "getInterfaces"}

Op == BoolOp \cup IntOp \cup StringOp \cup ArrayOp

\* One shape for every call; an operation ignores the fields it does not take.
Call == [op : Op, c : Container, key : Key, val : Value]

JNI_TRUE == <<"jboolean", 1>>
JNI_FALSE == <<"jboolean", 0>>
Bool(b) == IF b THEN JNI_TRUE ELSE JNI_FALSE
Int_(n) == <<"jint", n>>
Str(s) == <<"jstring", s>>
Strings(S) == <<"String[]", S>>
Null == <<"null">>

\* The values an operation may return by its signature.
ResultOf(op) ==
    IF op \in BoolOp THEN {JNI_TRUE, JNI_FALSE}
    ELSE IF op \in IntOp THEN {Int_(n) : n \in -1..MaxSnaps}
    ELSE IF op \in StringOp
         THEN {Str(s) : s \in RunState \cup Value} \cup {Null}
    ELSE {Strings(S) : S \in SUBSET (Container \cup Iface)} \cup {Null}

Result == UNION {ResultOf(op) : op \in Op}

\* A slip: every method starts from result = -1.
DefaultMinusOne(op) == Int_(-1)

\* What a wrapper returns when it gets no container handle.
Default(op) ==
    IF op \in BoolOp THEN JNI_FALSE ELSE IF op \in IntOp THEN Int_(-1) ELSE Null

-----------------------------------------------------------------------------
(* Library calls: the set of outcomes, each with the container's new record *)
(* and the value the binding returns.                                       *)

Outcome(r, v) == [rec |-> r, ret |-> v]

\* A call that may always fail, and that succeeds only when it can.
Attempt(r, can, new) ==
    {Outcome(r, JNI_FALSE)} \cup (IF can THEN {Outcome(new, JNI_TRUE)} ELSE {})

Start(r) ==
    Attempt(r, r.defined /\ r.run = "STOPPED", [r EXCEPT !.run = "RUNNING"])
Stop(r) == Attempt(r, r.run # "STOPPED", [r EXCEPT !.run = "STOPPED"])
Freeze(r) == Attempt(r, r.run # "STOPPED", [r EXCEPT !.run = "FROZEN"])
Unfreeze(r) == Attempt(r, r.run # "STOPPED", [r EXCEPT !.run = "RUNNING"])

\* A container must be stopped and have no snapshots to be destroyed.
Destroy(r) ==
    Attempt(r, r.defined /\ r.run = "STOPPED" /\ r.snaps = 0, Undefined)

\* The new snapshot's number counts from zero; a failure is -1.
Snapshot(r) ==
    {Outcome(r, Int_(-1))} \cup
    (IF r.defined /\ r.run = "STOPPED" /\ r.snaps < MaxSnaps
     THEN {Outcome([r EXCEPT !.snaps = r.snaps + 1], Int_(r.snaps))} ELSE {})

IsDefined(r) == {Outcome(r, Bool(r.defined))}
IsRunning(r) == {Outcome(r, Bool(r.run # "STOPPED"))}
State(r) == {Outcome(r, Str(r.run)), Outcome(r, Null)}

\* Interface names can be read of a running container only.
Interfaces(r) == IF r.run = "STOPPED" THEN {{}} ELSE SUBSET Iface

\* What a configuration holds for a key; an unset key has length 0.
Lookup(conf, k) == IF conf[k] = Unset THEN Null ELSE Str(conf[k])
=============================================================================
