---------------------------- MODULE LxcLibProofs ----------------------------
(***************************************************************************)
(* Lemmas about the operators of LxcLib: what an outcome of a library call *)
(* may be, for any containers, keys and values.  The modules about the     *)
(* components that call the library rest on them.                          *)
(***************************************************************************)
EXTENDS LxcLib, FiniteSetTheorems, TLAPS

-----------------------------------------------------------------------------
(* The library calls *)

\* Every array the library may return is finite.
LEMMA ArraysFinite ==
    ASSUME NEW S \in SUBSET (Container \cup Iface)
    PROVE  IsFiniteSet(S)
  <1>1. IsFiniteSet(Container \cup Iface)
    BY LibAssumption, FS_Union
  <1> QED
    BY <1>1, FS_Subset

\* What a method may return, by the kind of its signature.
LEMMA Signatures ==
    /\ \A op \in BoolOp : ResultOf(op) = {JNI_TRUE, JNI_FALSE}
    /\ \A op \in IntOp : ResultOf(op) = {Int_(n) : n \in -1..MaxSnaps}
    /\ \A op \in StringOp :
          ResultOf(op) = {Str(s) : s \in RunState \cup Value} \cup {Null}
    /\ \A op \in ArrayOp :
          ResultOf(op) = {Strings(S) : S \in SUBSET (Container \cup Iface)} \cup {Null}
  BY DEF ResultOf, BoolOp, IntOp, StringOp, ArrayOp

\* A jboolean is one of two values.
LEMMA BoolValue == ASSUME NEW b PROVE Bool(b) \in {JNI_TRUE, JNI_FALSE}
  BY DEF Bool

\* A call that is attempted leaves the container alone or has its effect.
LEMMA AttemptTypes ==
    ASSUME NEW r \in Record, NEW can, NEW new \in Record, NEW op \in BoolOp,
           NEW o \in Attempt(r, can, new)
    PROVE  o.rec \in Record /\ o.ret \in ResultOf(op)
  <1>1. o \in {Outcome(r, JNI_FALSE), Outcome(new, JNI_TRUE)}
    BY DEF Attempt
  <1> QED
    BY <1>1, Signatures DEF Outcome

\* An effect on a container yields a container.
LEMMA RecordTypes ==
    /\ Undefined \in Record
    /\ \A r \in Record, s \in RunState : [r EXCEPT !.run = s] \in Record
    /\ \A r \in Record : r.snaps \in 0..MaxSnaps
    /\ \A r \in Record, n \in 0..MaxSnaps : [r EXCEPT !.snaps = n] \in Record
    /\ \A f \in Conf : Created(f) \in Record
  <1>1. Undefined \in Record /\ \A f \in Conf : Created(f) \in Record
    BY LibAssumption DEF Record, RunState, Undefined, Created, EmptyConf, Conf
  <1>2. \A r \in Record, s \in RunState : [r EXCEPT !.run = s] \in Record
    BY DEF Record
  <1>3. /\ \A r \in Record : r.snaps \in 0..MaxSnaps
        /\ \A r \in Record, n \in 0..MaxSnaps : [r EXCEPT !.snaps = n] \in Record
    BY DEF Record
  <1> QED
    BY <1>1, <1>2, <1>3

\* The library returns records of containers, and values that fit the
\* signature of the method that asked.
LEMMA LibraryTypes ==
    ASSUME NEW r \in Record
    PROVE  /\ \A o \in IsDefined(r) : o.rec \in Record /\ o.ret \in ResultOf("isDefined")
           /\ \A o \in IsRunning(r) : o.rec \in Record /\ o.ret \in ResultOf("isRunning")
           /\ \A o \in State(r) : o.rec \in Record /\ o.ret \in ResultOf("getState")
           /\ \A o \in Start(r) : o.rec \in Record /\ o.ret \in ResultOf("startContainer")
           /\ \A o \in Stop(r) : o.rec \in Record /\ o.ret \in ResultOf("stopContainer")
           /\ \A o \in Freeze(r) : o.rec \in Record /\ o.ret \in ResultOf("freezeContainer")
           /\ \A o \in Unfreeze(r) : o.rec \in Record /\ o.ret \in ResultOf("unfreezeContainer")
           /\ \A o \in Destroy(r) : o.rec \in Record /\ o.ret \in ResultOf("destroyContainer")
           /\ \A o \in Snapshot(r) : o.rec \in Record /\ o.ret \in ResultOf("createSnapshot")
  <1>1. /\ \A o \in IsDefined(r) : o.rec \in Record /\ o.ret \in ResultOf("isDefined")
        /\ \A o \in IsRunning(r) : o.rec \in Record /\ o.ret \in ResultOf("isRunning")
    <2>1. /\ Bool(r.defined) \in ResultOf("isDefined")
          /\ Bool(r.run # "STOPPED") \in ResultOf("isRunning")
      BY Signatures, BoolValue DEF BoolOp
    <2> QED
      BY <2>1 DEF IsDefined, IsRunning, Outcome
  <1>2. \A o \in State(r) : o.rec \in Record /\ o.ret \in ResultOf("getState")
    BY Signatures DEF State, Outcome, StringOp, Record
  <1>3. /\ \A o \in Start(r) : o.rec \in Record /\ o.ret \in ResultOf("startContainer")
        /\ \A o \in Stop(r) : o.rec \in Record /\ o.ret \in ResultOf("stopContainer")
        /\ \A o \in Freeze(r) : o.rec \in Record /\ o.ret \in ResultOf("freezeContainer")
        /\ \A o \in Unfreeze(r) : o.rec \in Record /\ o.ret \in ResultOf("unfreezeContainer")
        /\ \A o \in Destroy(r) : o.rec \in Record /\ o.ret \in ResultOf("destroyContainer")
    BY RecordTypes, AttemptTypes
       DEF Start, Stop, Freeze, Unfreeze, Destroy, RunState, BoolOp
  <1>4. \A o \in Snapshot(r) : o.rec \in Record /\ o.ret \in ResultOf("createSnapshot")
    <2> SUFFICES ASSUME NEW o \in Snapshot(r)
                 PROVE  o.rec \in Record /\ o.ret \in ResultOf("createSnapshot")
      OBVIOUS
    <2>1. CASE o = Outcome(r, Int_(-1))
      BY <2>1, Signatures, LibAssumption DEF Outcome, IntOp
    <2>2. CASE /\ o = Outcome([r EXCEPT !.snaps = r.snaps + 1], Int_(r.snaps))
               /\ r.snaps < MaxSnaps
      <3>1. r.snaps \in 0..MaxSnaps /\ r.snaps + 1 \in 0..MaxSnaps
        BY <2>2, RecordTypes, LibAssumption
      <3>2. [r EXCEPT !.snaps = r.snaps + 1] \in Record
        BY <3>1, RecordTypes
      <3>3. Int_(r.snaps) \in ResultOf("createSnapshot")
        BY <3>1, Signatures DEF IntOp
      <3> QED
        BY <2>2, <3>2, <3>3 DEF Outcome
    <2> QED
      BY <2>1, <2>2 DEF Snapshot
  <1> QED
    BY <1>1, <1>2, <1>3, <1>4

\* What a wrapper returns without a handle fits the method's signature.
LEMMA DefaultType == \A op \in Op : Default(op) \in ResultOf(op)
  BY Signatures, LibAssumption DEF Default, Op, ArrayOp

\* What a configuration holds for a key is a string or null.
LEMMA LookupType ==
    ASSUME NEW f \in Conf, NEW k \in Key
    PROVE  Lookup(f, k) \in ResultOf("getConfigItem")
  BY Signatures DEF Lookup, Conf, StringOp
=============================================================================
