--------------------------- MODULE EndToEndProofs ---------------------------
(***************************************************************************)
(* Listings made of native methods are listings made of atomic calls, for  *)
(* any threads, containers and calls of the rest of the app: what          *)
(* JniWrapperProofs shows of each step of a method, seen from the client.  *)
(***************************************************************************)
EXTENDS EndToEnd, JniWrapperProofs

-----------------------------------------------------------------------------
(* The service of the wrapper is the service of the app *)

LEMMA SameInit == Service!Init => App!Init
  BY DEF Service!Init, App!Init, Service!Undefined, App!Undefined, Service!EmptyConf,
         App!EmptyConf, Service!Created, App!Created, Service!Conf, App!Conf

LEMMA SameCalls ==
    ASSUME NEW t
    PROVE  /\ \A q : Service!Receive(t, q) => App!Receive(t, q)
           /\ Service!Reply(t) => App!Reply(t)
  BY DEF Service!Receive, App!Receive, Service!Reply, App!Reply

LEMMA SameEnvironment ==
    /\ Service!Die => App!Die
    /\ \A c : Service!Define(c) => App!Define(c)
    /\ \A c : Service!Halt(c) => App!Halt(c)
  BY DEF Service!Die, App!Die, Service!Define, App!Define, Service!Halt, App!Halt,
         Service!Created, App!Created, Service!Conf, App!Conf

LEMMA SameFailure ==
    ASSUME NEW t, Service!Fail(t)
    PROVE  App!Fail(t)
  BY DEF Service!Fail, App!Fail, Service!Observe, App!Observe, Service!Op, App!Op,
         Service!BoolOp, App!BoolOp, Service!IntOp, App!IntOp, Service!StringOp, App!StringOp,
         Service!ArrayOp, App!ArrayOp, Service!Default, App!Default, Service!JNI_FALSE,
         App!JNI_FALSE, Service!Int_, App!Int_, Service!Null, App!Null

LEMMA SameExecute ==
    ASSUME NEW t, Service!Execute(t)
    PROVE  App!Execute(t)
  BY DEF Service!Execute, App!Execute, Service!isDefined, App!isDefined,
         Service!isRunning, App!isRunning, Service!getState, App!getState,
         Service!startContainer, App!startContainer, Service!stopContainer, App!stopContainer,
         Service!freezeContainer, App!freezeContainer,
         Service!unfreezeContainer, App!unfreezeContainer,
         Service!destroyContainer, App!destroyContainer,
         Service!createSnapshot, App!createSnapshot, Service!getInterfaces, App!getInterfaces,
         Service!listContainers, App!listContainers, Service!getConfigItem, App!getConfigItem,
         Service!setConfigItem, App!setConfigItem, Service!getErrorNum, App!getErrorNum,
         Service!Perform, App!Perform, Service!Observe, App!Observe,
         Service!Subject, App!Subject, Service!IsDefined, App!IsDefined,
         Service!IsRunning, App!IsRunning, Service!State, App!State, Service!Start, App!Start,
         Service!Stop, App!Stop, Service!Freeze, App!Freeze, Service!Unfreeze, App!Unfreeze,
         Service!Destroy, App!Destroy, Service!Snapshot, App!Snapshot,
         Service!Attempt, App!Attempt, Service!Outcome, App!Outcome,
         Service!Undefined, App!Undefined, Service!EmptyConf, App!EmptyConf,
         Service!Interfaces, App!Interfaces, Service!DefinedIn, App!DefinedIn,
         Service!Lookup, App!Lookup, Service!Bool, App!Bool, Service!Int_, App!Int_,
         Service!Str, App!Str, Service!Strings, App!Strings, Service!Null, App!Null,
         Service!JNI_TRUE, App!JNI_TRUE, Service!JNI_FALSE, App!JNI_FALSE

-----------------------------------------------------------------------------
(* The history of a listing *)

Run(w) == App!RunningIn(w)
Defined(w) == App!DefinedIn(w)

\* The history is up to date with the containers, so that a step which leaves
\* those alone adds nothing to it.
RecordedBy(t) ==
    IF phase[t] = "idle"
    THEN ran[t] = {} /\ rested[t] = {} /\ steady[t] = {} /\ ~cut[t]
    ELSE /\ Run(world) \subseteq ran[t]
         /\ Container \ Run(world) \subseteq rested[t]
         /\ steady[t] \subseteq Run(world) \cap Defined(world)

Recorded ==
    /\ ran = [t \in Lister |-> ran[t]]
    /\ rested = [t \in Lister |-> rested[t]]
    /\ steady = [t \in Lister |-> steady[t]]
    /\ cut \in [Lister -> BOOLEAN]
    /\ \A t \in Lister : RecordedBy(t)

\* Whoever watches a step brings the history up to date.
LEMMA WatchRecords ==
    ASSUME NEW F, App!Watch(F)
    PROVE  Recorded'
  <1>1. /\ ran' = [t \in Lister |-> ran'[t]]
        /\ rested' = [t \in Lister |-> rested'[t]]
        /\ steady' = [t \in Lister |-> steady'[t]]
        /\ cut' \in [Lister -> BOOLEAN]
    BY DEF App!Watch
  <1>2. ASSUME NEW t \in Lister PROVE RecordedBy(t)'
    <2>1. CASE phase'[t] = "idle"
      <3>1. ran'[t] = {} /\ rested'[t] = {} /\ steady'[t] = {} /\ ~cut'[t]
        BY <2>1 DEF App!Watch
      <3> QED
        BY <2>1, <3>1 DEF RecordedBy
    <2>2. CASE phase'[t] # "idle"
      <3>1. /\ ran'[t] = ran[t] \cup Run(world')
            /\ rested'[t] = rested[t] \cup (Container \ Run(world'))
            /\ steady'[t] \subseteq Run(world') \cap Defined(world')
        BY <2>2 DEF App!Watch, Run, Defined
      <3> QED
        BY <2>2, <3>1 DEF RecordedBy
    <2> QED
      BY <2>1, <2>2
  <1> QED
    BY <1>1, <1>2 DEF Recorded

\* A step that no listing can see leaves the history as it is.
LEMMA NothingToRecord ==
    ASSUME Recorded, UNCHANGED <<world, phase>>, App!Watch({})
    PROVE  UNCHANGED App!history
  <1>1. ASSUME NEW t \in Lister
        PROVE  /\ ran'[t] = ran[t] /\ rested'[t] = rested[t]
               /\ steady'[t] = steady[t] /\ cut'[t] = cut[t]
    <2>1. RecordedBy(t) /\ cut[t] \in BOOLEAN
      BY DEF Recorded
    <2>2. CASE phase[t] = "idle"
      <3>1. ran'[t] = {} /\ rested'[t] = {} /\ steady'[t] = {} /\ cut'[t] = FALSE
        BY <2>2 DEF App!Watch
      <3> QED
        BY <2>1, <2>2, <3>1 DEF RecordedBy
    <2>3. CASE phase[t] # "idle"
      <3>1. /\ ran'[t] = ran[t] \cup Run(world)
            /\ rested'[t] = rested[t] \cup (Container \ Run(world))
            /\ steady'[t] = (Run(world) \cap Defined(world)) \cap steady[t]
            /\ cut'[t] = cut[t]
        BY <2>1, <2>3 DEF App!Watch, Run, Defined
      <3> QED
        BY <2>1, <2>3, <3>1 DEF RecordedBy
    <2> QED
      BY <2>2, <2>3
  <1>2. /\ ran' = [t \in Lister |-> ran'[t]] /\ rested' = [t \in Lister |-> rested'[t]]
        /\ steady' = [t \in Lister |-> steady'[t]] /\ cut' = [t \in Lister |-> cut'[t]]
    BY DEF App!Watch
  <1>3. /\ ran' = ran /\ rested' = rested /\ steady' = steady /\ cut' = cut
    BY <1>1, <1>2 DEF Recorded
  <1> QED
    BY <1>3 DEF App!history

LEMMA InitRecorded == AllInit => Recorded
  BY DEF AllInit, App!ClientInit, Recorded, RecordedBy

-----------------------------------------------------------------------------
(* Every step is one of the wrapper, and one of the manager or none *)

LEMMA WrapperStep == AllNext => [Next]_vars
  <1> SUFFICES ASSUME AllNext PROVE [Next]_vars
    OBVIOUS
  <1> USE EndToEndAssumption
  <1>1. ASSUME NEW t \in Lister, Listing(t) \/ Lost(t) PROVE [Next]_vars
    <2>1. CASE AppStep(t) \/ Lost(t)
      BY <2>1 DEF AppStep, Lost
    <2>2. CASE Transact(t)
      BY <2>2 DEF Transact, Next
    <2>3. CASE Answer(t)
      BY <2>3 DEF Answer, Next, Proceed
    <2> QED
      BY <1>1, <2>1, <2>2, <2>3 DEF Listing
  <1>2. ASSUME NEW t \in Thread \ Lister, SingleCall(t) PROVE Next
    BY <1>2 DEF SingleCall, Next, Proceed
  <1>3. ASSUME NEW t \in Thread, Serve(t) PROVE Next
    BY <1>3 DEF Serve, Next
  <1>4. CASE ServiceDies \/ Device
    BY <1>4 DEF ServiceDies, Device, Next
  <1> QED
    BY <1>1, <1>2, <1>3, <1>4 DEF AllNext

\* The app's own steps, and what it does when a call leaves, comes back or is lost.
LEMMA ListingRefines ==
    ASSUME IInv, NEW t \in Lister
    PROVE  /\ Listing(t) => App!Listing(t)
           /\ Lost(t) => App!Lost(t)
  <1>0. t \in Thread
    BY EndToEndAssumption
  <1>1. ASSUME Transact(t) PROVE App!Transact(t)
    <2>1. PICK op \in {"listContainers", "isRunning"}, c \in Container :
             App!Asks(t, op, c) /\ Receive(t, App!Query(op, c))
      BY <1>1 DEF Transact
    <2>2. App!Query(op, c) \in Workload
      BY EndToEndAssumption
    <2>3. App!Receive(t, App!Query(op, c))
      BY <1>0, <2>1, <2>2, ReceiveRefines, SameCalls
    <2> QED
      BY <2>1, <2>3 DEF App!Transact
  <1>2. ASSUME Answer(t) PROVE App!Answer(t)
    <2>1. Reply(t) /\ pc[t] = "unpin" /\ App!Takes(t, ret[t])
      BY <1>2 DEF Answer, Reply
    <2>2. App!Reply(t)
      BY <1>0, <2>1, ReplyRefines, SameCalls
    <2>3. Out[t] = ret[t]
      BY <1>0, <2>1, WhenDecided
    <2> QED
      BY <2>1, <2>2, <2>3 DEF App!Answer
  <1>3. AppStep(t) => App!Begin(t) \/ App!Finish(t) \/ App!Return(t)
    BY DEF AppStep
  <1> QED
    BY <1>1, <1>2, <1>3 DEF Listing, App!Listing, Lost

\* A step of a method is the effect or the failure of a call, or none.
LEMMA ServeRefines ==
    ASSUME IInv, Recorded, NEW t \in Thread, Serve(t),
           App!Watch(IF GivesUp(t) THEN {t} ELSE {})
    PROVE  App!ManagerNext \/ UNCHANGED App!managerVars
  <1>1. pc[t] # "unpin" /\ Proceed(t) /\ UNCHANGED <<up, App!client>>
    BY DEF Serve, client, App!client
  <1>2. CASE GivesUp(t)
    <2>1. App!Fail(t) /\ App!Watch({t})
      BY <1>1, <1>2, ProceedRefines, SameFailure
    <2> QED
      BY <1>1, <2>1 DEF App!ManagerNext
  <1>3. CASE ~GivesUp(t) /\ Service!Execute(t)
    <2>1. App!Execute(t) /\ App!Watch({})
      BY <1>3, SameExecute
    <2> QED
      BY <1>1, <2>1 DEF App!ManagerNext
  <1>4. CASE ~GivesUp(t) /\ UNCHANGED Service!vars
    <2>1. UNCHANGED App!vars /\ UNCHANGED <<world, phase>>
      BY <1>1, <1>4 DEF Service!vars, App!vars, App!client
    <2>2. UNCHANGED App!history
      BY <1>4, <2>1, NothingToRecord
    <2> QED
      BY <1>1, <2>1, <2>2 DEF App!managerVars
  <1> QED
    BY <1>1, <1>2, <1>3, <1>4, ProceedRefines

LEMMA StepImplements ==
    IInv /\ Recorded /\ [AllNext]_allVars => [App!ManagerNext]_App!managerVars
  <1> SUFFICES ASSUME IInv, Recorded, [AllNext]_allVars
               PROVE  App!ManagerNext \/ UNCHANGED App!managerVars
    OBVIOUS
  <1>1. ASSUME NEW t \in Lister, Listing(t), App!Watch({}) PROVE App!ManagerNext
    BY <1>1, ListingRefines DEF App!ManagerNext
  <1>2. ASSUME NEW t \in Lister, Lost(t), App!Watch({t}) PROVE App!ManagerNext
    BY <1>2, ListingRefines DEF App!ManagerNext
  <1>3. ASSUME NEW t \in Thread \ Lister, SingleCall(t), App!Watch({}) PROVE App!ManagerNext
    <2>1. App!SingleCall(t)
      <3>1. ASSUME NEW q \in Single, Receive(t, q) PROVE App!Receive(t, q)
        BY <3>1, EndToEndAssumption, ReceiveRefines, SameCalls
      <3>2. Reply(t) => App!Reply(t)
        BY ReplyRefines, SameCalls
      <3> QED
        BY <1>3, <3>1, <3>2 DEF SingleCall, App!SingleCall, client, App!client
    <2> QED
      BY <1>3, <2>1 DEF App!ManagerNext
  <1>4. ASSUME NEW t \in Thread, Serve(t), App!Watch(IF GivesUp(t) THEN {t} ELSE {})
        PROVE  App!ManagerNext \/ UNCHANGED App!managerVars
    BY <1>4, ServeRefines
  <1>5. CASE ServiceDies /\ App!Watch({})
    <2>1. App!ServiceDies
      BY <1>5, EnvironmentRefines, SameEnvironment
         DEF ServiceDies, App!ServiceDies, client, App!client
    <2> QED
      BY <1>5, <2>1 DEF App!ManagerNext
  <1>6. CASE Device /\ App!Watch({})
    <2>1. App!Device
      BY <1>6, EnvironmentRefines, SameEnvironment DEF Device, App!Device, client, App!client
    <2> QED
      BY <1>6, <2>1 DEF App!ManagerNext
  <1>7. CASE UNCHANGED allVars
    BY <1>7 DEF allVars, vars, client, App!managerVars, App!vars, App!client, App!history,
                Out, Decided
  <1> QED
    BY <1>1, <1>2, <1>3, <1>4, <1>5, <1>6, <1>7 DEF AllNext

\* The listings that the app makes of native methods are listings made of calls
\* that take effect at one instant each, however methods interleave and whenever
\* the process dies.
THEOREM ListingsThroughMethods == AllSpec => ImplementsManager
<1>1. AllInit => IInv /\ Recorded
  BY InitInv, InitRecorded DEF AllInit
<1>2. AllInit => App!ManagerInit
  BY InitRefines, SameInit DEF AllInit, App!ManagerInit
<1>3. IInv /\ Recorded /\ [AllNext]_allVars => (IInv /\ Recorded)'
  <2>1. ASSUME AllNext PROVE Recorded'
    BY <2>1, WatchRecords DEF AllNext
  <2>2. ASSUME Recorded, UNCHANGED allVars PROVE Recorded'
    BY <2>2 DEF allVars, client, vars, Recorded, RecordedBy, Run, Defined
  <2>3. [AllNext]_allVars => [Next]_vars
    BY WrapperStep DEF allVars
  <2> QED
    BY <2>1, <2>2, <2>3, StepInv
<1> QED
  BY <1>1, <1>2, <1>3, StepImplements, PTL DEF AllSpec, ImplementsManager, App!ManagerSpec

-----------------------------------------------------------------------------
(* What LxcManagerProofs shows of the manager holds of the app *)

Client == INSTANCE LxcManagerProofs WITH Workload <- Single, req <- call, out <- Out

\* Two instances of one module are the same.
LEMMA SameManagerInit == App!ManagerInit => Client!ManagerInit
  BY DEF App!ClientInit, Client!ClientInit, App!Conf, Client!Conf, App!Created, Client!Created,
         App!EmptyConf, Client!EmptyConf, App!Init, Client!Init, App!ManagerInit,
         Client!ManagerInit, App!Undefined, Client!Undefined

LEMMA SameManagerVars == UNCHANGED App!managerVars => UNCHANGED Client!managerVars
  BY DEF App!client, Client!client, App!history, Client!history, App!managerVars,
         Client!managerVars, App!vars, Client!vars

LEMMA SameManagerNext == App!ManagerNext => Client!ManagerNext
  BY DEF App!Answer, Client!Answer, App!ArrayOp, Client!ArrayOp, App!Asks, Client!Asks,
         App!Attempt, Client!Attempt, App!Begin, Client!Begin, App!Bool, Client!Bool,
         App!BoolOp, Client!BoolOp, App!Conf, Client!Conf, App!Created, Client!Created,
         App!Default, Client!Default, App!Define, Client!Define, App!DefinedIn,
         Client!DefinedIn, App!Destroy, Client!Destroy, App!Device, Client!Device, App!Die,
         Client!Die, App!EmptyConf, Client!EmptyConf, App!Execute, Client!Execute, App!Fail,
         Client!Fail, App!Finish, Client!Finish, App!Freeze, Client!Freeze, App!Halt,
         Client!Halt, App!IntOp, Client!IntOp, App!Int_, Client!Int_, App!Interfaces,
         Client!Interfaces, App!IsDefined, Client!IsDefined, App!IsRunning, Client!IsRunning,
         App!JNI_FALSE, Client!JNI_FALSE, App!JNI_TRUE, Client!JNI_TRUE, App!Kinds,
         Client!Kinds, App!Listing, Client!Listing, App!Lookup, Client!Lookup, App!Lost,
         Client!Lost, App!ManagerNext, Client!ManagerNext, App!Null, Client!Null, App!Observe,
         Client!Observe, App!Op, Client!Op, App!Outcome, Client!Outcome, App!Perform,
         Client!Perform, App!Query, Client!Query, App!Receive, Client!Receive, App!Reply,
         Client!Reply, App!Return, Client!Return, App!RunningIn, Client!RunningIn,
         App!ServiceDies, Client!ServiceDies, App!SingleCall, Client!SingleCall, App!Snapshot,
         Client!Snapshot, App!Start, Client!Start, App!State, Client!State, App!Stop,
         Client!Stop, App!Str, Client!Str, App!StringOp, Client!StringOp, App!Strings,
         Client!Strings, App!Subject, Client!Subject, App!TakeNames, Client!TakeNames,
         App!TakeRunning, Client!TakeRunning, App!Takes, Client!Takes, App!Transact,
         Client!Transact, App!Undefined, Client!Undefined, App!Unfreeze, Client!Unfreeze,
         App!Watch, Client!Watch, App!client, Client!client, App!createSnapshot,
         Client!createSnapshot, App!destroyContainer, Client!destroyContainer,
         App!freezeContainer, Client!freezeContainer, App!getConfigItem, Client!getConfigItem,
         App!getErrorNum, Client!getErrorNum, App!getInterfaces, Client!getInterfaces,
         App!getState, Client!getState, App!isDefined, Client!isDefined, App!isRunning,
         Client!isRunning, App!listContainers, Client!listContainers, App!setConfigItem,
         Client!setConfigItem, App!startContainer, Client!startContainer, App!stopContainer,
         Client!stopContainer, App!unfreezeContainer, Client!unfreezeContainer, App!vars,
         Client!vars

\* The constants are such as the manager's theorems ask for.
LEMMA ClientAssumptions ==
    /\ Lister \subseteq Thread /\ None \notin Container /\ Key # {} /\ Value # {}
    /\ Single \subseteq Client!Call /\ None \notin Client!Call
    /\ \A op \in Client!Op : None \notin Client!ResultOf(op)
    /\ Client!IsFiniteSet(Container) /\ Client!IsFiniteSet(Iface)
  <1>1. Client!Call = Call /\ Client!Op = Op
    BY DEF Client!Call, Call, Client!Op, Op, Client!BoolOp, BoolOp, Client!IntOp, IntOp,
           Client!StringOp, StringOp, Client!ArrayOp, ArrayOp
  <1>2. \A op : Client!ResultOf(op) = ResultOf(op)
    BY DEF Client!ResultOf, ResultOf, Client!BoolOp, BoolOp, Client!IntOp, IntOp,
           Client!StringOp, StringOp, Client!RunState, RunState, Client!Str, Str,
           Client!Strings, Strings, Client!Int_, Int_, Client!Null, Null,
           Client!JNI_TRUE, JNI_TRUE, Client!JNI_FALSE, JNI_FALSE
  <1>3. \A S : Client!IsFiniteSet(S) <=> IsFiniteSet(S)
    BY DEF Client!IsFiniteSet, IsFiniteSet
  <1> QED
    BY <1>1, <1>2, <1>3, EndToEndAssumption, WrapperAssumption, LibAssumption

\* The lists that the app makes of native methods are true.
THEOREM ListsThroughMethodsAreTrue == AllSpec => []ListsAreTrue
<1>1. AllSpec => Client!ManagerSpec
  <2>1. [App!ManagerNext]_App!managerVars => [Client!ManagerNext]_Client!managerVars
    BY SameManagerVars, SameManagerNext
  <2> QED
    BY <2>1, ListingsThroughMethods, SameManagerInit, PTL
       DEF ImplementsManager, App!ManagerSpec, Client!ManagerSpec
<1>2. Client!ManagerSpec => []Client!RunningWereRunning
  BY ClientAssumptions, LibAssumption, Client!RunningListIsSound
<1>3. Client!ManagerSpec => []Client!RunningComplete
  BY ClientAssumptions, LibAssumption, Client!RunningListIsComplete
<1>4. Client!ManagerSpec => []Client!StoppedWereStopped
  BY ClientAssumptions, LibAssumption, Client!StoppedListIsSound
<1>5. /\ Client!RunningWereRunning /\ Client!RunningComplete /\ Client!StoppedWereStopped
      => ListsAreTrue
  BY DEF ListsAreTrue, Client!RunningWereRunning, App!RunningWereRunning,
         Client!RunningComplete, App!RunningComplete,
         Client!StoppedWereStopped, App!StoppedWereStopped, Client!Done, App!Done
<1> QED
  BY <1>1, <1>2, <1>3, <1>4, <1>5, PTL
=============================================================================
