------------------------------ MODULE EndToEnd ------------------------------
(***************************************************************************)
(* The listings of LxcManager made of the steps of the native methods: a   *)
(* call leaves the app when a method of jni-wrapper.c is entered and comes *)
(* back when that method returns.  In between the method takes its steps,  *)
(* while other clients make calls, containers change and the root process  *)
(* may die.                                                                *)
(***************************************************************************)
EXTENDS JniWrapper

CONSTANTS
    Lister,  \* the threads that make listings
    Single   \* the calls the app's other threads make

VARIABLES up, kind, phase, waiting, asked, todo, found,  \* as in LxcManager
          ran, rested, steady, cut                       \* its history

\* The app, whose service is the wrapper seen as JniWrapper's refinement sees it.
App == INSTANCE LxcManager WITH Workload <- Single, req <- call, out <- Out

\* The native methods serve whatever the app asks.
ASSUME EndToEndAssumption ==
    /\ Lister \subseteq Thread
    /\ None \notin Container
    /\ Key # {} /\ Value # {}
    /\ Single \subseteq Workload
    /\ \A op \in {"listContainers", "isRunning"}, c \in Container : App!Query(op, c) \in Workload

client == <<kind, phase, waiting, asked, todo, found>>
allVars == <<vars, up, client, ran, rested, steady, cut>>

AllInit == Init /\ App!ClientInit

-----------------------------------------------------------------------------
\* The call goes to the thread of the service that serves it.
Transact(t) ==
    \E op \in {"listContainers", "isRunning"}, c \in Container :
        App!Asks(t, op, c) /\ Receive(t, App!Query(op, c))

\* A slip: the array goes back while its elements are still being copied.
AnswerEarly(t) ==
    /\ pc[t] \in {"loop", "unpin"}
    /\ App!Takes(t, ret[t])
    /\ call' = [call EXCEPT ![t] = None]
    /\ ret' = [ret EXCEPT ![t] = None]
    /\ left' = [left EXCEPT ![t] = {}]
    /\ pc' = [pc EXCEPT ![t] = "idle"]
    /\ pins' = [pins EXCEPT ![t] = 0]
    /\ handles' = [handles EXCEPT ![t] = 0]
    /\ blocks' = [blocks EXCEPT ![t] = 0]
    /\ UNCHANGED <<world, handle>>

\* The method returns, and what it built is what the app gets.
Answer(t) == Reply(t) /\ App!Takes(t, ret[t])

\* The app's steps between calls.
AppStep(t) == UNCHANGED vars /\ (App!Begin(t) \/ App!Finish(t) \/ App!Return(t))

\* RemoteException.
Lost(t) == UNCHANGED vars /\ App!Lost(t)

Listing(t) == AppStep(t) \/ Transact(t) \/ Answer(t)

\* A step of the method that serves thread t.
Serve(t) == pc[t] # "unpin" /\ Proceed(t) /\ UNCHANGED <<up, client>>

SingleCall(t) == ((up /\ \E q \in Single : Receive(t, q)) \/ Reply(t)) /\ UNCHANGED <<up, client>>

ServiceDies == up /\ Die /\ up' = FALSE /\ UNCHANGED client

Device == (\E c \in Container : Define(c) \/ Halt(c)) /\ UNCHANGED <<up, client>>

AllNext ==
    \/ \E t \in Lister : Listing(t) /\ App!Watch({})
    \/ \E t \in Lister : Lost(t) /\ App!Watch({t})
    \/ \E t \in Thread \ Lister : SingleCall(t) /\ App!Watch({})
    \/ \E t \in Thread : Serve(t) /\ App!Watch(IF GivesUp(t) THEN {t} ELSE {})
    \/ ServiceDies /\ App!Watch({})
    \/ Device /\ App!Watch({})

AllSpec == AllInit /\ [][AllNext]_allVars

\* The threads of the app and of the service are scheduled.
FairAllSpec ==
    /\ AllSpec
    /\ \A t \in Lister :
          /\ WF_allVars(phase[t] # "idle" /\ Listing(t) /\ App!Watch({}))
          /\ WF_allVars(Lost(t) /\ App!Watch({t}))
          /\ WF_allVars(Serve(t) /\ App!Watch(IF GivesUp(t) THEN {t} ELSE {}))

-----------------------------------------------------------------------------
(* Properties *)

\* Listings made of native methods are listings made of atomic calls, so that
\* whatever LxcManager's lists say of the containers, those of the app say too.
ImplementsManager == App!ManagerSpec

\* What the app's lists say, made as they are from the arrays and the booleans
\* that native methods copy while containers change: what is listed as running
\* was, what is listed as stopped was not, and nothing that ran all the while is
\* missing, unless a method of the listing failed.
ListsAreTrue ==
    App!RunningWereRunning /\ App!RunningComplete /\ App!StoppedWereStopped

\* A listing ends, whether the process that runs its methods lives or dies.
EveryListingEnds == \A t \in Lister : phase[t] # "idle" ~> phase[t] = "idle"
=============================================================================
