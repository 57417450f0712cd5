----------------------------- MODULE LxcManager -----------------------------
(***************************************************************************)
(* LxcManager and LxcContainer, the app's client of the service: a listing *)
(* asks for all the names and then, one transaction per name, whether each *)
(* runs.  A transaction that meets a dead service throws RemoteException,  *)
(* which the client turns into a default.  Other threads of the app call   *)
(* the service meanwhile, and containers change under the listing.         *)
(***************************************************************************)
EXTENDS LxcService

CONSTANT Lister  \* the app threads that list; the others make single calls

\* The fields a question does not use have some value to hold.
ASSUME ListerAssumption ==
    /\ Lister \subseteq Thread
    /\ None \notin Container
    /\ Key # {} /\ Value # {}

VARIABLES
    up,       \* the process behind the proxy is alive
    kind,     \* the listing a thread makes
    phase,    \* how far it is
    waiting,  \* a transaction is in flight
    asked,    \* the container asked about
    todo,     \* names not yet asked about
    found,    \* names to return
    \* What a reader of the list may ask about the time it was made:
    ran,      \* running at some moment
    rested,   \* not running at some moment
    steady,   \* defined and running at every moment
    cut       \* a call failed or was lost

client == <<kind, phase, waiting, asked, todo, found>>
history == <<ran, rested, steady, cut>>
managerVars == <<vars, up, client, history>>

Kinds == {"all", "running", "stopped"}

RunningIn(w) == {c \in Container : w[c].run # "STOPPED"}

ClientInit ==
    /\ up = TRUE
    /\ kind = [t \in Lister |-> "all"]
    /\ phase = [t \in Lister |-> "idle"]
    /\ waiting = [t \in Lister |-> FALSE]
    /\ asked = [t \in Lister |-> None]
    /\ todo = [t \in Lister |-> {}]
    /\ found = [t \in Lister |-> {}]
    /\ ran = [t \in Lister |-> {}]
    /\ rested = [t \in Lister |-> {}]
    /\ steady = [t \in Lister |-> {}]
    /\ cut = [t \in Lister |-> FALSE]

ManagerInit == Init /\ ClientInit

-----------------------------------------------------------------------------
(* One listing *)

\* listContainers, listRunningContainers or listStoppedContainers is called.
Begin(t) ==
    /\ phase[t] = "idle"
    /\ \E k \in Kinds : kind' = [kind EXCEPT ![t] = k]
    /\ phase' = [phase EXCEPT ![t] = "list"]
    /\ UNCHANGED <<vars, up, waiting, asked, todo, found>>

Query(op, c) == [op |-> op, c |-> c,
                 key |-> CHOOSE k \in Key : TRUE, val |-> CHOOSE v \in Value : TRUE]

\* The client's side of a call: listContainers, or isRunning of the next name.
Asks(t, op, c) ==
    /\ up /\ ~waiting[t]
    /\ \/ /\ phase[t] = "list" /\ op = "listContainers"
          /\ UNCHANGED <<asked, todo>>
       \/ /\ phase[t] = "scan" /\ op = "isRunning" /\ c \in todo[t]
          /\ asked' = [asked EXCEPT ![t] = c]
          /\ todo' = [todo EXCEPT ![t] = @ \ {c}]
    /\ waiting' = [waiting EXCEPT ![t] = TRUE]
    /\ UNCHANGED <<up, kind, phase, found>>

Transact(t) ==
    \E op \in {"listContainers", "isRunning"}, c \in Container :
        Asks(t, op, c) /\ Receive(t, Query(op, c))

\* A slip: every list starts with all the names.
TakeNamesUnfiltered(t, S) ==
    /\ phase[t] = "list"
    /\ found' = [found EXCEPT ![t] = S]
    /\ todo' = [todo EXCEPT ![t] = IF kind[t] = "all" THEN {} ELSE S]
    /\ phase' = [phase EXCEPT ![t] = IF kind[t] = "all" THEN "done" ELSE "scan"]
    /\ UNCHANGED asked

\* The names a listing starts from.
TakeNames(t, S) ==
    /\ phase[t] = "list"
    /\ IF kind[t] = "all"
       THEN /\ found' = [found EXCEPT ![t] = S]
            /\ phase' = [phase EXCEPT ![t] = "done"]
            /\ UNCHANGED todo
       ELSE /\ todo' = [todo EXCEPT ![t] = S]
            /\ phase' = [phase EXCEPT ![t] = "scan"]
            /\ UNCHANGED found
    /\ UNCHANGED asked

\* A slip: the condition on isRunning is the wrong way round.
TakeRunningNegated(t, b) ==
    /\ phase[t] = "scan"
    /\ found' = IF b # (kind[t] = "running")
                THEN [found EXCEPT ![t] = @ \cup {asked[t]}] ELSE found
    /\ asked' = [asked EXCEPT ![t] = None]
    /\ UNCHANGED <<phase, todo>>

\* Whether the container asked about runs.
TakeRunning(t, b) ==
    /\ phase[t] = "scan"
    /\ found' = IF b = (kind[t] = "running")
                THEN [found EXCEPT ![t] = @ \cup {asked[t]}] ELSE found
    /\ asked' = [asked EXCEPT ![t] = None]
    /\ UNCHANGED <<phase, todo>>

\* The client's side of the answer v.
Takes(t, v) ==
    /\ waiting[t]
    /\ \/ TakeNames(t, IF v = Null THEN {} ELSE v[2])
       \/ TakeRunning(t, v = JNI_TRUE)
    /\ waiting' = [waiting EXCEPT ![t] = FALSE]
    /\ UNCHANGED <<up, kind>>

Answer(t) == Reply(t) /\ Takes(t, out[t])

\* A slip: a call that met a dead service is made again.
LostRetries(t) ==
    /\ phase[t] \in {"list", "scan"}
    /\ \/ waiting[t] /\ req[t] = None
       \/ ~waiting[t] /\ ~up
    /\ todo' = [todo EXCEPT ![t] = @ \cup ({asked[t]} \ {None})]
    /\ asked' = [asked EXCEPT ![t] = None]
    /\ waiting' = [waiting EXCEPT ![t] = FALSE]
    /\ UNCHANGED <<vars, up, kind, phase, found>>

\* RemoteException: the process died under the transaction, or before it.
Lost(t) ==
    /\ \/ waiting[t] /\ req[t] = None /\ TakeNames(t, {})
       \/ waiting[t] /\ req[t] = None /\ TakeRunning(t, FALSE)
       \/ ~waiting[t] /\ ~up /\ TakeNames(t, {})
       \/ /\ ~waiting[t] /\ ~up /\ phase[t] = "scan"
          /\ \E c \in todo[t] :
                /\ found' = IF kind[t] = "stopped"
                            THEN [found EXCEPT ![t] = @ \cup {c}] ELSE found
                /\ todo' = [todo EXCEPT ![t] = @ \ {c}]
          /\ UNCHANGED <<phase, asked>>
    /\ waiting' = [waiting EXCEPT ![t] = FALSE]
    /\ UNCHANGED <<vars, up, kind>>

\* A slip: the list is complete once the last question is asked.
FinishEarly(t) ==
    /\ phase[t] = "scan" /\ todo[t] = {}
    /\ phase' = [phase EXCEPT ![t] = "done"]
    /\ UNCHANGED <<vars, up, kind, waiting, asked, todo, found>>

Finish(t) ==
    /\ phase[t] = "scan" /\ todo[t] = {} /\ ~waiting[t]
    /\ phase' = [phase EXCEPT ![t] = "done"]
    /\ UNCHANGED <<vars, up, kind, waiting, asked, todo, found>>

\* The list goes to the caller.
Return(t) ==
    /\ phase[t] = "done"
    /\ phase' = [phase EXCEPT ![t] = "idle"]
    /\ kind' = [kind EXCEPT ![t] = "all"]
    /\ found' = [found EXCEPT ![t] = {}]
    /\ UNCHANGED <<vars, up, waiting, asked, todo>>

Listing(t) == Begin(t) \/ Transact(t) \/ Answer(t) \/ Finish(t) \/ Return(t)

-----------------------------------------------------------------------------
(* The rest of the app, the service and the device *)

SingleCall(t) ==
    /\ (up /\ \E q \in Workload : Receive(t, q)) \/ Reply(t)
    /\ UNCHANGED <<up, client>>

\* The proxy never becomes usable again.
ServiceDies == up /\ Die /\ up' = FALSE /\ UNCHANGED client

Device ==
    /\ \E c \in Container : Define(c) \/ Halt(c)
    /\ UNCHANGED <<up, client>>

\* What happened while a listing was being made.  Failed is the threads whose
\* call this step fails or loses.
Watch(Failed) ==
    LET Over(t) == phase'[t] = "idle"
        Starts(t) == phase[t] = "idle"
    IN  /\ ran' = [t \in Lister |->
              IF Over(t) THEN {} ELSE ran[t] \cup RunningIn(world')]
        /\ rested' = [t \in Lister |->
              IF Over(t) THEN {} ELSE rested[t] \cup (Container \ RunningIn(world'))]
        /\ steady' = [t \in Lister |->
              IF Over(t) THEN {}
              ELSE (RunningIn(world') \cap DefinedIn(world'))
                      \cap (IF Starts(t) THEN Container ELSE steady[t])]
        /\ cut' = [t \in Lister |-> ~Over(t) /\ (cut[t] \/ t \in Failed)]

ManagerNext ==
    \/ \E t \in Lister : Listing(t) /\ Watch({})
    \/ \E t \in Lister : Lost(t) /\ Watch({t})
    \/ \E t \in Thread \ Lister : SingleCall(t) /\ Watch({})
    \/ \E t \in Thread : Execute(t) /\ UNCHANGED <<up, client>> /\ Watch({})
    \/ \E t \in Thread : Fail(t) /\ UNCHANGED <<up, client>> /\ Watch({t})
    \/ ServiceDies /\ Watch({})
    \/ Device /\ Watch({})

ManagerSpec == ManagerInit /\ [][ManagerNext]_managerVars

-----------------------------------------------------------------------------
(* Properties *)

\* The client's state keeps its types, and a listing waits for at most the
\* answer to the question it asked.
ManagerTypeOK ==
    /\ world \in World
    /\ up \in BOOLEAN
    /\ kind \in [Lister -> Kinds]
    /\ phase \in [Lister -> {"idle", "list", "scan", "done"}]
    /\ waiting \in [Lister -> BOOLEAN]
    /\ asked \in [Lister -> Container \cup {None}]
    /\ todo \in [Lister -> SUBSET Container]
    /\ found \in [Lister -> SUBSET Container]
    /\ \A t \in Lister :
          /\ req[t] # None => waiting[t]
          /\ waiting[t] /\ phase[t] = "scan" <=> asked[t] # None
          /\ waiting[t] /\ phase[t] = "scan" /\ req[t] # None => req[t].c = asked[t]

Done(t, k) == phase[t] = "done" /\ kind[t] = k

\* LxcManager.listRunningContainers: each container it returns was running at
\* some moment while the list was made, whatever else happened meanwhile.
RunningWereRunning == \A t \in Lister : Done(t, "running") => found[t] \subseteq ran[t]

\* LxcManager.listRunningContainers misses no container that was defined and
\* running all the while, provided every call of the listing succeeded.
RunningComplete ==
    \A t \in Lister : Done(t, "running") /\ ~cut[t] => steady[t] \subseteq found[t]

\* LxcManager.listStoppedContainers: each container it returns was not running
\* at some moment, provided every call of the listing succeeded.
StoppedWereStopped ==
    \A t \in Lister : Done(t, "stopped") /\ ~cut[t] => found[t] \subseteq rested[t]

\* The steps a listing has before it at most: for each name to be asked about,
\* or for each container while the names are not known, a question and an answer.
Remaining(t) ==
    CASE phase[t] = "idle" -> 0
      [] phase[t] = "done" -> 1
      [] phase[t] = "scan" /\ ~waiting[t] -> 2 + 2 * Cardinality(todo[t])
      [] phase[t] = "scan" /\ waiting[t] -> 3 + 2 * Cardinality(todo[t])
      [] phase[t] = "list" /\ waiting[t] -> 3 + 2 * Cardinality(Container)
      [] phase[t] = "list" /\ ~waiting[t] -> 4 + 2 * Cardinality(Container)

Own(t) == <<kind[t], phase[t], waiting[t], asked[t], todo[t], found[t]>>

\* Whatever happens to a listing that has begun brings it nearer to its end: it
\* asks about each name once, however calls fail and whenever the service dies.
NearerToEnd ==
    [][\A t \in Lister :
          phase[t] # "idle" /\ Own(t)' # Own(t) => Remaining(t)' \in 0 .. (Remaining(t) - 1)]_managerVars
=============================================================================
