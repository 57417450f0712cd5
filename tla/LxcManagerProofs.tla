-------------------------- MODULE LxcManagerProofs --------------------------
(***************************************************************************)
(* Proofs about LxcManager for any containers, threads and workload: what  *)
(* the lists of running and of stopped containers say is true, whatever    *)
(* other threads, other tools and the death of the service do meanwhile.   *)
(***************************************************************************)
EXTENDS LxcManager, LxcLibProofs, FiniteSetTheorems, TLAPS

-----------------------------------------------------------------------------
(* Inductive invariant *)

\* The service's side of a call: nothing is answered that was not asked.
ServiceOK ==
    /\ world \in World
    /\ req \in [Thread -> Call \cup {None}]
    /\ out = [t \in Thread |-> out[t]]
    /\ \A t \in Thread : req[t] = None => out[t] = None

ClientTypes ==
    /\ up \in BOOLEAN
    /\ kind \in [Lister -> Kinds]
    /\ phase \in [Lister -> {"idle", "list", "scan", "done"}]
    /\ waiting \in [Lister -> BOOLEAN]
    /\ asked \in [Lister -> Container \cup {None}]
    /\ todo \in [Lister -> SUBSET Container]
    /\ found \in [Lister -> SUBSET Container]

\* The one question in flight is the one the listing's phase calls for.
Asking(t) ==
    /\ req[t] # None => waiting[t]
    /\ waiting[t] => phase[t] \in {"list", "scan"}
    /\ waiting[t] /\ phase[t] = "scan" <=> asked[t] # None
    /\ req[t] # None /\ phase[t] = "list" => req[t].op = "listContainers"
    /\ req[t] # None /\ phase[t] = "scan" =>
          req[t].op = "isRunning" /\ req[t].c = asked[t]
    /\ phase[t] \in {"idle", "list"} => found[t] = {}
    /\ phase[t] # "scan" => todo[t] = {}

\* The names in an answer.
Names(v) == IF v = Null THEN {} ELSE v[2]

\* An answer on its way back was true when it was made, and what was true
\* then has not left the history of the listing.
Answered(t) ==
    out[t] # None =>
        /\ phase[t] = "list" =>
              /\ Names(out[t]) \in SUBSET Container
              /\ ~cut[t] => steady[t] \subseteq Names(out[t])
        /\ phase[t] = "scan" =>
              /\ out[t] = JNI_TRUE => asked[t] \in ran[t]
              /\ out[t] # JNI_TRUE /\ ~cut[t] =>
                    asked[t] \in rested[t] /\ asked[t] \notin steady[t]

\* The names gathered so far are right, and none is forgotten.
Gathered(t) ==
    /\ kind[t] = "running" => found[t] \subseteq ran[t]
    /\ kind[t] = "running" /\ phase[t] \in {"scan", "done"} /\ ~cut[t] =>
          steady[t] \subseteq found[t] \cup todo[t] \cup {asked[t]}
    /\ kind[t] = "stopped" /\ ~cut[t] => found[t] \subseteq rested[t]

Histories ==
    /\ ran \in [Lister -> SUBSET Container]
    /\ rested \in [Lister -> SUBSET Container]
    /\ steady \in [Lister -> SUBSET Container]
    /\ cut \in [Lister -> BOOLEAN]

ListerOK(t) == Asking(t) /\ Answered(t) /\ Gathered(t)

\* What every reachable state satisfies, strong enough to be inductive.
IInv == ServiceOK /\ ClientTypes /\ Histories /\ \A t \in Lister : ListerOK(t)

-----------------------------------------------------------------------------
(* What a step adds to the history *)

\* The history is typed by what it is made of.
LEMMA WatchTypes ==
    ASSUME NEW F, Watch(F), Histories
    PROVE  Histories'
  <1>1. ran' \in [Lister -> SUBSET Container] /\ rested' \in [Lister -> SUBSET Container]
    BY DEF Watch, Histories, RunningIn
  <1>2. steady' \in [Lister -> SUBSET Container]
    BY DEF Watch, Histories, RunningIn
  <1>3. cut' \in [Lister -> BOOLEAN]
    BY DEF Watch, Histories
  <1> QED
    BY <1>1, <1>2, <1>3 DEF Histories

\* While a listing goes on, the containers as they are after each step are in
\* its history, and its history only grows.
LEMMA Watched ==
    ASSUME NEW F, Watch(F), NEW t \in Lister, phase'[t] # "idle"
    PROVE  /\ ran[t] \cup RunningIn(world') \subseteq ran'[t]
           /\ rested[t] \cup (Container \ RunningIn(world')) \subseteq rested'[t]
           /\ steady'[t] \subseteq RunningIn(world') \cap DefinedIn(world')
           /\ phase[t] # "idle" => steady'[t] \subseteq steady[t]
           /\ ~cut'[t] => ~cut[t] /\ t \notin F
  <1>1. ran'[t] = ran[t] \cup RunningIn(world')
    BY DEF Watch
  <1>2. rested'[t] = rested[t] \cup (Container \ RunningIn(world'))
    BY DEF Watch
  <1>3. steady'[t] = (RunningIn(world') \cap DefinedIn(world'))
                        \cap (IF phase[t] = "idle" THEN Container ELSE steady[t])
    BY DEF Watch
  <1>4. cut'[t] = (cut[t] \/ t \in F)
    BY DEF Watch
  <1> QED
    BY <1>1, <1>2, <1>3, <1>4

\* A listing is not disturbed by a step that leaves its own variables alone and
\* its call alone, or that loses its call with the process.
LEMMA Undisturbed ==
    ASSUME IInv, NEW F, Watch(F), NEW t \in Lister,
           kind'[t] = kind[t], phase'[t] = phase[t], waiting'[t] = waiting[t],
           asked'[t] = asked[t], todo'[t] = todo[t], found'[t] = found[t],
           \/ req'[t] = req[t] /\ out'[t] = out[t]
           \/ req'[t] = None /\ out'[t] = None
    PROVE  ListerOK(t)'
  <1>1. Asking(t)'
    BY DEF IInv, ListerOK, Asking
  <1>2. CASE phase[t] = "idle"
    BY <1>1, <1>2 DEF IInv, ListerOK, Asking, Answered, Gathered
  <1>3. CASE phase[t] # "idle"
    <2>1. /\ ran[t] \subseteq ran'[t] /\ rested[t] \subseteq rested'[t]
          /\ steady'[t] \subseteq steady[t] /\ (~cut'[t] => ~cut[t])
      BY <1>3, Watched
    <2>2. Answered(t)'
      BY <2>1 DEF IInv, ListerOK, Answered
    <2>3. Gathered(t)'
      BY <2>1 DEF IInv, ListerOK, Gathered
    <2> QED
      BY <1>1, <2>2, <2>3 DEF ListerOK
  <1> QED
    BY <1>2, <1>3

\* No listing is under way at first.
LEMMA InitInv == ManagerInit => IInv
  <1> SUFFICES ASSUME ManagerInit PROVE IInv
    OBVIOUS
  <1>1. ServiceOK
    BY RecordTypes DEF ManagerInit, Init, ServiceOK, World
  <1>2. ClientTypes /\ Histories
    BY DEF ManagerInit, ClientInit, ClientTypes, Histories, Kinds
  <1>3. ASSUME NEW t \in Lister PROVE ListerOK(t)
    <2>1. req[t] = None /\ out[t] = None
      BY ListerAssumption DEF ManagerInit, Init
    <2> QED
      BY <2>1 DEF ManagerInit, ClientInit, ListerOK, Asking, Answered, Gathered
  <1> QED
    BY <1>1, <1>2, <1>3 DEF IInv

-----------------------------------------------------------------------------
(* The steps *)

\* What the listing of t may change is its own.
Aside(t) ==
    \A u \in Lister \ {t} :
        /\ kind'[u] = kind[u] /\ phase'[u] = phase[u] /\ waiting'[u] = waiting[u]
        /\ asked'[u] = asked[u] /\ todo'[u] = todo[u] /\ found'[u] = found[u]
        /\ req'[u] = req[u] /\ out'[u] = out[u]

\* A step of thread t keeps the invariant if it keeps the types and, where t
\* lists, its listing right.
LEMMA OwnStep ==
    ASSUME IInv, NEW F, Watch(F), NEW t \in Thread, Aside(t),
           ServiceOK', ClientTypes', t \in Lister => ListerOK(t)'
    PROVE  IInv'
  <1>1. ASSUME NEW u \in Lister, u # t PROVE ListerOK(u)'
    BY <1>1, Undisturbed DEF Aside
  <1>2. \A u \in Lister : ListerOK(u)'
    BY <1>1
  <1> QED
    BY <1>2, WatchTypes DEF IInv

\* A call arrives.
LEMMA ReceiveTypes ==
    ASSUME ServiceOK, NEW t \in Thread, NEW q \in Call, Receive(t, q)
    PROVE  ServiceOK'
  <1>1. req' \in [Thread -> Call \cup {None}]
    BY DEF ServiceOK, Receive
  <1>2. \A u \in Thread : req'[u] = None => out'[u] = None
    BY DEF ServiceOK, Receive
  <1> QED
    BY <1>1, <1>2 DEF ServiceOK, Receive

\* A call returns.
LEMMA ReplyTypes ==
    ASSUME ServiceOK, NEW t \in Thread, Reply(t)
    PROVE  ServiceOK' /\ req'[t] = None /\ out'[t] = None
  BY DEF ServiceOK, Reply

\* The questions of a listing are calls of the service.
LEMMA QueryType ==
    ASSUME NEW op \in Op, NEW c \in Container
    PROVE  Query(op, c) \in Call /\ Query(op, c) # None
  BY ListerAssumption, ServiceAssumption DEF Query, Call

\* A listing begins.
LEMMA BeginStep ==
    ASSUME IInv, NEW t \in Lister, Begin(t), Watch({})
    PROVE  IInv'
  <1> USE DEF IInv
  <1>1. ServiceOK' /\ ClientTypes'
    BY DEF Begin, vars, ServiceOK, ClientTypes
  <1>2. Aside(t)
    BY DEF Begin, vars, Aside, ClientTypes
  <1>3. PICK k \in Kinds : kind' = [kind EXCEPT ![t] = k]
    BY DEF Begin
  <1>4. /\ phase[t] = "idle" /\ phase'[t] = "list"
        /\ req[t] = None /\ out[t] = None
    BY ListerAssumption DEF Begin, ClientTypes, ListerOK, Asking, ServiceOK
  <1>5. ListerOK(t)'
    BY <1>4, ListerAssumption
       DEF Begin, vars, ListerOK, Asking, Answered, Gathered, ClientTypes, ServiceOK
  <1> QED
    BY <1>1, <1>2, <1>5, OwnStep, ListerAssumption

\* The next question is asked.
LEMMA TransactStep ==
    ASSUME IInv, NEW t \in Lister, Transact(t), Watch({})
    PROVE  IInv'
  <1> USE DEF IInv
  <1>0. t \in Thread
    BY ListerAssumption
  <1>01. /\ ~waiting[t] /\ waiting' = [waiting EXCEPT ![t] = TRUE]
        /\ UNCHANGED <<up, kind, phase, found>>
    BY DEF Transact, Asks
  <1>1. CASE /\ phase[t] = "list"
             /\ \E c \in Container : Receive(t, Query("listContainers", c))
             /\ UNCHANGED <<asked, todo>>
    <2>1. PICK c \in Container : Receive(t, Query("listContainers", c))
      BY <1>1
    <2>2. Query("listContainers", c) \in Call /\ Query("listContainers", c) # None
      BY QueryType DEF Op, ArrayOp
    <2>3. ServiceOK'
      BY <1>0, <2>1, <2>2, ReceiveTypes
    <2>4. ClientTypes' /\ Aside(t)
      BY <1>0, <1>01, <1>1, <2>1 DEF Receive, ClientTypes, Aside, ServiceOK
    <2>5. out'[t] = None /\ req'[t].op = "listContainers"
      BY <1>0, <2>1, <2>2 DEF Receive, ServiceOK, Query
    <2>6. /\ phase'[t] = "list" /\ waiting'[t] /\ asked'[t] = None
          /\ found'[t] = {} /\ todo'[t] = {}
      BY <1>01, <1>1 DEF ClientTypes, ListerOK, Asking
    <2>7. ListerOK(t)'
      BY <2>5, <2>6 DEF ListerOK, Asking, Answered, Gathered
    <2> QED
      BY <1>0, <2>3, <2>4, <2>7, OwnStep
  <1>2. CASE /\ phase[t] = "scan"
             /\ \E c \in todo[t] :
                   /\ Receive(t, Query("isRunning", c))
                   /\ asked' = [asked EXCEPT ![t] = c]
                   /\ todo' = [todo EXCEPT ![t] = @ \ {c}]
    <2>1. PICK c \in todo[t] :
             /\ Receive(t, Query("isRunning", c))
             /\ asked' = [asked EXCEPT ![t] = c]
             /\ todo' = [todo EXCEPT ![t] = @ \ {c}]
      BY <1>2
    <2>2. c \in Container /\ c # None
      BY ListerAssumption DEF ClientTypes
    <2>3. Query("isRunning", c) \in Call /\ Query("isRunning", c) # None
      BY <2>2, QueryType DEF Op, BoolOp
    <2>4. ServiceOK'
      BY <1>0, <2>1, <2>3, ReceiveTypes
    <2>5. ClientTypes' /\ Aside(t)
      BY <1>0, <1>01, <1>2, <2>1, <2>2 DEF Receive, ClientTypes, Aside, ServiceOK
    <2>6. out'[t] = None /\ req'[t].op = "isRunning" /\ req'[t].c = c
      BY <1>0, <2>1, <2>3 DEF Receive, ServiceOK, Query
    <2>7. /\ phase'[t] = "scan" /\ waiting'[t] /\ asked'[t] = c
          /\ kind'[t] = kind[t] /\ found'[t] = found[t] /\ todo'[t] = todo[t] \ {c}
      BY <1>01, <1>2, <2>1 DEF ClientTypes
    <2>8. asked[t] = None /\ None \notin steady[t]
      BY <1>01, <1>2, ListerAssumption DEF ListerOK, Asking, Histories
    <2>9. /\ ran[t] \subseteq ran'[t] /\ rested[t] \subseteq rested'[t]
          /\ steady'[t] \subseteq steady[t] /\ (~cut'[t] => ~cut[t])
      BY <1>2, <2>7, Watched
    <2>10. Asking(t)' /\ Answered(t)'
      BY <2>2, <2>6, <2>7 DEF Asking, Answered
    <2>11. Gathered(t)'
      BY <1>2, <2>7, <2>8, <2>9 DEF ListerOK, Gathered
    <2> QED
      BY <1>0, <2>4, <2>5, <2>10, <2>11, OwnStep DEF ListerOK
  <1> QED
    BY <1>1, <1>2 DEF Transact, Asks

\* The names come back.
LEMMA NamesStep ==
    ASSUME IInv, NEW t \in Lister, Answer(t), Watch({}),
           TakeNames(t, IF out[t] = Null THEN {} ELSE out[t][2])
    PROVE  IInv'
  <1> USE DEF IInv
  <1> DEFINE S == Names(out[t])
  <1>0. /\ t \in Thread /\ waiting[t] /\ Reply(t) /\ TakeNames(t, S)
        /\ waiting' = [waiting EXCEPT ![t] = FALSE] /\ UNCHANGED <<up, kind>>
    BY ListerAssumption DEF Answer, Takes, Names
  <1>1. ServiceOK' /\ req'[t] = None /\ out'[t] = None
    BY <1>0, ReplyTypes
  <1>2. phase[t] = "list" /\ out[t] # None
    BY <1>0 DEF TakeNames, Reply
  <1>3. S \in SUBSET Container /\ (~cut[t] => steady[t] \subseteq S)
    BY <1>2 DEF ListerOK, Answered
  <1>4. found[t] = {} /\ todo[t] = {} /\ asked[t] = None
    BY <1>2 DEF ListerOK, Asking, ClientTypes
  <1> HIDE DEF S
  <1>5. ClientTypes' /\ Aside(t)
    BY <1>0, <1>3 DEF TakeNames, Reply, ClientTypes, Aside, ServiceOK
  <1>6. /\ ~waiting'[t] /\ asked'[t] = None /\ kind'[t] = kind[t]
        /\ IF kind[t] = "all"
           THEN found'[t] = S /\ phase'[t] = "done" /\ todo'[t] = {}
           ELSE found'[t] = {} /\ phase'[t] = "scan" /\ todo'[t] = S
    BY <1>0, <1>4 DEF TakeNames, ClientTypes
  <1>7. steady'[t] \subseteq steady[t] /\ (~cut'[t] => ~cut[t])
    BY <1>2, <1>6, Watched
  <1>8. Asking(t)' /\ Answered(t)'
    BY <1>1, <1>6 DEF Asking, Answered
  <1>9. Gathered(t)'
    BY <1>3, <1>6, <1>7 DEF Gathered
  <1> QED
    BY <1>0, <1>1, <1>5, <1>8, <1>9, OwnStep DEF ListerOK

\* The answer to isRunning comes back.
LEMMA RunningStep ==
    ASSUME IInv, NEW t \in Lister, Answer(t), Watch({}),
           TakeRunning(t, out[t] = JNI_TRUE)
    PROVE  IInv'
  <1> USE DEF IInv
  <1>0. /\ t \in Thread /\ waiting[t] /\ Reply(t)
        /\ waiting' = [waiting EXCEPT ![t] = FALSE] /\ UNCHANGED <<up, kind>>
    BY ListerAssumption DEF Answer, Takes
  <1>1. ServiceOK' /\ req'[t] = None /\ out'[t] = None
    BY <1>0, ReplyTypes
  <1>2. /\ phase[t] = "scan" /\ UNCHANGED <<phase, todo>>
        /\ asked' = [asked EXCEPT ![t] = None]
        /\ found' = IF (out[t] = JNI_TRUE) = (kind[t] = "running")
                    THEN [found EXCEPT ![t] = @ \cup {asked[t]}] ELSE found
    BY DEF TakeRunning
  <1>3. asked[t] \in Container /\ out[t] # None
    BY <1>0, <1>2 DEF ListerOK, Asking, ClientTypes, Reply
  <1>4. found' \in [Lister -> SUBSET Container]
    BY <1>2, <1>3 DEF ClientTypes
  <1>5. ClientTypes'
    BY <1>0, <1>2, <1>4 DEF ClientTypes
  <1>6. Aside(t)
    BY <1>0, <1>2 DEF Reply, ClientTypes, Aside, ServiceOK
  <1>7. /\ ~waiting'[t] /\ asked'[t] = None /\ kind'[t] = kind[t]
        /\ phase'[t] = "scan" /\ todo'[t] = todo[t]
        /\ found'[t] = IF (out[t] = JNI_TRUE) = (kind[t] = "running")
                       THEN found[t] \cup {asked[t]} ELSE found[t]
    BY <1>0, <1>2 DEF ClientTypes
  <1>8. /\ ran[t] \subseteq ran'[t] /\ rested[t] \subseteq rested'[t]
        /\ steady'[t] \subseteq steady[t] /\ (~cut'[t] => ~cut[t])
    BY <1>2, <1>7, Watched
  <1>9. /\ out[t] = JNI_TRUE => asked[t] \in ran[t]
        /\ out[t] # JNI_TRUE /\ ~cut[t] => asked[t] \in rested[t] /\ asked[t] \notin steady[t]
    BY <1>2, <1>3 DEF ListerOK, Answered
  <1>10. Asking(t)' /\ Answered(t)'
    BY <1>1, <1>7 DEF Asking, Answered
  <1>11. Gathered(t)'
    <2>1. kind[t] = "running" => found'[t] \subseteq ran'[t]
      BY <1>7, <1>8, <1>9 DEF ListerOK, Gathered
    <2>2. kind[t] = "running" /\ ~cut'[t] => steady'[t] \subseteq found'[t] \cup todo'[t]
      BY <1>2, <1>7, <1>8, <1>9 DEF ListerOK, Gathered
    <2>3. kind[t] = "stopped" /\ ~cut'[t] => found'[t] \subseteq rested'[t]
      BY <1>7, <1>8, <1>9 DEF ListerOK, Gathered
    <2> QED
      BY <1>7, <2>1, <2>2, <2>3 DEF Gathered
  <1> QED
    BY <1>0, <1>1, <1>5, <1>6, <1>10, <1>11, OwnStep DEF ListerOK

\* A transaction is lost: from here on the listing claims less.
LEMMA LostStep ==
    ASSUME IInv, NEW t \in Lister, Lost(t), Watch({t})
    PROVE  IInv'
  <1> USE DEF IInv
  <1>0. /\ t \in Thread /\ waiting' = [waiting EXCEPT ![t] = FALSE]
        /\ UNCHANGED <<world, req, out, up, kind>>
    BY ListerAssumption DEF Lost, vars
  <1>1. ServiceOK'
    BY <1>0 DEF ServiceOK
  <1>2. req[t] = None /\ out[t] = None
    BY <1>0 DEF Lost, ListerOK, Asking, ServiceOK
  <1>3. CASE TakeNames(t, {})
    <2>1. phase[t] = "list" /\ found[t] = {} /\ todo[t] = {} /\ asked[t] = None
      BY <1>3 DEF TakeNames, ListerOK, Asking, ClientTypes
    <2>2. ClientTypes' /\ Aside(t)
      BY <1>0, <1>3 DEF TakeNames, ClientTypes, Aside
    <2>3. /\ ~waiting'[t] /\ asked'[t] = None /\ found'[t] = {} /\ todo'[t] = {}
          /\ phase'[t] \in {"scan", "done"}
      BY <1>0, <1>3, <2>1 DEF TakeNames, ClientTypes
    <2>4. cut'[t]
      BY <2>3, Watched
    <2>5. ListerOK(t)'
      BY <1>0, <1>2, <2>3, <2>4 DEF ListerOK, Asking, Answered, Gathered
    <2> QED
      BY <1>0, <1>1, <2>2, <2>5, OwnStep
  <1>4. CASE waiting[t] /\ TakeRunning(t, FALSE)
    <2>1. phase[t] = "scan" /\ asked[t] \in Container
      BY <1>4 DEF TakeRunning, ListerOK, Asking, ClientTypes
    <2>2. found' \in [Lister -> SUBSET Container]
      BY <1>4, <2>1 DEF TakeRunning, ClientTypes
    <2>3. ClientTypes' /\ Aside(t)
      BY <1>0, <1>4, <2>2 DEF TakeRunning, ClientTypes, Aside
    <2>4. /\ ~waiting'[t] /\ asked'[t] = None /\ phase'[t] = "scan"
          /\ kind[t] = "running" => found'[t] = found[t]
      BY <1>0, <1>4, <2>1 DEF TakeRunning, ClientTypes
    <2>5. cut'[t] /\ ran[t] \subseteq ran'[t]
      BY <2>4, Watched
    <2>6. ListerOK(t)'
      BY <1>0, <1>2, <2>4, <2>5 DEF ListerOK, Asking, Answered, Gathered
    <2> QED
      BY <1>0, <1>1, <2>3, <2>6, OwnStep
  <1>5. CASE /\ ~waiting[t] /\ phase[t] = "scan"
             /\ \E c \in todo[t] :
                   /\ found' = IF kind[t] = "stopped"
                               THEN [found EXCEPT ![t] = @ \cup {c}] ELSE found
                   /\ todo' = [todo EXCEPT ![t] = @ \ {c}]
             /\ UNCHANGED <<phase, asked>>
    <2>1. PICK c \in todo[t] :
             /\ found' = IF kind[t] = "stopped"
                         THEN [found EXCEPT ![t] = @ \cup {c}] ELSE found
             /\ todo' = [todo EXCEPT ![t] = @ \ {c}]
      BY <1>5
    <2>2. c \in Container
      BY DEF ClientTypes
    <2>3. found' \in [Lister -> SUBSET Container]
      BY <2>1, <2>2 DEF ClientTypes
    <2>4. ClientTypes' /\ Aside(t)
      BY <1>0, <1>5, <2>1, <2>3 DEF ClientTypes, Aside
    <2>5. /\ ~waiting'[t] /\ asked'[t] = None /\ phase'[t] = "scan"
          /\ kind[t] = "running" => found'[t] = found[t]
      BY <1>0, <1>5, <2>1 DEF ListerOK, Asking, ClientTypes
    <2>6. cut'[t] /\ ran[t] \subseteq ran'[t]
      BY <2>5, Watched
    <2>7. ListerOK(t)'
      BY <1>0, <1>2, <2>5, <2>6 DEF ListerOK, Asking, Answered, Gathered
    <2> QED
      BY <1>0, <1>1, <2>4, <2>7, OwnStep
  <1> QED
    BY <1>3, <1>4, <1>5 DEF Lost

\* A listing ends, and its list goes to the caller.
LEMMA EndStep ==
    ASSUME IInv, NEW t \in Lister, Finish(t) \/ Return(t), Watch({})
    PROVE  IInv'
  <1> USE DEF IInv
  <1>0. /\ t \in Thread /\ UNCHANGED <<world, req, out, up, waiting, asked, todo>>
    BY ListerAssumption DEF Finish, Return, vars
  <1>1. ServiceOK'
    BY <1>0 DEF ServiceOK
  <1>2. ClientTypes' /\ Aside(t)
    BY <1>0 DEF Finish, Return, ClientTypes, Aside, Kinds
  <1>3. CASE Finish(t)
    <2>1. /\ phase[t] = "scan" /\ ~waiting[t] /\ todo[t] = {} /\ phase'[t] = "done"
          /\ kind'[t] = kind[t] /\ found'[t] = found[t]
      BY <1>3 DEF Finish, ClientTypes
    <2>2. /\ ran[t] \subseteq ran'[t] /\ rested[t] \subseteq rested'[t]
          /\ steady'[t] \subseteq steady[t] /\ (~cut'[t] => ~cut[t])
      BY <2>1, Watched
    <2>3. req[t] = None /\ out[t] = None /\ asked[t] = None
      BY <1>0, <2>1 DEF ListerOK, Asking, ServiceOK
    <2>4. ListerOK(t)'
      BY <1>0, <2>1, <2>2, <2>3 DEF ListerOK, Asking, Answered, Gathered
    <2> QED
      BY <1>0, <1>1, <1>2, <2>4, OwnStep
  <1>4. CASE Return(t)
    <2>1. /\ phase[t] = "done" /\ phase'[t] = "idle" /\ kind'[t] = "all"
          /\ found'[t] = {}
      BY <1>4 DEF Return, ClientTypes
    <2>2. req[t] = None /\ out[t] = None
      BY <1>0, <2>1 DEF ListerOK, Asking, ServiceOK
    <2>3. ListerOK(t)'
      BY <1>0, <2>1, <2>2 DEF ListerOK, Asking, Answered, Gathered
    <2> QED
      BY <1>0, <1>1, <1>2, <2>3, OwnStep
  <1> QED
    BY <1>3, <1>4

\* A call that takes effect is under way; no other call is answered with it,
\* and the containers stay containers.
LEMMA ExecuteTypes ==
    ASSUME ServiceOK, NEW t \in Thread, Execute(t) \/ Fail(t)
    PROVE  /\ ServiceOK'
           /\ req' = req /\ req[t] # None
           /\ \A u \in Thread \ {t} : out'[u] = out[u]
  <1> USE DEF ServiceOK
  <1>1. ASSUME NEW op, NEW values, Observe(t, op, values)
        PROVE  /\ world' = world /\ req' = req /\ req[t] # None
               /\ out' = [out EXCEPT ![t] = out'[t]]
    BY <1>1 DEF Observe
  <1>2. ASSUME NEW op, NEW outcomes, \A o \in outcomes : o.rec \in Record,
               Perform(t, op, outcomes)
        PROVE  /\ world' \in World /\ req' = req /\ req[t] # None
               /\ out' = [out EXCEPT ![t] = out'[t]]
    <2>1. PICK o \in outcomes :
             /\ world' = [world EXCEPT ![req[t].c] = o.rec]
             /\ out' = [out EXCEPT ![t] = o.ret]
      BY <1>2 DEF Perform
    <2>2. req[t] \in Call /\ req[t] # None /\ req' = req
      BY <1>2 DEF Perform
    <2>3. req[t].c \in Container /\ o.rec \in Record
      BY <1>2, <2>2 DEF Call
    <2> QED
      BY <2>1, <2>2, <2>3 DEF World
  <1>3. /\ world' \in World /\ req' = req /\ req[t] # None
        /\ out' = [out EXCEPT ![t] = out'[t]]
    <2>1. CASE Fail(t)
      BY <1>1, <2>1 DEF Fail
    <2>2. CASE \/ getInterfaces(t) \/ listContainers(t) \/ getConfigItem(t)
               \/ setConfigItem(t) \/ getErrorNum(t)
      BY <1>1, <2>2 DEF getInterfaces, listContainers, getConfigItem, setConfigItem,
                        getErrorNum
    <2>3. CASE \/ isDefined(t) \/ isRunning(t) \/ getState(t) \/ startContainer(t)
               \/ stopContainer(t) \/ freezeContainer(t) \/ unfreezeContainer(t)
               \/ destroyContainer(t) \/ createSnapshot(t)
      <3>1. req[t] \in Call
        BY <2>3 DEF isDefined, isRunning, getState, startContainer, stopContainer,
                    freezeContainer, unfreezeContainer, destroyContainer, createSnapshot,
                    Perform
      <3>2. Subject(t) \in Record
        BY <3>1 DEF Call, Subject, World
      <3> QED
        BY <1>2, <2>3, <3>2, LibraryTypes
           DEF isDefined, isRunning, getState, startContainer, stopContainer,
               freezeContainer, unfreezeContainer, destroyContainer, createSnapshot
    <2> QED
      BY <2>1, <2>2, <2>3 DEF Execute
  <1> QED
    BY <1>3

\* The answer listContainers makes holds every container that is defined.
LEMMA ListAnswer ==
    ASSUME ServiceOK, NEW t \in Thread, Execute(t), req[t].op = "listContainers"
    PROVE  /\ world' = world
           /\ Names(out'[t]) = DefinedIn(world)
  <1>1. listContainers(t)
    BY DEF Execute, isDefined, isRunning, getState, startContainer, stopContainer,
           freezeContainer, unfreezeContainer, destroyContainer, createSnapshot,
           getInterfaces, getConfigItem, setConfigItem, getErrorNum, Perform, Observe
  <1>2. /\ world' = world
        /\ out'[t] = IF DefinedIn(world) = {} THEN Null ELSE Strings(DefinedIn(world))
    BY <1>1 DEF listContainers, Observe, ServiceOK
  <1> QED
    BY <1>2 DEF Names, Null, Strings

\* The answer isRunning makes is true at the moment it is made.
LEMMA RunningAnswer ==
    ASSUME ServiceOK, NEW t \in Thread, Execute(t), req[t].op = "isRunning"
    PROVE  /\ world' = world
           /\ out'[t] = JNI_TRUE <=> req[t].c \in RunningIn(world)
  <1>1. isRunning(t)
    BY DEF Execute, isDefined, listContainers, getState, startContainer, stopContainer,
           freezeContainer, unfreezeContainer, destroyContainer, createSnapshot,
           getInterfaces, getConfigItem, setConfigItem, getErrorNum, Perform, Observe
  <1>2. req[t].c \in Container
    BY <1>1 DEF isRunning, Perform, ServiceOK, Call
  <1>3. /\ world' = [world EXCEPT ![req[t].c] = Subject(t)]
        /\ out'[t] = Bool(Subject(t).run # "STOPPED")
    <2>1. PICK o \in IsRunning(Subject(t)) :
             /\ world' = [world EXCEPT ![req[t].c] = o.rec]
             /\ out' = [out EXCEPT ![t] = o.ret]
      BY <1>1 DEF isRunning, Perform
    <2>2. o.rec = Subject(t) /\ o.ret = Bool(Subject(t).run # "STOPPED")
      BY DEF IsRunning, Outcome
    <2> QED
      BY <2>1, <2>2 DEF ServiceOK
  <1>4. world' = world
    BY <1>2, <1>3 DEF ServiceOK, World, Subject
  <1> QED
    BY <1>2, <1>3, <1>4 DEF Subject, RunningIn, Bool, JNI_TRUE, JNI_FALSE

\* A call takes effect.
LEMMA ExecuteStep ==
    ASSUME IInv, NEW t \in Thread, Execute(t), UNCHANGED <<up, client>>, Watch({})
    PROVE  IInv'
  <1> USE DEF IInv, client
  <1>1. /\ ServiceOK' /\ req' = req /\ req[t] # None
        /\ \A u \in Thread \ {t} : out'[u] = out[u]
    BY ExecuteTypes
  <1>2. ClientTypes' /\ Aside(t)
    BY <1>1, ListerAssumption DEF ClientTypes, Aside
  <1>3. ASSUME t \in Lister PROVE ListerOK(t)'
    <2>1. phase[t] \in {"list", "scan"} /\ phase'[t] = phase[t]
      BY <1>1, <1>3 DEF ListerOK, Asking
    <2>2. /\ ran[t] \cup RunningIn(world') \subseteq ran'[t]
          /\ rested[t] \cup (Container \ RunningIn(world')) \subseteq rested'[t]
          /\ steady'[t] \subseteq RunningIn(world') \cap DefinedIn(world')
          /\ steady'[t] \subseteq steady[t] /\ (~cut'[t] => ~cut[t])
      BY <1>3, <2>1, Watched
    <2>3. Asking(t)' /\ Gathered(t)'
      BY <1>1, <1>3, <2>2 DEF ListerOK, Asking, Gathered
    <2>4. Answered(t)'
      <3>1. CASE phase[t] = "list"
        <4>1. world' = world /\ Names(out'[t]) = DefinedIn(world)
          BY <1>1, <1>3, <3>1, ListAnswer DEF ListerOK, Asking
        <4> QED
          BY <2>1, <2>2, <3>1, <4>1 DEF Answered, DefinedIn
      <3>2. CASE phase[t] = "scan"
        <4>1. asked[t] = req[t].c /\ asked[t] \in Container
          BY <1>1, <1>3, <3>2 DEF ListerOK, Asking, ServiceOK, Call
        <4>2. /\ world' = world
              /\ out'[t] = JNI_TRUE <=> asked[t] \in RunningIn(world)
          BY <1>1, <1>3, <3>2, <4>1, RunningAnswer DEF ListerOK, Asking
        <4> QED
          BY <2>1, <2>2, <3>2, <4>1, <4>2 DEF Answered
      <3> QED
        BY <2>1, <3>1, <3>2
    <2> QED
      BY <2>3, <2>4 DEF ListerOK
  <1> QED
    BY <1>1, <1>2, <1>3, OwnStep

\* A call fails: from here on the listing it belongs to claims less.
LEMMA FailStep ==
    ASSUME IInv, NEW t \in Thread, Fail(t), UNCHANGED <<up, client>>, Watch({t})
    PROVE  IInv'
  <1> USE DEF IInv, client
  <1>1. /\ ServiceOK' /\ req' = req /\ req[t] # None
        /\ \A u \in Thread \ {t} : out'[u] = out[u]
    BY ExecuteTypes
  <1>2. ClientTypes' /\ Aside(t)
    BY <1>1, ListerAssumption DEF ClientTypes, Aside
  <1>3. ASSUME t \in Lister PROVE ListerOK(t)'
    <2>1. phase[t] \in {"list", "scan"} /\ phase'[t] = phase[t]
      BY <1>1, <1>3 DEF ListerOK, Asking
    <2>2. cut'[t] /\ ran[t] \subseteq ran'[t]
      BY <1>3, <2>1, Watched
    <2>3. out'[t] = Default(req[t].op)
      BY DEF Fail, Observe, ServiceOK
    <2>4. phase[t] = "list" => Names(out'[t]) = {}
      BY <1>1, <1>3, <2>3 DEF ListerOK, Asking, Default, BoolOp, IntOp, Names
    <2>5. phase[t] = "scan" => out'[t] # JNI_TRUE
      BY <1>1, <1>3, <2>3 DEF ListerOK, Asking, Default, BoolOp, JNI_TRUE, JNI_FALSE
    <2> QED
      BY <1>1, <1>3, <2>1, <2>2, <2>4, <2>5 DEF ListerOK, Asking, Answered, Gathered
  <1> QED
    BY <1>1, <1>2, <1>3, OwnStep

\* The rest of the app, the death of the service and the device.
LEMMA EnvironmentStep ==
    ASSUME IInv,
           \/ \E t \in Thread \ Lister : SingleCall(t)
           \/ ServiceDies
           \/ Device,
           Watch({})
    PROVE  IInv'
  <1> USE DEF IInv, client
  <1>1. UNCHANGED client /\ ClientTypes'
    BY DEF SingleCall, ServiceDies, Device, ClientTypes
  <1>2. ServiceOK'
    <2>1. ASSUME NEW t \in Thread, NEW q \in Workload, Receive(t, q)
          PROVE  ServiceOK'
      BY <2>1, ReceiveTypes, ServiceAssumption
    <2>2. ASSUME NEW t \in Thread \ Lister, SingleCall(t) PROVE ServiceOK'
      BY <2>1, <2>2, ReplyTypes DEF SingleCall
    <2>3. CASE ServiceDies
      BY <2>3 DEF ServiceDies, Die, ServiceOK
    <2>4. ASSUME NEW c \in Container, Define(c) \/ Halt(c) PROVE ServiceOK'
      <3>1. UNCHANGED <<req, out>>
        BY <2>4 DEF Define, Halt
      <3>2. \A f \in Conf : Created(f) \in Record
        BY RecordTypes
      <3>3. [world[c] EXCEPT !.run = "STOPPED"] \in Record
        BY RecordTypes DEF ServiceOK, World, RunState
      <3>4. world' \in World
        BY <2>4, <3>2, <3>3 DEF Define, Halt, ServiceOK, World
      <3> QED
        BY <3>1, <3>4 DEF ServiceOK
    <2> QED
      BY <2>2, <2>3, <2>4 DEF Device
  <1>3. ASSUME NEW u \in Lister
        PROVE  \/ req'[u] = req[u] /\ out'[u] = out[u]
               \/ req'[u] = None /\ out'[u] = None
    <2>1. u \in Thread
      BY ListerAssumption
    <2>2. ASSUME NEW t \in Thread \ Lister, SingleCall(t)
          PROVE  req'[u] = req[u] /\ out'[u] = out[u]
      <3>1. CASE \E q \in Workload : Receive(t, q)
        BY <2>1, <3>1 DEF Receive, ServiceOK
      <3>2. CASE Reply(t)
        BY <2>1, <3>2 DEF Reply, ServiceOK
      <3> QED
        BY <2>2, <3>1, <3>2 DEF SingleCall
    <2>3. CASE ServiceDies
      BY <2>1, <2>3 DEF ServiceDies, Die
    <2>4. CASE Device
      BY <2>4 DEF Device, Define, Halt
    <2> QED
      BY <2>2, <2>3, <2>4
  <1>4. ASSUME NEW u \in Lister PROVE ListerOK(u)'
    BY <1>1, <1>3, Undisturbed
  <1> QED
    BY <1>1, <1>2, <1>4, WatchTypes

\* Every step keeps the invariant.
LEMMA StepInv == IInv /\ [ManagerNext]_managerVars => IInv'
  <1> SUFFICES ASSUME IInv, [ManagerNext]_managerVars PROVE IInv'
    OBVIOUS
  <1>1. ASSUME NEW t \in Lister, Listing(t), Watch({}) PROVE IInv'
    <2>1. CASE Begin(t)
      BY <1>1, <2>1, BeginStep
    <2>2. CASE Transact(t)
      BY <1>1, <2>2, TransactStep
    <2>3. CASE Answer(t)
      BY <1>1, <2>3, NamesStep, RunningStep DEF Answer, Takes
    <2>4. CASE Finish(t) \/ Return(t)
      BY <1>1, <2>4, EndStep
    <2> QED
      BY <1>1, <2>1, <2>2, <2>3, <2>4 DEF Listing
  <1>2. ASSUME NEW t \in Lister, Lost(t), Watch({t}) PROVE IInv'
    BY <1>2, LostStep
  <1>3. ASSUME NEW t \in Thread, Execute(t), UNCHANGED <<up, client>>, Watch({})
        PROVE  IInv'
    BY <1>3, ExecuteStep
  <1>4. ASSUME NEW t \in Thread, Fail(t), UNCHANGED <<up, client>>, Watch({t})
        PROVE  IInv'
    BY <1>4, FailStep
  <1>5. CASE UNCHANGED managerVars
    BY <1>5 DEF managerVars, vars, client, history, IInv, ServiceOK, ClientTypes, Histories,
                ListerOK, Asking, Answered, Gathered
  <1> QED
    BY <1>1, <1>2, <1>3, <1>4, <1>5, EnvironmentStep DEF ManagerNext

\* So it holds in every state of every behaviour.
LEMMA Invariance == ManagerSpec => []IInv
  BY InitInv, StepInv, PTL DEF ManagerSpec

-----------------------------------------------------------------------------
(* Theorems *)

\* LxcManager and LxcContainer: the client's state keeps its types, and a
\* listing waits for at most the answer to the question it asked.
THEOREM TypeCorrect == ManagerSpec => []ManagerTypeOK
  <1>1. IInv => ManagerTypeOK
    BY DEF IInv, ServiceOK, ClientTypes, ListerOK, Asking, ManagerTypeOK
  <1> QED
    BY <1>1, Invariance, PTL

\* LxcManager.listRunningContainers: each container it returns was running at
\* some moment while the list was made, for any number of threads, whatever
\* they call, and even when calls of the listing were lost.
THEOREM RunningListIsSound == ManagerSpec => []RunningWereRunning
  <1>1. IInv => RunningWereRunning
    BY DEF IInv, ListerOK, Gathered, RunningWereRunning, Done
  <1> QED
    BY <1>1, Invariance, PTL

\* LxcManager.listRunningContainers misses no container that was defined and
\* running all the while, provided every call of the listing succeeded.
THEOREM RunningListIsComplete == ManagerSpec => []RunningComplete
  <1>1. ASSUME IInv, NEW t \in Lister, Done(t, "running"), ~cut[t]
        PROVE  steady[t] \subseteq found[t]
    <2>1. todo[t] = {} /\ asked[t] = None
      BY <1>1 DEF IInv, ListerOK, Asking, Done, ClientTypes
    <2>2. None \notin steady[t]
      BY ListerAssumption, <1>1 DEF IInv, Histories
    <2> QED
      BY <1>1, <2>1, <2>2 DEF IInv, ListerOK, Gathered, Done
  <1>2. IInv => RunningComplete
    BY <1>1 DEF RunningComplete
  <1> QED
    BY <1>2, Invariance, PTL

\* LxcManager.listStoppedContainers: each container it returns was not running
\* at some moment, provided every call of the listing succeeded.
THEOREM StoppedListIsSound == ManagerSpec => []StoppedWereStopped
  <1>1. IInv => StoppedWereStopped
    BY DEF IInv, ListerOK, Gathered, StoppedWereStopped, Done
  <1> QED
    BY <1>1, Invariance, PTL

-----------------------------------------------------------------------------
(* Every step of a listing brings it nearer to its end *)

LEMMA Sizes ==
    /\ Cardinality(Container) \in Nat
    /\ \A S \in SUBSET Container :
          Cardinality(S) \in Nat /\ Cardinality(S) <= Cardinality(Container)
  BY LibAssumption, FS_Subset, FS_CardinalityType

\* One name less.
LEMMA OneLess ==
    ASSUME NEW S \in SUBSET Container, NEW c \in S
    PROVE  Cardinality(S \ {c}) = Cardinality(S) - 1
  BY LibAssumption, FS_Subset, FS_RemoveElement, FS_CardinalityType

\* What remains of a listing is a number of steps.
Measured == \A t \in Lister : Remaining(t) \in Nat

LEMMA RemainingType == IInv => Measured
  <1>1. ASSUME IInv, NEW t \in Lister PROVE Remaining(t) \in Nat
    <2>1. /\ Cardinality(todo[t]) \in Nat /\ Cardinality(Container) \in Nat
          /\ phase[t] \in {"idle", "list", "scan", "done"} /\ waiting[t] \in BOOLEAN
      BY <1>1, Sizes DEF IInv, ClientTypes
    <2> QED
      BY <2>1 DEF Remaining
  <1> QED
    BY <1>1 DEF Measured

\* A question is asked: one name less, and an answer to come.
LEMMA AskNearer ==
    ASSUME IInv, NEW t \in Lister, NEW op, NEW c, Asks(t, op, c)
    PROVE  Remaining(t)' < Remaining(t)
  <1> USE DEF IInv, ClientTypes
  <1>1. ~waiting[t] /\ waiting'[t] /\ phase'[t] = phase[t]
    BY DEF Asks
  <1>2. CASE phase[t] = "list"
    BY <1>1, <1>2, Sizes DEF Remaining
  <1>3. CASE phase[t] = "scan" /\ c \in todo[t] /\ todo' = [todo EXCEPT ![t] = @ \ {c}]
    <2>1. todo[t] \in SUBSET Container /\ todo'[t] = todo[t] \ {c}
      BY <1>3
    <2>2. Cardinality(todo'[t]) = Cardinality(todo[t]) - 1 /\ Cardinality(todo[t]) \in Nat
      BY <1>3, <2>1, OneLess, Sizes
    <2> QED
      BY <1>1, <1>3, <2>2 DEF Remaining
  <1> QED
    BY <1>2, <1>3 DEF Asks

\* The names come, by an answer or in place of one.
LEMMA NamesNearer ==
    ASSUME IInv, NEW t \in Lister, NEW S \in SUBSET Container,
           TakeNames(t, S), waiting' = [waiting EXCEPT ![t] = FALSE]
    PROVE  Remaining(t)' < Remaining(t)
  <1> USE DEF IInv, ClientTypes
  <1>1. phase[t] = "list" /\ waiting[t] \in BOOLEAN /\ ~waiting'[t]
    BY DEF TakeNames
  <1>2. \/ phase'[t] = "done"
        \/ phase'[t] = "scan" /\ todo'[t] = S
    BY DEF TakeNames
  <1>3. Remaining(t) >= 3 + 2 * Cardinality(Container)
    BY <1>1, Sizes DEF Remaining
  <1>4. Remaining(t)' = 1 \/ Remaining(t)' = 2 + 2 * Cardinality(S)
    BY <1>1, <1>2 DEF Remaining
  <1>5. Remaining(t) \in Nat
    BY RemainingType DEF Measured
  <1> QED
    BY <1>3, <1>4, <1>5, Sizes

\* The answer about a name comes, or none will.
LEMMA RunningNearer ==
    ASSUME IInv, NEW t \in Lister, NEW b, waiting[t],
           TakeRunning(t, b), waiting' = [waiting EXCEPT ![t] = FALSE]
    PROVE  Remaining(t)' < Remaining(t)
  <1>1. /\ phase[t] = "scan" /\ phase'[t] = "scan" /\ todo' = todo
        /\ waiting[t] /\ ~waiting'[t] /\ Cardinality(todo[t]) \in Nat
    BY Sizes DEF IInv, ClientTypes, TakeRunning
  <1> QED
    BY <1>1 DEF Remaining

\* A name is given up, the service being dead.
LEMMA NameLostNearer ==
    ASSUME IInv, NEW t \in Lister, NEW c \in todo[t], phase[t] = "scan", ~waiting[t],
           todo' = [todo EXCEPT ![t] = @ \ {c}], phase' = phase,
           waiting' = [waiting EXCEPT ![t] = FALSE]
    PROVE  Remaining(t)' < Remaining(t)
  <1>1. /\ Cardinality(todo'[t]) = Cardinality(todo[t]) - 1 /\ Cardinality(todo[t]) \in Nat
        /\ phase'[t] = "scan" /\ ~waiting'[t]
    BY Sizes, OneLess DEF IInv, ClientTypes
  <1> QED
    BY <1>1 DEF Remaining

LEMMA ListingNearer ==
    ASSUME IInv, NEW t \in Lister, phase[t] # "idle", Listing(t) \/ Lost(t)
    PROVE  Remaining(t)' < Remaining(t)
  <1>1. CASE Begin(t)
    BY <1>1 DEF Begin
  <1>2. CASE Transact(t)
    BY <1>2, AskNearer DEF Transact
  <1>3. CASE Answer(t)
    <2>1. waiting[t] /\ waiting' = [waiting EXCEPT ![t] = FALSE] /\ out[t] # None
      BY <1>3 DEF Answer, Takes, Reply
    <2>2. CASE TakeNames(t, Names(out[t]))
      <3>1. Names(out[t]) \in SUBSET Container
        BY <2>1, <2>2 DEF IInv, ListerOK, Answered, TakeNames
      <3> QED
        BY <2>1, <2>2, <3>1, NamesNearer
    <2>3. CASE TakeRunning(t, out[t] = JNI_TRUE)
      BY <2>1, <2>3, RunningNearer
    <2> QED
      BY <1>3, <2>2, <2>3 DEF Answer, Takes, Names
  <1>4. CASE Finish(t) \/ Return(t)
    <2>1. \/ phase[t] = "scan" /\ ~waiting[t] /\ phase'[t] = "done"
          \/ phase[t] = "done" /\ phase'[t] = "idle"
      BY <1>4 DEF Finish, Return, IInv, ClientTypes
    <2>2. Cardinality(todo[t]) \in Nat
      BY Sizes DEF IInv, ClientTypes
    <2> QED
      BY <2>1, <2>2 DEF Remaining
  <1>5. CASE Lost(t)
    <2>1. waiting' = [waiting EXCEPT ![t] = FALSE]
      BY <1>5 DEF Lost
    <2>2. CASE TakeNames(t, {})
      BY <2>1, <2>2, NamesNearer
    <2>3. CASE waiting[t] /\ TakeRunning(t, FALSE)
      BY <2>1, <2>3, RunningNearer
    <2>4. CASE /\ ~waiting[t] /\ phase[t] = "scan" /\ UNCHANGED phase
               /\ \E c \in todo[t] : todo' = [todo EXCEPT ![t] = @ \ {c}]
      BY <2>1, <2>4, NameLostNearer
    <2> QED
      BY <1>5, <2>2, <2>3, <2>4 DEF Lost
  <1> QED
    BY <1>1, <1>2, <1>3, <1>4, <1>5 DEF Listing

\* The steps of the others leave a listing alone.
LEMMA OthersOwn ==
    ASSUME IInv, NEW t \in Lister, Own(t)' # Own(t), [ManagerNext]_managerVars
    PROVE  Listing(t) \/ Lost(t)
  <1> USE DEF IInv
  <1>1. ASSUME NEW u \in Lister, u # t, Listing(u) \/ Lost(u) PROVE FALSE
    <2>1. Begin(u) \/ Finish(u) \/ Return(u) => Own(t)' = Own(t)
      BY <1>1 DEF Begin, Finish, Return, Own, ClientTypes
    <2>2. Transact(u) => Own(t)' = Own(t)
      BY <1>1 DEF Transact, Asks, Own, ClientTypes
    <2>3. Answer(u) => Own(t)' = Own(t)
      BY <1>1 DEF Answer, Takes, TakeNames, TakeRunning, Own, ClientTypes
    <2>4. Lost(u) => Own(t)' = Own(t)
      BY <1>1 DEF Lost, TakeNames, TakeRunning, Own, ClientTypes
    <2> QED
      BY <1>1, <2>1, <2>2, <2>3, <2>4 DEF Listing
  <1>2. UNCHANGED client => Own(t)' = Own(t)
    BY DEF client, Own
  <1>3. UNCHANGED managerVars \/ ServiceDies \/ Device
        \/ (\E u \in Thread : SingleCall(u)) => UNCHANGED client
    BY DEF managerVars, ServiceDies, Device, SingleCall
  <1> QED
    BY <1>1, <1>2, <1>3 DEF ManagerNext, client

\* Whatever happens to a listing that has begun brings it nearer to its end, for
\* lists of any length: it asks about each name once, however calls fail and
\* whenever the service dies.
THEOREM ListingsProgress == ManagerSpec => NearerToEnd
  <1> DEFINE Nearer ==
        \A t \in Lister :
            phase[t] # "idle" /\ Own(t)' # Own(t) => Remaining(t)' \in 0 .. (Remaining(t) - 1)
  <1>1. ASSUME IInv, Measured, Measured', [ManagerNext]_managerVars PROVE Nearer
    <2>1. ASSUME NEW t \in Lister, phase[t] # "idle", Own(t)' # Own(t)
          PROVE  Remaining(t)' < Remaining(t)
      BY <1>1, <2>1, OthersOwn, ListingNearer
    <2> QED
      BY <1>1, <2>1 DEF Measured
  <1>2. IInv /\ Measured /\ Measured' /\ [ManagerNext]_managerVars => [Nearer]_managerVars
    BY <1>1
  <1> QED
    BY <1>2, RemainingType, Invariance, PTL DEF ManagerSpec, NearerToEnd
=============================================================================
