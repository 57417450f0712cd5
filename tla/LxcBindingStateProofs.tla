------------------------ MODULE LxcBindingStateProofs ------------------------
(***************************************************************************)
(* More theorems about LxcBinding: its types, the references a process     *)
(* holds, and the texts that the three readers return, whatever happens    *)
(* to the container between the call that probes and the call that reads.  *)
(***************************************************************************)
EXTENDS LxcBindingProofs, LxcLibProofs, SequenceTheorems

-----------------------------------------------------------------------------
(* Inductive invariant *)

Handle == [c : Container, conf : Conf]

\* A reader in the middle of its call: once it has a block, the block is one
\* longer than the text was.
ReaderCall == [fn : Reader, key : Key, at : {"malloc", "fetch"}, len : Nat, block : Nat]

Reading(c) == c \in ReaderCall /\ (c.at = "fetch" => c.block = c.len + 1)

\* What a function may answer.
Answer(a) ==
    \/ a \in {None, JNI_TRUE, JNI_FALSE, Null, Str("text")}
    \/ a \in {Str(s) : s \in RunState} \cup {Chars(v) : v \in Item \cup Value}
    \/ a[1] = "jint" /\ a[2] \in Int

\* What it may answer, given what it was called with.
Fits(p, a) ==
    /\ Answer(a)
    /\ p # None /\ p[1] \in DOMAIN SinceDescriptor => a[2] = 3 \/ a[2] = 0 \/ a[2] < 0
    /\ p # None /\ p[1] = "migrate" /\ ~p[2] => a[2] < 0
    /\ p # None /\ p[1] \in Reader /\ a # Null =>
          a[2] \in Item \cup Value /\ Len(a[2]) < p[3]

Held == {t \in Caller : handle[t] # None}

CloneSet == {t \in Caller : Cloning(t)}

\* What a caller may be in the middle of.
Known(c) == c \in Await \cup {CloneCall, None} \/ Reading(c)

\* What every reachable state satisfies: only a caller with a handle is in a call,
\* and its call tells what it still has to give back.
StateInv ==
    /\ Inv
    /\ world \in World
    /\ handle \in [Caller -> Handle \cup {None}]
    /\ refs \in Nat /\ refs = Cardinality(Held) + Cardinality(CloneSet)
    /\ \A t \in Caller :
          /\ call[t] # None => handle[t] # None
          /\ Known(call[t])
          /\ Fits(passed[t], answer[t])

-----------------------------------------------------------------------------
(* What the members answer *)

\* An attempt leaves the container alone or has its effect, and answers a
\* jboolean.
LEMMA Attempted ==
    ASSUME NEW r \in Record, NEW can, NEW new, can => new \in Record,
           NEW o \in Attempt(r, can, new)
    PROVE  o.rec \in Record /\ Answer(o.ret)
<1>1. o = Outcome(r, JNI_FALSE) \/ (can /\ o = Outcome(new, JNI_TRUE))
  BY DEF Attempt
<1> QED
  BY <1>1 DEF Outcome, Answer

\* What fits the signature of a method of the wrapper is an answer.
LEMMA Signed ==
    /\ \A op \in BoolOp : \A a \in ResultOf(op) : Answer(a)
    /\ \A op \in IntOp : \A a \in ResultOf(op) : Answer(a)
<1>1. \A op \in BoolOp : \A a \in ResultOf(op) : Answer(a)
  BY Signatures DEF Answer
<1>2. \A op \in IntOp : \A a \in ResultOf(op) : Answer(a)
  BY Signatures, LibAssumption DEF Answer, Int_
<1> QED
  BY <1>1, <1>2

\* The functions of the first table.
LEMMA RunOutcomeTypes ==
    ASSUME NEW r \in Record, NEW fn \in DOMAIN RunOutcomes(r), NEW o \in RunOutcomes(r)[fn]
    PROVE  o.rec \in Record /\ Answer(o.ret)
<1>1. DOMAIN RunOutcomes(r) =
        {"defined", "state", "running", "freeze", "unfreeze", "init_pid", "want_daemonize",
         "want_close_all_fds", "start", "stop", "shutdown", "reboot", "destroy",
         "destroy_with_snapshots", "wait"}
  BY DEF RunOutcomes
<1>2. CASE fn \in {"defined", "running", "freeze", "unfreeze", "start", "stop", "shutdown", "destroy"}
  <2>1. o \in IsDefined(r) \cup IsRunning(r) \cup Freeze(r) \cup Unfreeze(r) \cup Start(r)
                \cup Stop(r) \cup Destroy(r)
    BY <1>2 DEF RunOutcomes
  <2>2. \E op \in BoolOp : o.rec \in Record /\ o.ret \in ResultOf(op)
    BY <2>1, LibraryTypes DEF BoolOp
  <2> QED
    BY <2>2, Signed
<1>3. CASE fn = "state"
  BY <1>3 DEF RunOutcomes, State, Outcome, Answer, Record
<1>4. CASE fn = "init_pid"
  <2>1. o = Outcome(r, Int_(-1)) \/ o = Outcome(r, Int_(1))
    BY <1>4 DEF RunOutcomes
  <2>2. Answer(Int_(-1)) /\ Answer(Int_(1))
    BY DEF Answer, Int_
  <2> QED
    BY <2>1, <2>2 DEF Outcome
<1>5. CASE fn \in {"want_daemonize", "want_close_all_fds", "wait"}
  <2>1. o = Outcome(r, JNI_FALSE) \/ o = Outcome(r, JNI_TRUE)
    BY <1>5 DEF RunOutcomes, Attempt
  <2> QED
    BY <2>1 DEF Outcome, Answer
<1>6. CASE fn = "reboot"
  BY <1>6, Attempted, RecordTypes DEF RunOutcomes, RunState
<1>7. CASE fn = "destroy_with_snapshots"
  BY <1>7, Attempted, RecordTypes DEF RunOutcomes
<1> QED
  BY <1>1, <1>2, <1>3, <1>4, <1>5, <1>6, <1>7

\* The functions of the second table.
LEMMA SnapshotOutcomeTypes ==
    ASSUME NEW r \in Record, NEW fn \in DOMAIN SnapshotOutcomes(r),
           NEW o \in SnapshotOutcomes(r)[fn]
    PROVE  o.rec \in Record /\ Answer(o.ret)
<1>1. DOMAIN SnapshotOutcomes(r) =
        {"may_control", "snapshot", "snapshot_list", "snapshot_destroy", "snapshot_destroy_all",
         "add_device_node", "remove_device_node", "checkpoint", "restore", "set_cgroup_item",
         "attach_interface", "detach_interface"}
  BY DEF SnapshotOutcomes
<1>2. r.snaps \in 0..MaxSnaps /\ MaxSnaps \in Nat
  BY RecordTypes, LibAssumption
<1>3. CASE fn = "snapshot"
  <2>1. o \in Snapshot(r)
    BY <1>3 DEF SnapshotOutcomes
  <2> QED
    BY <2>1, LibraryTypes, Signed DEF IntOp
<1>4. CASE fn = "snapshot_list"
  <2>1. o = Outcome(r, Int_(r.snaps))
    BY <1>4 DEF SnapshotOutcomes
  <2>2. Answer(Int_(r.snaps))
    BY <1>2 DEF Answer, Int_
  <2> QED
    BY <2>1, <2>2 DEF Outcome
<1>5. CASE fn = "snapshot_destroy"
  <2>1. r.snaps > 0 => r.snaps - 1 \in 0..MaxSnaps
    BY <1>2
  <2>2. r.snaps > 0 => [r EXCEPT !.snaps = r.snaps - 1] \in Record
    BY <2>1, RecordTypes
  <2>3. o \in Attempt(r, r.snaps > 0, [r EXCEPT !.snaps = r.snaps - 1])
    BY <1>5 DEF SnapshotOutcomes
  <2> QED
    BY <2>2, <2>3, Attempted
<1>6. CASE fn = "snapshot_destroy_all"
  <2>1. [r EXCEPT !.snaps = 0] \in Record
    BY <1>2, RecordTypes
  <2> QED
    BY <1>6, <2>1, Attempted DEF SnapshotOutcomes
<1>7. CASE fn \in {"may_control", "add_device_node", "remove_device_node", "set_cgroup_item",
                   "attach_interface", "detach_interface"}
  <2>1. o = Outcome(r, JNI_FALSE) \/ o = Outcome(r, JNI_TRUE)
    BY <1>7 DEF SnapshotOutcomes, Attempt
  <2> QED
    BY <2>1 DEF Outcome, Answer
<1>8. CASE fn = "checkpoint"
  <2>1. [r EXCEPT !.run = "STOPPED"] \in Record
    BY RecordTypes DEF RunState
  <2>2. \/ o \in Attempt(r, r.run = "RUNNING", r)
        \/ o \in Attempt(r, r.run = "RUNNING", [r EXCEPT !.run = "STOPPED"])
    BY <1>8 DEF SnapshotOutcomes
  <2> QED
    BY <2>1, <2>2, Attempted
<1>9. CASE fn = "restore"
  <2>1. [r EXCEPT !.run = "RUNNING"] \in Record
    BY RecordTypes DEF RunState
  <2> QED
    BY <1>9, <2>1, Attempted DEF SnapshotOutcomes
<1> QED
  BY <1>1, <1>3, <1>4, <1>5, <1>6, <1>7, <1>8, <1>9

-----------------------------------------------------------------------------
(* Functions of one step *)

\* The container of an open handle.
LEMMA HandleTypes ==
    ASSUME StateInv, NEW t \in Caller, handle[t] # None
    PROVE  handle[t].c \in Container /\ handle[t].conf \in Conf /\ Subject(t) \in Record
  BY DEF StateInv, Handle, World, Subject

\* An answer fits a note of a function that neither reads a text nor a descriptor.
LEMMA PlainNote ==
    ASSUME NEW a, Answer(a), NEW fn, fn \notin DOMAIN SinceDescriptor, fn \notin Reader,
           NEW reached, NEW arg, fn # "migrate" \/ reached \/ a[2] < 0
    PROVE  Fits(None, a) /\ Fits(<<fn, reached, arg>>, a)
<1>1. <<fn, reached, arg>>[1] = fn /\ <<fn, reached, arg>>[2] = reached
  OBVIOUS
<1> QED
  BY <1>1 DEF Fits

\* A step that gives one caller an answer and changes nothing else of the binding.
LEMMA AnswerStep ==
    ASSUME StateInv, Inv', NEW t \in Caller, world' \in World, UNCHANGED <<handle, refs, call>>,
           NEW p, NEW a, Fits(p, a),
           passed' = [passed EXCEPT ![t] = p], answer' = [answer EXCEPT ![t] = a]
    PROVE  StateInv'
<1>1. \A u \in Caller : Fits(passed'[u], answer'[u])
  BY DEF StateInv, Inv
<1>2. Held' = Held /\ CloneSet' = CloneSet
  BY DEF Held, CloneSet, Cloning
<1> QED
  BY <1>1, <1>2 DEF StateInv, Known

\* The functions that hand their arguments to a member.
LEMMA MemberStep ==
    ASSUME StateInv, Inv', NEW t \in Caller, NEW of, CallMember(t, of),
           \A fn \in DOMAIN of : \A o \in of[fn] : o.rec \in Record /\ Answer(o.ret),
           \A fn \in DOMAIN of :
              fn \notin DOMAIN SinceDescriptor /\ fn \notin Reader /\ fn # "migrate"
    PROVE  StateInv'
<1>1. UNCHANGED <<handle, refs, call>> /\ handle[t] # None
  BY DEF CallMember, Idle
<1>2. PICK fn \in DOMAIN of :
        IF fn \in DOMAIN SinceMember /\ ~VERSION_AT_LEAST(SinceMember[fn])
        THEN Refuses(t, fn, JNI_FALSE) /\ UNCHANGED world
        ELSE \E o \in of[fn] :
                /\ world' = [world EXCEPT ![handle[t].c] = o.rec]
                /\ IF fn \in DOMAIN SinceMember THEN Returns(t, fn, None, o.ret)
                   ELSE Forwards(t, o.ret)
  BY DEF CallMember
<1>3. CASE Refuses(t, fn, JNI_FALSE) /\ UNCHANGED world
  <2>1. Fits(<<fn, FALSE, None>>, JNI_FALSE)
    BY PlainNote DEF Answer
  <2> QED
    BY <1>1, <1>3, <2>1, AnswerStep DEF Refuses, StateInv
<1>4. CASE \E o \in of[fn] :
              /\ world' = [world EXCEPT ![handle[t].c] = o.rec]
              /\ Returns(t, fn, None, o.ret) \/ Forwards(t, o.ret)
  <2>1. PICK o \in of[fn] : /\ world' = [world EXCEPT ![handle[t].c] = o.rec]
                            /\ Returns(t, fn, None, o.ret) \/ Forwards(t, o.ret)
    BY <1>4
  <2>2. world' \in World
    BY <1>1, <2>1, HandleTypes DEF StateInv, World
  <2>3. Fits(None, o.ret) /\ Fits(<<fn, TRUE, None>>, o.ret)
    BY PlainNote
  <2> QED
    BY <1>1, <2>1, <2>2, <2>3, AnswerStep DEF Returns, Forwards
<1> QED
  BY <1>2, <1>3, <1>4

\* None of them reads a text or a descriptor.
LEMMA MembersPlain ==
    ASSUME NEW r
    PROVE  \A fn \in DOMAIN RunOutcomes(r) \cup DOMAIN SnapshotOutcomes(r) :
              fn \notin DOMAIN SinceDescriptor /\ fn \notin Reader /\ fn # "migrate"
<1>1. DOMAIN SinceDescriptor = {"init_pidfd", "seccomp_notify_fd", "seccomp_notify_fd_active",
                               "set_timeout", "devpts_fd"}
  BY DEF SinceDescriptor
<1>2. DOMAIN RunOutcomes(r) =
        {"defined", "state", "running", "freeze", "unfreeze", "init_pid", "want_daemonize",
         "want_close_all_fds", "start", "stop", "shutdown", "reboot", "destroy",
         "destroy_with_snapshots", "wait"}
  BY DEF RunOutcomes
<1>3. DOMAIN SnapshotOutcomes(r) =
        {"may_control", "snapshot", "snapshot_list", "snapshot_destroy", "snapshot_destroy_all",
         "add_device_node", "remove_device_node", "checkpoint", "restore", "set_cgroup_item",
         "attach_interface", "detach_interface"}
  BY DEF SnapshotOutcomes
<1> QED
  BY <1>1, <1>2, <1>3 DEF Reader

\* What a function that makes a descriptor answers fits its note.
LEMMA DescriptorNote ==
    ASSUME NEW fn \in DOMAIN SinceDescriptor, NEW n \in Int, n = 3 \/ n = 0 \/ n < 0, NEW reached
    PROVE  Fits(<<fn, reached, None>>, Int_(n))
<1>1. <<fn, reached, None>>[1] = fn
  OBVIOUS
<1>2. fn \notin Reader /\ fn # "migrate"
  BY TablesDisjoint
<1>3. Int_(n)[2] = n /\ Answer(Int_(n))
  BY DEF Int_, Answer
<1> QED
  BY <1>1, <1>2, <1>3 DEF Fits

\* A function that edits the handle's configuration keeps it a configuration.
LEMMA EditTypes ==
    ASSUME StateInv, NEW t \in Caller, handle[t] # None, NEW fn \in DOMAIN Edits(t),
           NEW f \in Edits(t)[fn]
    PROVE  f \in Conf
<1>1. handle[t].conf \in Conf /\ Subject(t).conf \in Conf
  BY HandleTypes DEF Record
<1>2. DOMAIN Edits(t) =
        {"set_config_item", "clear_config", "clear_config_item", "load_config", "set_config_path"}
  BY DEF Edits
<1>3. CASE fn = "set_config_item"
  <2>1. PICK k \in Key, v \in Value : f = [handle[t].conf EXCEPT ![k] = v]
    BY <1>3 DEF Edits
  <2> QED
    BY <1>1, <2>1 DEF Conf
<1>4. CASE fn = "clear_config"
  BY <1>4 DEF Edits, EmptyConf, Conf
<1>5. CASE fn = "clear_config_item"
  <2>1. PICK k \in Key : f = [handle[t].conf EXCEPT ![k] = Unset]
    BY <1>5 DEF Edits
  <2> QED
    BY <1>1, <2>1 DEF Conf
<1>6. CASE fn = "load_config"
  <2>1. f = [k \in Key |-> IF Subject(t).conf[k] = Unset THEN handle[t].conf[k]
                          ELSE Subject(t).conf[k]]
    BY <1>6 DEF Edits
  <2> QED
    BY <1>1, <2>1 DEF Conf
<1>7. CASE fn = "set_config_path"
  BY <1>1, <1>7 DEF Edits
<1> QED
  BY <1>2, <1>3, <1>4, <1>5, <1>6, <1>7

\* A function of one step keeps the invariant.
LEMMA SimpleState ==
    ASSUME StateInv, Inv', NEW t \in Caller, Simple(t)
    PROVE  StateInv'
<1>1. ASSUME Idle(t)
      PROVE  /\ handle[t] # None /\ handle[t].c \in Container /\ handle[t].conf \in Conf
             /\ Subject(t) \in Record
  BY <1>1, HandleTypes DEF Idle
<1>2. /\ Answer(None) /\ Answer(JNI_TRUE) /\ Answer(JNI_FALSE) /\ Answer(Null)
      /\ Answer(Str("text")) /\ \A n \in Int : Answer(Int_(n))
  BY DEF Answer, Int_
<1>3. \A a : Answer(a) => Fits(None, a)
  BY DEF Fits
<1>4. world \in World
  BY DEF StateInv
<1>5. CASE CallMember(t, RunOutcomes(Subject(t)))
  <2>1. Subject(t) \in Record
    BY <1>1, <1>5 DEF CallMember
  <2> QED
    BY <1>5, <2>1, RunOutcomeTypes, MembersPlain, MemberStep
<1>6. CASE CallMember(t, SnapshotOutcomes(Subject(t)))
  <2>1. Subject(t) \in Record
    BY <1>1, <1>6 DEF CallMember
  <2> QED
    BY <1>6, <2>1, SnapshotOutcomeTypes, MembersPlain, MemberStep
<1>7. CASE Query(t)
  <2>1. PICK v \in {Null, Str("text")} : Forwards(t, v)
    BY <1>7 DEF Query
  <2>2. Fits(None, v)
    BY <1>2, <1>3
  <2> QED
    BY <1>4, <1>7, <2>1, <2>2, AnswerStep DEF Query, Forwards
<1>8. CASE GetDescriptor(t)
  <2>1. UNCHANGED <<world, handle, refs, call>>
    BY <1>8 DEF GetDescriptor
  <2>2. PICK fn \in DOMAIN SinceDescriptor :
          IF ~VERSION_AT_LEAST(SinceDescriptor[fn]) THEN Refuses(t, fn, ret_errno(ENOSYS))
          ELSE \E v \in IF fn = "set_timeout" THEN {Int_(0), ret_errno(EINVAL)}
                        ELSE {Int_(3), Int_(-1)} : Returns(t, fn, None, v)
    BY <1>8 DEF GetDescriptor
  <2>3. ret_errno(ENOSYS) = Int_(-38) /\ ret_errno(EINVAL) = Int_(-22)
    BY DEF ret_errno, ENOSYS, EINVAL
  <2>4. \/ passed' = [passed EXCEPT ![t] = <<fn, FALSE, None>>]
           /\ answer' = [answer EXCEPT ![t] = Int_(-38)]
        \/ /\ passed' = [passed EXCEPT ![t] = <<fn, TRUE, None>>]
           /\ \E n \in {3, 0, -1, -22} : answer' = [answer EXCEPT ![t] = Int_(n)]
    BY <2>2, <2>3 DEF Refuses, Returns
  <2>5. /\ Fits(<<fn, FALSE, None>>, Int_(-38))
        /\ \A n \in {3, 0, -1, -22} : Fits(<<fn, TRUE, None>>, Int_(n))
    BY DescriptorNote
  <2> QED
    BY <1>4, <2>1, <2>4, <2>5, AnswerStep
<1>9. CASE AskLibrary(t)
  <2>1. UNCHANGED <<world, handle, refs, call>>
    BY <1>9 DEF AskLibrary
  <2>2. PICK fn \in DOMAIN SinceLibrary, v \in {Int_(0), Int_(-1), JNI_TRUE, JNI_FALSE} :
          Refuses(t, fn, v) \/ Returns(t, fn, None, v)
    BY <1>9 DEF AskLibrary
  <2>3. fn \notin DOMAIN SinceDescriptor /\ fn \notin Reader /\ fn # "migrate" /\ Answer(v)
    BY <1>2, TablesDisjoint
  <2>4. Fits(<<fn, FALSE, None>>, v) /\ Fits(<<fn, TRUE, None>>, v)
    BY <2>3, PlainNote
  <2> QED
    BY <1>4, <2>1, <2>2, <2>4, AnswerStep DEF Refuses, Returns
<1>10. CASE jni_lxc_migrate(t)
  <2>1. UNCHANGED <<world, handle, refs, call>>
    BY <1>10 DEF jni_lxc_migrate
  <2>2. /\ \A arg : \A n \in {0, -1} : Fits(<<"migrate", TRUE, arg>>, Int_(n))
        /\ \A arg : Fits(<<"migrate", FALSE, arg>>, Int_(-22))
    <3>1. Int_(-22)[2] = -22 /\ \A n \in {0, -1, -22} : Answer(Int_(n))
      BY <1>2 DEF Int_
    <3>2. "migrate" \notin DOMAIN SinceDescriptor /\ "migrate" \notin Reader
      BY TablesDisjoint
    <3>3. ASSUME NEW arg, NEW n \in {0, -1}
          PROVE  Fits(<<"migrate", TRUE, arg>>, Int_(n))
      BY <3>1, <3>2, PlainNote
    <3>4. ASSUME NEW arg
          PROVE  Fits(<<"migrate", FALSE, arg>>, Int_(-22))
      <4>1. Int_(-22)[2] < 0
        BY <3>1
      <4> QED
        BY <3>1, <3>2, <4>1, PlainNote
    <3> QED
      BY <3>3, <3>4
  <2>3. CASE VERSION_AT_LEAST(<<2, 0, 0>>)
    <3> DEFINE known == {f \in DOMAIN SinceMigrate : VERSION_AT_LEAST(SinceMigrate[f])}
    <3>1. PICK n \in {0, -1} : Returns(t, "migrate", known, Int_(n))
      BY <1>10, <2>3 DEF jni_lxc_migrate
    <3> HIDE DEF known
    <3> QED
      BY <1>4, <2>1, <2>2, <3>1, AnswerStep DEF Returns
  <2>4. CASE ~VERSION_AT_LEAST(<<2, 0, 0>>)
    <3>1. Refuses(t, "migrate", Int_(-22))
      BY <1>10, <2>4 DEF jni_lxc_migrate, EINVAL
    <3> QED
      BY <1>4, <2>1, <2>2, <3>1, AnswerStep DEF Refuses
  <2> QED
    BY <2>3, <2>4
<1>11. CASE jni_lxc_create(t)
  <2>1. UNCHANGED <<handle, refs, call>>
    BY <1>11 DEF jni_lxc_create
  <2>2. Created(handle[t].conf) \in Record
    BY <1>1, <1>11, RecordTypes DEF jni_lxc_create
  <2>3. PICK name \in Template,
             o \in Attempt(Subject(t), ~Subject(t).defined, Created(handle[t].conf)) :
          /\ world' = [world EXCEPT ![handle[t].c] = o.rec]
          /\ Returns(t, "create", IF name \in PrefixOfNone THEN None ELSE name, o.ret)
    BY <1>11 DEF jni_lxc_create
  <2>4. o.rec \in Record /\ Answer(o.ret)
    BY <1>1, <1>11, <2>2, Attempted DEF jni_lxc_create
  <2>5. world' \in World
    BY <1>4, <2>3, <2>4 DEF World
  <2>6. \A arg : Fits(<<"create", TRUE, arg>>, o.ret)
    <3>1. "create" \notin DOMAIN SinceDescriptor /\ "create" \notin Reader
      BY TablesDisjoint DEF Reader
    <3> QED
      BY <2>4, <3>1, PlainNote
  <2> QED
    BY <2>1, <2>3, <2>5, <2>6, AnswerStep DEF Returns
<1>12. CASE Rebuild(t)
  <2> DEFINE c == handle[t].c
  <2>1. UNCHANGED <<handle, refs, call>> /\ c \in Container
    BY <1>1, <1>12 DEF Rebuild
  <2>2. PICK d \in Container \ {c}, fn \in {"rename", "snapshot_restore"} :
          \/ /\ world' = [world EXCEPT ![d] = Created(world[c].conf),
                                       ![c] = IF fn = "rename" THEN Undefined ELSE @]
             /\ Forwards(t, JNI_TRUE)
          \/ Forwards(t, JNI_FALSE) /\ UNCHANGED world
    BY <1>12 DEF Rebuild
  <2>3. Created(world[c].conf) \in Record /\ Undefined \in Record /\ world[c] \in Record
    BY <1>4, <2>1, RecordTypes DEF World, Record
  <2>4. world' \in World
    BY <1>4, <2>1, <2>2, <2>3 DEF World
  <2> QED
    BY <1>2, <1>3, <2>1, <2>2, <2>4, AnswerStep DEF Forwards
<1>13. CASE EditConfig(t)
  <2>1. UNCHANGED <<world, refs, call>> /\ handle[t] \in Handle
    BY <1>1, <1>13 DEF EditConfig, StateInv, Handle
  <2>2. PICK v \in {None, JNI_TRUE, JNI_FALSE} : Forwards(t, v)
    BY <1>13 DEF EditConfig
  <2>3. handle' \in [Caller -> Handle \cup {None}] /\ Held' = Held
    <3>1. CASE UNCHANGED handle
      BY <3>1 DEF StateInv, Held
    <3>2. CASE \E fn \in DOMAIN Edits(t) : \E f \in Edits(t)[fn] : handle' = [handle EXCEPT ![t].conf = f]
      <4>1. PICK f \in Conf : handle' = [handle EXCEPT ![t] = [handle[t] EXCEPT !.conf = f]]
        BY <1>1, <1>13, <3>2, EditTypes DEF EditConfig
      <4>2. [handle[t] EXCEPT !.conf = f] \in Handle
        BY <2>1 DEF Handle
      <4>3. None \notin Handle
        BY BindingAssumption DEF Handle
      <4> QED
        BY <1>1, <1>13, <4>1, <4>2, <4>3 DEF StateInv, Held, EditConfig
    <3> QED
      BY <1>13, <3>1, <3>2 DEF EditConfig
  <2>4. \A u \in Caller : handle[u] # None => handle'[u] # None
    BY <2>3 DEF Held
  <2>5. \A u \in Caller : Fits(passed'[u], answer'[u])
    BY <1>2, <1>3, <2>2 DEF StateInv, Inv, Forwards
  <2>6. CloneSet' = CloneSet
    BY <2>1 DEF CloneSet, Cloning
  <2> QED
    BY <2>1, <2>3, <2>4, <2>5, <2>6 DEF StateInv, Known
<1>14. CASE jni_lxc_save_config(t)
  <2>1. UNCHANGED <<handle, refs, call>>
    BY <1>14 DEF jni_lxc_save_config
  <2>2. PICK v \in {JNI_TRUE, JNI_FALSE} :
          /\ Forwards(t, v)
          /\ \/ world' = [world EXCEPT ![handle[t].c] = [Subject(t) EXCEPT !.conf = handle[t].conf]]
             \/ UNCHANGED world
    BY <1>14 DEF jni_lxc_save_config, Subject
  <2>3. [Subject(t) EXCEPT !.conf = handle[t].conf] \in Record
    BY <1>1, <1>14 DEF Record, jni_lxc_save_config
  <2>4. world' \in World
    BY <1>4, <2>2, <2>3 DEF World
  <2> QED
    BY <1>2, <1>3, <2>1, <2>2, <2>4, AnswerStep DEF Forwards
<1> QED
  BY <1>5, <1>6, <1>7, <1>8, <1>9, <1>10, <1>11, <1>12, <1>13, <1>14 DEF Simple

-----------------------------------------------------------------------------
(* Readers *)

\* A text is a sequence.
LEMMA TextTypes == \A v \in Item \cup Value : v \in Seq({v[i] : i \in DOMAIN v}) /\ Len(v) \in Nat
<1>1. \A v \in Item \cup Value : v \in Seq({v[i] : i \in DOMAIN v})
  BY BindingAssumption
<1>2. \A S : \A v \in Seq(S) : Len(v) \in Nat
  OBVIOUS
<1> QED
  BY <1>1, <1>2

\* The library holds texts.
LEMMA TextsHeld ==
    ASSUME StateInv, NEW t \in Caller, handle[t] # None, NEW fn, NEW k \in Key
    PROVE  Texts(t, fn, k) \subseteq Item \cup Value
<1>1. handle[t].conf \in Conf
  BY HandleTypes
<1> QED
  BY <1>1 DEF Texts, Conf

\* What arrives in a block longer than it is the whole text.
LEMMA WholeIfShort ==
    ASSUME NEW v \in Item \cup Value, NEW n \in Nat, Len(Cut(v, n)) < n
    PROVE  Cut(v, n) = v
<1> DEFINE S == {v[i] : i \in DOMAIN v}
<1>1. v \in Seq(S) /\ Len(v) \in Nat
  BY TextTypes
<1> HIDE DEF S
<1>2. CASE Len(v) < n
  <2>1. SubSeq(v, 1, Len(v)) = v
    BY <1>1, SubSeqFull
  <2> QED
    BY <1>2, <2>1 DEF Cut
<1>3. CASE ~(Len(v) < n)
  <2>1. \A i \in 1..n : v[i] \in S
    BY <1>1, <1>3
  <2>2. Len(SubSeq(v, 1, n)) = IF 1 <= n THEN n - 1 + 1 ELSE 0
    BY <2>1, SubSeqProperties
  <2>3. Cut(v, n) = SubSeq(v, 1, n)
    BY <1>3 DEF Cut
  <2> QED
    BY <2>2, <2>3
<1> QED
  BY <1>2, <1>3

\* A reader's answer fits its note if it is null or a whole text in a longer block.
LEMMA ReaderNote ==
    ASSUME NEW fn \in Reader, NEW n \in Nat, NEW a,
           a = Null \/ \E v \in Item \cup Value : a = Chars(v) /\ Len(v) < n
    PROVE  Fits(<<fn, TRUE, n>>, a)
<1> DEFINE p == <<fn, TRUE, n>>
<1>1. p[1] = fn /\ p[3] = n /\ fn \notin DOMAIN SinceDescriptor /\ fn # "migrate"
  BY TablesDisjoint
<1>2. Answer(a)
  BY DEF Answer
<1>3. \A v : Chars(v)[2] = v
  BY DEF Chars
<1> HIDE DEF p
<1>4. Fits(p, a)
  BY <1>1, <1>2, <1>3 DEF Fits
<1> QED
  BY <1>4 DEF p

\* A call that is no clone's.
LEMMA NoClone ==
    ASSUME NEW c, c \in Await \/ Reading(c)
    PROVE  c.fn # "clone"
  BY DEF Await, Reading, ReaderCall, Reader

\* As long as no caller begins or ends a clone, they are the same clones.
LEMMA SameClones ==
    ASSUME DOMAIN call = Caller, NEW t \in Caller, ~Cloning(t),
           NEW c, call' = [call EXCEPT ![t] = c], c \in Await \cup {None} \/ Reading(c)
    PROVE  CloneSet' = CloneSet
<1>1. \A u \in Caller : u # t => call'[u] = call[u]
  OBVIOUS
<1>2. call'[t] = None \/ call'[t].fn # "clone"
  BY NoClone
<1> QED
  BY <1>1, <1>2 DEF CloneSet, Cloning

\* A step that gets a call on, or ends one, other than a clone keeps the invariant.
LEMMA CallStep ==
    ASSUME StateInv, Inv', NEW t \in Caller, handle[t] # None, UNCHANGED <<world, handle, refs>>,
           ~Cloning(t),
           NEW c, call' = [call EXCEPT ![t] = c], c \in Await \cup {None} \/ Reading(c),
           NEW p, NEW a, Fits(p, a),
           passed' = [passed EXCEPT ![t] = p], answer' = [answer EXCEPT ![t] = a]
    PROVE  StateInv'
<1>1. \A u \in Caller : Fits(passed'[u], answer'[u])
  BY DEF StateInv, Inv
<1>2. Held' = Held /\ CloneSet' = CloneSet
  BY SameClones DEF Held, StateInv, Inv
<1>3. \A u \in Caller : (call'[u] # None => handle'[u] # None) /\ Known(call'[u])
  BY DEF StateInv, Inv, Known
<1> QED
  BY <1>1, <1>2, <1>3 DEF StateInv

\* A step of a call that gives no answer.
LEMMA QuietStep ==
    ASSUME StateInv, Inv', NEW t \in Caller, handle[t] # None,
           UNCHANGED <<world, handle, refs, passed, answer>>, ~Cloning(t),
           NEW c, call' = [call EXCEPT ![t] = c], c \in Await \/ Reading(c)
    PROVE  StateInv'
<1>1. \A u \in Caller : Fits(passed'[u], answer'[u])
  BY DEF StateInv
<1>2. Held' = Held /\ CloneSet' = CloneSet
  BY SameClones DEF Held, StateInv, Inv
<1>3. \A u \in Caller : (call'[u] # None => handle'[u] # None) /\ Known(call'[u])
  BY DEF StateInv, Inv, Known
<1> QED
  BY <1>1, <1>2, <1>3 DEF StateInv

\* The three steps of a reader.
LEMMA ReaderState ==
    ASSUME StateInv, Inv', NEW t \in Caller, Probe(t) \/ Malloc(t) \/ Fetch(t)
    PROVE  StateInv'
<1>1. Fits(None, None)
  BY DEF Fits, Answer
<1>2. /\ DOMAIN passed = Caller /\ DOMAIN answer = Caller /\ DOMAIN call = Caller
      /\ Fits(passed[t], answer[t])
      /\ call[t] # None => handle[t] # None
      /\ Known(call[t])
  BY DEF StateInv, Inv
<1>3. CASE Probe(t)
  <2>1. UNCHANGED <<world, handle, refs>> /\ handle[t] # None /\ ~Cloning(t)
    BY <1>3 DEF Probe, Idle, Cloning
  <2>2. PICK fn \in Reader, k \in Key :
          \/ Returns(t, fn, 0, Null) /\ UNCHANGED call
          \/ \E v \in Texts(t, fn, k) :
                Enters(t, [fn |-> fn, key |-> k, at |-> "malloc", len |-> Len(v), block |-> 0])
    BY <1>3 DEF Probe
  <2>3. CASE Returns(t, fn, 0, Null) /\ UNCHANGED call
    <3>1. Fits(<<fn, TRUE, 0>>, Null)
      BY ReaderNote
    <3> QED
      BY <2>1, <2>3, <3>1, AnswerStep DEF Returns, StateInv
  <2>4. ASSUME NEW v \in Texts(t, fn, k),
               Enters(t, [fn |-> fn, key |-> k, at |-> "malloc", len |-> Len(v), block |-> 0])
        PROVE  StateInv'
    <3> DEFINE c == [fn |-> fn, key |-> k, at |-> "malloc", len |-> Len(v), block |-> 0]
    <3>1. Len(v) \in Nat
      BY <2>1, TextsHeld, TextTypes
    <3>2. Reading(c)
      BY <3>1 DEF Reading, ReaderCall
    <3> HIDE DEF c
    <3>3. /\ call' = [call EXCEPT ![t] = c]
          /\ passed' = [passed EXCEPT ![t] = None] /\ answer' = [answer EXCEPT ![t] = None]
      BY <2>4 DEF Enters, c
    <3> QED
      BY <1>1, <2>1, <3>2, <3>3, CallStep
  <2> QED
    BY <2>2, <2>3, <2>4
<1>4. CASE Malloc(t)
  <2> DEFINE c == [call[t] EXCEPT !.block = call[t].len + 1, !.at = "fetch"]
  <2>1. Reading(call[t]) /\ handle[t] # None /\ ~Cloning(t)
    BY <1>2, <1>4, NoClone DEF Malloc, Await, Known, CloneCall, Cloning
  <2>2. call[t] \in ReaderCall /\ call[t].len \in Nat
    BY <2>1 DEF Reading, ReaderCall
  <2>3. c \in ReaderCall /\ c.len = call[t].len /\ c.block = call[t].len + 1
    <3>1. call[t].len + 1 \in Nat
      BY <2>2
    <3>2. c \in ReaderCall
      BY <2>2, <3>1 DEF ReaderCall
    <3>3. c.len = call[t].len
      BY <2>2 DEF ReaderCall
    <3>4. c.block = call[t].len + 1
      BY <2>2 DEF ReaderCall
    <3> QED
      BY <3>2, <3>3, <3>4
  <2>4. call' = [call EXCEPT ![t] = c] /\ UNCHANGED <<world, handle, refs, passed, answer>>
    BY <1>4 DEF Malloc
  <2> HIDE DEF c
  <2>5. Reading(c)
    BY <2>3 DEF Reading
  <2> QED
    BY <2>1, <2>4, <2>5, QuietStep
<1>5. CASE Fetch(t)
  <2>1. Reading(call[t]) /\ handle[t] # None /\ call[t].at = "fetch" /\ ~Cloning(t)
    BY <1>2, <1>5, NoClone DEF Fetch, Await, Known, CloneCall, Cloning
  <2> DEFINE n == call[t].block
             fn == call[t].fn
  <2>2. fn \in Reader /\ call[t].key \in Key /\ call[t].len \in Nat /\ n \in Nat /\ n = call[t].len + 1
    BY <2>1 DEF Reading, ReaderCall
  <2>3. PICK a : /\ Returns(t, fn, n, a)
                 /\ \/ a = Null
                    \/ \E v \in Texts(t, fn, call[t].key) :
                          Len(Cut(v, n)) = call[t].len /\ a = Chars(Cut(v, n))
    <3>1. CASE Returns(t, fn, n, Null)
      BY <3>1
    <3>2. CASE \E v \in {Cut(v, n) : v \in Texts(t, fn, call[t].key)} :
                  Returns(t, fn, n, IF Len(v) = call[t].len THEN Chars(v) ELSE Null)
      BY <3>1, <3>2
    <3> QED
      BY <1>5, <3>1, <3>2 DEF Fetch
  <2>4. a = Null \/ \E v \in Item \cup Value : a = Chars(v) /\ Len(v) < n
    <3>1. ASSUME NEW v \in Texts(t, fn, call[t].key), Len(Cut(v, n)) = call[t].len
          PROVE  v \in Item \cup Value /\ Cut(v, n) = v /\ Len(v) < n
      <4>1. v \in Item \cup Value
        BY <2>1, <2>2, TextsHeld
      <4> QED
        BY <2>2, <3>1, <4>1, WholeIfShort
    <3> QED
      BY <2>3, <3>1
  <2>5. Fits(<<fn, TRUE, n>>, a)
    BY <2>2, <2>4, ReaderNote
  <2>6. call' = [call EXCEPT ![t] = None] /\ UNCHANGED <<world, handle, refs>>
    BY <1>5 DEF Fetch
  <2> QED
    BY <2>1, <2>3, <2>5, <2>6, CallStep DEF Returns
<1> QED
  BY <1>3, <1>4, <1>5

-----------------------------------------------------------------------------
(* Shells and handles *)

\* The answer made of an exit is a number.
LEMMA AnswerIsNumber ==
    ASSUME NEW f \in Fate
    PROVE  ShellAnswer(WaitStatus(f)) \in Int
<1>1. f.code \in Int
  <2>1. f.code \in Code \cup Signal
    BY DEF Fate
  <2>2. \A n \in Code \cup Signal : n \in Int
    <3>1. Code \subseteq 0..255 /\ Signal \subseteq 1..126
      BY AttachAssumption DEF AttachAssumption
    <3> QED
      BY <3>1
  <2> QED
    BY <2>1, <2>2
<1>2. WaitStatus(f) \in Int
  BY <1>1 DEF WaitStatus
<1> QED
  BY <1>2 DEF ShellAnswer, WEXITSTATUS

\* The steps of an attach.
LEMMA AttachState ==
    ASSUME StateInv, Inv', NEW t \in Caller,
           \/ jni_lxc_attach(t) \/ ShellExits(t) \/ ShellTaken(t)
           \/ WaitInterrupted(t) \/ WaitAgain(t) \/ WaitFails(t) \/ WaitGivesUp(t)
           \/ wait_for_pid_status(t)
    PROVE  StateInv'
<1>1. Fits(None, None) /\ \A n \in Int : Fits(None, Int_(n))
  BY DEF Fits, Answer, Int_
<1>2. /\ DOMAIN passed = Caller /\ DOMAIN answer = Caller /\ DOMAIN call = Caller
      /\ call[t] # None => handle[t] # None
      /\ Known(call[t]) /\ child[t] \in Shell \cup {None}
  BY DEF StateInv, Inv, Awaited
<1>4. CASE jni_lxc_attach(t)
  <2>1. UNCHANGED <<world, handle, refs>> /\ handle[t] # None /\ ~Cloning(t)
    BY <1>4 DEF jni_lxc_attach, Idle, Cloning
  <2>2. \/ Forwards(t, Int_(-1)) /\ UNCHANGED call
        \/ Enters(t, [fn |-> "attach", at |-> "waitpid"])
    BY <1>4 DEF jni_lxc_attach
  <2>3. [fn |-> "attach", at |-> "waitpid"] \in Await
    BY DEF Await
  <2>4. CASE Forwards(t, Int_(-1)) /\ UNCHANGED call
    <3>1. world' \in World
      BY <2>1 DEF StateInv
    <3>2. Fits(None, Int_(-1))
      BY <1>1
    <3> QED
      BY <2>1, <2>4, <3>1, <3>2, AnswerStep DEF Forwards
  <2>5. CASE Enters(t, [fn |-> "attach", at |-> "waitpid"])
    BY <1>1, <2>1, <2>3, <2>5, CallStep DEF Enters
  <2> QED
    BY <2>2, <2>4, <2>5
<1>5. CASE ShellExits(t) \/ ShellTaken(t)
  <2>1. UNCHANGED <<world, handle, refs, call, passed, answer>>
    BY <1>5 DEF ShellExits, ShellTaken
  <2>2. Held' = Held /\ CloneSet' = CloneSet
    BY <2>1 DEF Held, CloneSet, Cloning
  <2> QED
    BY <2>1, <2>2 DEF StateInv
<1>6. ASSUME NEW at \in {"waitpid", "EINTR", "error"}, Waiting(t, at)
      PROVE  call[t] \in Await /\ handle[t] # None /\ ~Cloning(t)
  BY <1>2, <1>6, NoClone DEF Waiting, Known, Reading, ReaderCall, CloneCall, Cloning
<1>7. CASE WaitInterrupted(t) \/ WaitAgain(t) \/ WaitFails(t)
  <2>1. /\ UNCHANGED <<world, handle, refs, passed, answer>>
        /\ call[t] \in Await /\ handle[t] # None /\ ~Cloning(t)
    BY <1>6, <1>7 DEF WaitInterrupted, WaitAgain, WaitFails
  <2>2. PICK at \in {"waitpid", "EINTR", "error"} :
          call' = [call EXCEPT ![t] = [call[t] EXCEPT !.at = at]]
    BY <1>7 DEF WaitInterrupted, WaitAgain, WaitFails
  <2>3. [call[t] EXCEPT !.at = at] \in Await
    BY <2>1 DEF Await
  <2> QED
    BY <2>1, <2>2, <2>3, QuietStep
<1>8. CASE wait_for_pid_status(t) \/ WaitGivesUp(t)
  <2>1. /\ UNCHANGED <<world, handle, refs>> /\ call' = [call EXCEPT ![t] = None]
        /\ handle[t] # None /\ ~Cloning(t)
    BY <1>6, <1>8 DEF wait_for_pid_status, WaitGivesUp
  <2>2. PICK n \in Int : Forwards(t, Int_(n))
    <3>1. CASE WaitGivesUp(t)
      BY <3>1 DEF WaitGivesUp
    <3>2. CASE wait_for_pid_status(t)
      <4>1. child[t] \in Shell /\ child[t].fate \in Fate
        BY <1>2, <3>2 DEF wait_for_pid_status, Shell
      <4>2. ShellAnswer(WaitStatus(child[t].fate)) \in Int
        BY <4>1, AnswerIsNumber
      <4> QED
        BY <3>2, <4>2 DEF wait_for_pid_status
    <3> QED
      BY <1>8, <3>1, <3>2
  <2> QED
    BY <1>1, <2>1, <2>2, CallStep DEF Forwards
<1> QED
  BY <1>4, <1>5, <1>7, <1>8

\* A clone has one reference more from the library's return until it is put.
LEMMA CloneState ==
    ASSUME StateInv, Inv', NEW t \in Caller, jni_lxc_clone(t) \/ PutClone(t)
    PROVE  StateInv'
<1>1. IsFiniteSet(CloneSet) /\ IsFiniteSet(Held)
  BY BindingAssumption, FS_Subset DEF CloneSet, Held
<1>2. /\ Cardinality(CloneSet) \in Nat /\ Cardinality(Held) \in Nat
      /\ refs = Cardinality(Held) + Cardinality(CloneSet)
  BY <1>1, FS_CardinalityType DEF StateInv
<1>3. UNCHANGED handle /\ Held' = Held
  BY DEF jni_lxc_clone, PutClone, Held
<1>4. /\ DOMAIN call = Caller /\ world \in World /\ None # CloneCall /\ CloneCall.fn = "clone"
      /\ Fits(None, None) /\ Fits(None, JNI_TRUE) /\ Fits(None, JNI_FALSE)
  BY BindingAssumption DEF StateInv, Inv, CloneCall, Fits, Answer
<1>5. ASSUME NEW v \in {None, JNI_TRUE, JNI_FALSE},
             passed' = [passed EXCEPT ![t] = None], answer' = [answer EXCEPT ![t] = v]
      PROVE  \A u \in Caller : Fits(passed'[u], answer'[u])
  BY <1>4, <1>5 DEF StateInv, Inv
<1>6. CASE jni_lxc_clone(t) /\ Forwards(t, JNI_FALSE) /\ UNCHANGED <<world, refs, call>>
  BY <1>3, <1>4, <1>6, AnswerStep DEF Forwards
<1>7. CASE /\ jni_lxc_clone(t) /\ Enters(t, CloneCall) /\ refs' = refs + 1
           /\ \E d \in Container : world' = [world EXCEPT ![d] = Created(handle[t].conf)]
  <2>1. handle[t] # None /\ call[t] = None /\ call' = [call EXCEPT ![t] = CloneCall]
    BY <1>7 DEF jni_lxc_clone, Idle, Enters
  <2>2. world' \in World
    <3>1. Created(handle[t].conf) \in Record
      BY <2>1, HandleTypes, RecordTypes
    <3> QED
      BY <1>4, <1>7, <3>1 DEF World
  <2>3. CloneSet' = CloneSet \cup {t} /\ t \notin CloneSet
    BY <1>4, <2>1 DEF CloneSet, Cloning
  <2>4. Cardinality(CloneSet') = Cardinality(CloneSet) + 1
    BY <1>1, <2>3, FS_AddElement
  <2>5. \A u \in Caller : (call'[u] # None => handle'[u] # None) /\ Known(call'[u])
    BY <1>3, <1>4, <2>1 DEF StateInv, Known
  <2>6. \A u \in Caller : Fits(passed'[u], answer'[u])
    BY <1>5, <1>7 DEF Enters
  <2> QED
    BY <1>2, <1>3, <1>7, <2>2, <2>4, <2>5, <2>6 DEF StateInv
<1>8. CASE PutClone(t)
  <2>1. /\ call' = [call EXCEPT ![t] = None] /\ refs' = refs - 1 /\ UNCHANGED world
        /\ call[t] # None /\ call[t].at = "put"
    BY <1>8 DEF PutClone
  <2>2. call[t] = CloneCall
    BY <2>1 DEF StateInv, Known, Await, Reading, ReaderCall
  <2>3. CloneSet' = CloneSet \ {t} /\ t \in CloneSet
    BY <1>4, <2>1, <2>2 DEF CloneSet, Cloning
  <2>4. Cardinality(CloneSet') = Cardinality(CloneSet) - 1 /\ Cardinality(CloneSet') \in Nat
    <3>1. IsFiniteSet(CloneSet \ {t})
      BY <1>1, FS_Subset
    <3> QED
      BY <1>1, <2>3, <3>1, FS_RemoveElement, FS_CardinalityType
  <2>5. \A u \in Caller : (call'[u] # None => handle'[u] # None) /\ Known(call'[u])
    BY <1>3, <1>4, <2>1 DEF StateInv, Known
  <2>6. \A u \in Caller : Fits(passed'[u], answer'[u])
    BY <1>5, <1>8 DEF PutClone, Forwards
  <2> QED
    BY <1>2, <1>3, <1>4, <2>1, <2>4, <2>5, <2>6 DEF StateInv
<1> QED
  BY <1>6, <1>7, <1>8 DEF jni_lxc_clone

\* A handle is one reference.
LEMMA HandleState ==
    ASSUME StateInv, Inv', NEW t \in Caller, Open(t) \/ Put(t)
    PROVE  StateInv'
<1>1. IsFiniteSet(Held)
  BY BindingAssumption, FS_Subset DEF Held
<1>2. /\ refs \in Nat /\ refs = Cardinality(Held) + Cardinality(CloneSet)
      /\ Cardinality(Held) \in Nat /\ Cardinality(CloneSet) \in Nat
  <2>1. IsFiniteSet(CloneSet)
    BY BindingAssumption, FS_Subset DEF CloneSet
  <2> QED
    BY <1>1, <2>1, FS_CardinalityType DEF StateInv
<1>3. None \notin Handle
  BY BindingAssumption DEF Handle
<1>4. CloneSet' = CloneSet
  BY DEF Open, Put, CloneSet, Cloning
<1>5. CASE Open(t)
  <2>1. PICK c \in Container : handle' = [handle EXCEPT ![t] = [c |-> c, conf |-> world[c].conf]]
    BY <1>5 DEF Open
  <2>2. [c |-> c, conf |-> world[c].conf] \in Handle
    BY DEF StateInv, World, Record, Handle
  <2>3. UNCHANGED <<world, call, passed, answer>> /\ refs' = refs + 1 /\ handle[t] = None
    BY <1>5 DEF Open
  <2>4. handle' \in [Caller -> Handle \cup {None}]
    BY <2>1, <2>2 DEF StateInv
  <2>5. Held' = Held \cup {t} /\ t \notin Held
    BY <1>3, <2>1, <2>2, <2>3 DEF StateInv, Held
  <2>6. refs' \in Nat /\ refs' = Cardinality(Held)' + Cardinality(CloneSet)'
    <3>1. Cardinality(Held \cup {t}) = Cardinality(Held) + 1
      BY <1>1, <2>5, FS_AddElement
    <3> QED
      BY <1>2, <1>4, <2>3, <2>5, <3>1
  <2>7. \A u \in Caller : /\ call'[u] # None => handle'[u] # None
                          /\ Known(call'[u]) /\ Fits(passed'[u], answer'[u])
    BY <1>3, <2>1, <2>2, <2>3 DEF StateInv
  <2> QED
    BY <2>3, <2>4, <2>6, <2>7 DEF StateInv
<1>6. CASE Put(t)
  <2>1. /\ handle' = [handle EXCEPT ![t] = None] /\ UNCHANGED <<world, call>> /\ refs' = refs - 1
        /\ handle[t] # None /\ call[t] = None
        /\ passed' = [passed EXCEPT ![t] = None] /\ answer' = [answer EXCEPT ![t] = None]
    BY <1>6 DEF Put, Idle
  <2>2. handle' \in [Caller -> Handle \cup {None}]
    BY <2>1 DEF StateInv
  <2>3. Held' = Held \ {t} /\ t \in Held
    BY <2>1 DEF StateInv, Held
  <2>4. refs' \in Nat /\ refs' = Cardinality(Held)' + Cardinality(CloneSet)'
    <3>1. Cardinality(Held \ {t}) = Cardinality(Held) - 1
      BY <1>1, <2>3, FS_RemoveElement
    <3>2. Cardinality(Held') \in Nat
      BY <1>1, <2>3, FS_Subset, FS_CardinalityType
    <3> QED
      BY <1>2, <1>4, <2>1, <2>3, <3>1, <3>2
  <2>5. Fits(None, None)
    BY DEF Fits, Answer
  <2>6. \A u \in Caller : /\ call'[u] # None => handle'[u] # None
                          /\ Known(call'[u]) /\ Fits(passed'[u], answer'[u])
    BY <2>1, <2>5 DEF StateInv, Inv
  <2> QED
    BY <2>1, <2>2, <2>4, <2>6 DEF StateInv
<1> QED
  BY <1>5, <1>6

\* What happens to a container outside the process.
LEMMA DeviceState ==
    ASSUME StateInv, Inv', Device
    PROVE  StateInv'
<1>1. UNCHANGED <<handle, refs, call, passed, answer>>
  BY DEF Device
<1>2. world' \in World
  <2>1. PICK c \in Container :
          \/ \E f \in Conf : world' = [world EXCEPT ![c] = Created(f)]
          \/ world' = [world EXCEPT ![c] = [world[c] EXCEPT !.run = "STOPPED"]]
    BY DEF Device
  <2>2. world[c] \in Record /\ "STOPPED" \in RunState
    BY DEF StateInv, World, RunState
  <2>3. [world[c] EXCEPT !.run = "STOPPED"] \in Record
    BY <2>2, RecordTypes
  <2> QED
    BY <2>1, <2>3, RecordTypes DEF StateInv, World
<1>3. Held' = Held /\ CloneSet' = CloneSet
  BY <1>1 DEF Held, CloneSet, Cloning
<1>4. \A u \in Caller : Fits(passed'[u], answer'[u])
  BY <1>1 DEF StateInv
<1> QED
  BY <1>1, <1>2, <1>3, <1>4 DEF StateInv

-----------------------------------------------------------------------------
(* The theorems *)

\* The initial state.
LEMMA StateInit == Init => StateInv
<1> SUFFICES ASSUME Init PROVE StateInv
  OBVIOUS
<1>1. Inv
  BY InvInit
<1>2. world \in World
  BY RecordTypes DEF Init, World
<1>3. Held = {} /\ CloneSet = {} /\ refs = Cardinality(Held) + Cardinality(CloneSet)
  BY FS_EmptySet DEF Init, Held, CloneSet, Cloning
<1>4. Fits(None, None)
  BY DEF Fits, Answer
<1> QED
  BY <1>1, <1>2, <1>3, <1>4 DEF Init, StateInv, Known

\* Every step.
LEMMA StateStep ==
    ASSUME StateInv, [Next]_vars
    PROVE  StateInv'
<1>1. Inv'
  BY InvStep DEF StateInv
<1>2. CASE UNCHANGED vars
  <2>1. Held' = Held /\ CloneSet' = CloneSet
    BY <1>2 DEF vars, Held, CloneSet, Cloning
  <2> QED
    BY <1>1, <1>2, <2>1 DEF vars, StateInv
<1>3. CASE Device
  BY <1>1, <1>3, DeviceState
<1>4. ASSUME NEW t \in Caller, Simple(t)
      PROVE  StateInv'
  BY <1>1, <1>4, SimpleState
<1>5. ASSUME NEW t \in Caller, Open(t) \/ Put(t)
      PROVE  StateInv'
  BY <1>1, <1>5, HandleState
<1>6. ASSUME NEW t \in Caller, jni_lxc_clone(t) \/ PutClone(t)
      PROVE  StateInv'
  BY <1>1, <1>6, CloneState
<1>7. ASSUME NEW t \in Caller, Probe(t) \/ Malloc(t) \/ Fetch(t)
      PROVE  StateInv'
  BY <1>1, <1>7, ReaderState
<1>8. ASSUME NEW t \in Caller,
             \/ jni_lxc_attach(t) \/ ShellExits(t) \/ ShellTaken(t)
             \/ WaitInterrupted(t) \/ WaitAgain(t) \/ WaitFails(t) \/ WaitGivesUp(t)
             \/ wait_for_pid_status(t)
      PROVE  StateInv'
  BY <1>1, <1>8, AttachState
<1> QED
  BY <1>2, <1>3, <1>4, <1>5, <1>6, <1>7, <1>8 DEF Next

\* The invariant holds in every reachable state.
LEMMA StateInvariance == Spec => []StateInv
  BY StateInit, StateStep, PTL DEF Spec

\* The binding's state has its types, and a function with no descriptor to give
\* answers a negative number, for any callers, containers and builds.
THEOREM BindingTypes == Spec => []BindingTypeOK
<1>1. StateInv => BindingTypeOK
  <2> SUFFICES ASSUME StateInv PROVE BindingTypeOK
    OBVIOUS
  <2>1. build \in Build /\ world \in World /\ refs \in Nat
        /\ handle \in [Caller -> [c : Container, conf : Conf] \cup {None}]
    BY DEF StateInv, Inv, Handle
  <2>2. ASSUME NEW t \in Caller
        PROVE  /\ call[t] # None => call[t].fn \in Reader \cup {"attach", "clone"}
               /\ child[t] \in Shell \cup {None}
    BY DEF StateInv, Inv, Awaited, Known, Await, CloneCall, Reading, ReaderCall
  <2>3. ASSUME NEW t \in Caller
        PROVE  Answer(answer[t]) /\ Fits(passed[t], answer[t])
    BY DEF StateInv, Fits
  <2> QED
    BY <2>1, <2>2, <2>3 DEF BindingTypeOK, Answer, Fits
<1> QED
  BY <1>1, StateInvariance, PTL

\* The references to handles are those of the handles that callers hold and of the
\* clones that are about to be put, whatever functions are called at once: none is
\* left behind, and none is put twice.
THEOREM NoHandleLeaks == Spec => []RefsAreHandles
<1>1. StateInv => RefsAreHandles
  BY DEF StateInv, RefsAreHandles, Held, CloneSet
<1> QED
  BY <1>1, StateInvariance, PTL

\* No build hands the library a type that its own header made up: the gates of the
\* code are no lower than those of the header.
THEOREM StandInsStayHome == Spec => []NoStandInPassed
<1>1. StateInv => NoStandInPassed
  <2> SUFFICES ASSUME StateInv, NEW t \in Caller
               PROVE  /\ passed[t] # None /\ passed[t][1] \in {"migrate", "console_log"} /\ passed[t][2] =>
                             VERSION_AT_LEAST(StandIn[passed[t][1]])
                      /\ /\ passed[t] # None /\ passed[t][1] = "migrate"
                         /\ ~VERSION_AT_LEAST(StandIn.migrate)
                         => answer[t][2] < 0
                      /\ child[t] # None /\ child[t].opts.groups # {} =>
                             VERSION_AT_LEAST(StandIn.attach)
    BY DEF NoStandInPassed
  <2>1. /\ StandIn.migrate = <<2, 0, 0>> /\ StandIn["migrate"] = <<2, 0, 0>>
        /\ StandIn["console_log"] = <<3, 0, 0>>
        /\ StandIn.attach = <<4, 0, 9>> /\ StandIn["attach"] = <<4, 0, 9>>
    BY DEF StandIn
  <2>2. /\ \A since \in Version : VERSION_AT_LEAST(since) <=> Recent(since)
        /\ passed[t] # None => Gated(passed[t])
    BY MacroOrdersVersions DEF StateInv, Inv, GatesCompareVersions
  <2>3. /\ "console_log" \in DOMAIN SinceLibrary /\ SinceLibrary["console_log"] = <<3, 0, 0>>
        /\ <<2, 0, 0>> \in Version /\ <<3, 0, 0>> \in Version
    BY DEF SinceLibrary, Version
  <2>4. ASSUME passed[t] # None, passed[t][1] = "migrate"
        PROVE  (passed[t][2] <=> VERSION_AT_LEAST(<<2, 0, 0>>)) /\ (~passed[t][2] => answer[t][2] < 0)
    BY <2>2, <2>3, <2>4 DEF Gated, StateInv, Fits
  <2>5. ASSUME passed[t] # None, passed[t][1] = "console_log"
        PROVE  passed[t][2] <=> VERSION_AT_LEAST(<<3, 0, 0>>)
    BY <2>2, <2>3, <2>5 DEF Gated, Agrees
  <2>6. child[t] # None /\ child[t].opts.groups # {} => VERSION_AT_LEAST(<<4, 0, 9>>)
    BY DEF StateInv, Inv, Grouped
  <2> QED
    BY <2>1, <2>4, <2>5, <2>6
<1> QED
  BY <1>1, StateInvariance, PTL

\* A reader returns a whole text in a block with room for its terminator, or null,
\* for texts of any length, whatever happens between its two calls.
THEOREM TextsAreWhole == Spec => []ReadsAreWhole
<1>1. StateInv => ReadsAreWhole
  BY DEF StateInv, ReadsAreWhole, Fits
<1> QED
  BY <1>1, StateInvariance, PTL
=============================================================================
