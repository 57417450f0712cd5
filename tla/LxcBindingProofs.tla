-------------------------- MODULE LxcBindingProofs --------------------------
(***************************************************************************)
(* Theorems about LxcBinding for any callers, containers and builds: the   *)
(* library's members are reached as its version allows, and a shell is     *)
(* waited for and its exit code returned.                                  *)
(***************************************************************************)
EXTENDS LxcBinding, TLAPS, FiniteSetTheorems

-----------------------------------------------------------------------------
(* The version of the library *)

\* Numbers of two digits each compare as the numbers they are written in.
LEMMA Digits ==
    ASSUME NEW a \in Int, NEW b \in Int, NEW c \in Int,
           NEW x \in Int, NEW y \in Int, NEW z \in Int,
           0 <= b, b <= 99, 0 <= c, c <= 99, 0 <= y, y <= 99, 0 <= z, z <= 99
    PROVE  10000 * x + 100 * y + z <= 10000 * a + 100 * b + c
             <=> ~(x > a \/ (x = a /\ y > b) \/ (x = a /\ y = b /\ z > c))
  OBVIOUS

\* The macro VERSION_AT_LEAST of lxc-binding.h is the order of versions: whatever two
\* versions it is given, it compares them as the numbers they are.
THEOREM MacroOrdersVersions ==
    ASSUME NEW since \in Version, build \in Build
    PROVE  VERSION_AT_LEAST(since) <=> Recent(since)
<1>1. build.version \in Version
  BY BindingAssumption
<1>2. \A v \in Version : v[1] \in 0..99 /\ v[2] \in 0..99 /\ v[3] \in 0..99
  BY DEF Version
<1> DEFINE v == build.version
<1>3. /\ v[1] \in Int /\ v[2] \in Int /\ v[3] \in Int
      /\ since[1] \in Int /\ since[2] \in Int /\ since[3] \in Int
      /\ 0 <= v[2] /\ v[2] <= 99 /\ 0 <= v[3] /\ v[3] <= 99
      /\ 0 <= since[2] /\ since[2] <= 99 /\ 0 <= since[3] /\ since[3] <= 99
  BY <1>1, <1>2
<1>4. PICK a \in Int, b \in Int, c \in Int : a = v[1] /\ b = v[2] /\ c = v[3]
  BY <1>3
<1>5. PICK x \in Int, y \in Int, z \in Int : x = since[1] /\ y = since[2] /\ z = since[3]
  BY <1>3
<1>6. 0 <= b /\ b <= 99 /\ 0 <= c /\ c <= 99 /\ 0 <= y /\ y <= 99 /\ 0 <= z /\ z <= 99
  BY <1>3, <1>4, <1>5
<1>7. 10000 * x + 100 * y + z <= 10000 * a + 100 * b + c
        <=> ~(x > a \/ (x = a /\ y > b) \/ (x = a /\ y = b /\ z > c))
  BY <1>6, Digits
<1> QED
  BY <1>4, <1>5, <1>7 DEF VERSION_AT_LEAST, Recent, Rank

\* The versions asked for are versions.
LEMMA SinceVersions ==
    /\ \A f \in DOMAIN SinceDescriptor : SinceDescriptor[f] \in Version
    /\ \A f \in DOMAIN SinceMember : SinceMember[f] \in Version
    /\ \A f \in DOMAIN SinceLibrary : SinceLibrary[f] \in Version
    /\ \A f \in DOMAIN SinceMigrate : SinceMigrate[f] \in Version
    /\ <<2, 0, 0>> \in Version
<1>1. /\ <<1, 1, 0>> \in Version /\ <<2, 0, 0>> \in Version /\ <<2, 0, 1>> \in Version
      /\ <<2, 0, 4>> \in Version /\ <<2, 1, 0>> \in Version /\ <<3, 0, 0>> \in Version
      /\ <<3, 1, 0>> \in Version /\ <<4, 0, 0>> \in Version /\ <<4, 0, 5>> \in Version
      /\ <<5, 0, 4>> \in Version
  BY DEF Version
<1>2. \A f \in DOMAIN SinceDescriptor : SinceDescriptor[f] \in Version
  <2>1. DOMAIN SinceDescriptor = {"init_pidfd", "seccomp_notify_fd", "seccomp_notify_fd_active", "set_timeout", "devpts_fd"}
    BY DEF SinceDescriptor
  <2>2. /\ SinceDescriptor["init_pidfd"] = <<4, 0, 0>>
        /\ SinceDescriptor["seccomp_notify_fd"] = <<4, 0, 0>>
        /\ SinceDescriptor["seccomp_notify_fd_active"] = <<4, 0, 5>>
        /\ SinceDescriptor["set_timeout"] = <<5, 0, 4>>
        /\ SinceDescriptor["devpts_fd"] = <<4, 0, 5>>
    BY DEF SinceDescriptor
  <2> QED
    BY <1>1, <2>1, <2>2
<1>3. \A f \in DOMAIN SinceMember : SinceMember[f] \in Version
  <2>1. DOMAIN SinceMember = {"destroy_with_snapshots", "snapshot_destroy_all", "checkpoint", "restore", "attach_interface", "detach_interface"}
    BY DEF SinceMember
  <2>2. /\ SinceMember["destroy_with_snapshots"] = <<1, 1, 0>>
        /\ SinceMember["snapshot_destroy_all"] = <<1, 1, 0>>
        /\ SinceMember["checkpoint"] = <<1, 1, 0>>
        /\ SinceMember["restore"] = <<1, 1, 0>>
        /\ SinceMember["attach_interface"] = <<1, 1, 0>>
        /\ SinceMember["detach_interface"] = <<1, 1, 0>>
    BY DEF SinceMember
  <2> QED
    BY <1>1, <2>1, <2>2
<1>4. \A f \in DOMAIN SinceLibrary : SinceLibrary[f] \in Version
  <2>1. DOMAIN SinceLibrary = {"config_item_is_supported", "console_log", "has_api_extension"}
    BY DEF SinceLibrary
  <2>2. /\ SinceLibrary["config_item_is_supported"] = <<2, 1, 0>>
        /\ SinceLibrary["console_log"] = <<3, 0, 0>>
        /\ SinceLibrary["has_api_extension"] = <<3, 1, 0>>
    BY DEF SinceLibrary
  <2> QED
    BY <1>1, <2>1, <2>2
<1>5. \A f \in DOMAIN SinceMigrate : SinceMigrate[f] \in Version
  <2>1. DOMAIN SinceMigrate = {"features_to_check", "action_script", "ghost_limit", "preserves_inodes"}
    BY DEF SinceMigrate
  <2>2. /\ SinceMigrate["features_to_check"] = <<3, 0, 0>>
        /\ SinceMigrate["action_script"] = <<2, 0, 4>>
        /\ SinceMigrate["ghost_limit"] = <<2, 0, 4>>
        /\ SinceMigrate["preserves_inodes"] = <<2, 0, 1>>
    BY DEF SinceMigrate
  <2> QED
    BY <1>1, <2>1, <2>2
<1> QED
  BY <1>1, <1>2, <1>3, <1>4, <1>5

\* The tables have no function in common, and not those without a version.
LEMMA TablesDisjoint ==
    /\ DOMAIN SinceDescriptor \cap DOMAIN SinceMember = {}
    /\ DOMAIN SinceDescriptor \cap DOMAIN SinceLibrary = {}
    /\ DOMAIN SinceMember \cap DOMAIN SinceLibrary = {}
    /\ ({"create", "attach", "migrate"} \cup Reader)
          \cap (DOMAIN SinceDescriptor \cup DOMAIN SinceMember \cup DOMAIN SinceLibrary) = {}
    /\ "migrate" \notin {"create", "attach"} \cup Reader
<1>1. DOMAIN SinceDescriptor = {"init_pidfd", "seccomp_notify_fd", "seccomp_notify_fd_active",
                               "set_timeout", "devpts_fd"}
  BY DEF SinceDescriptor
<1>2. DOMAIN SinceMember = {"destroy_with_snapshots", "snapshot_destroy_all", "checkpoint",
                           "restore", "attach_interface", "detach_interface"}
  BY DEF SinceMember
<1>3. DOMAIN SinceLibrary = {"config_item_is_supported", "console_log", "has_api_extension"}
  BY DEF SinceLibrary
<1> QED
  BY <1>1, <1>2, <1>3 DEF Reader

\* A note without a version agrees with every build.
LEMMA Ungated ==
    ASSUME NEW fn \in {"create", "attach"} \cup Reader, NEW reached, NEW arg
    PROVE  Gated(<<fn, reached, arg>>)
<1>1. <<fn, reached, arg>>[1] = fn
  OBVIOUS
<1> QED
  BY <1>1, TablesDisjoint DEF Gated, Agrees

\* A note agrees with the build if the member was reached as the macro says.
LEMMA NoteGated ==
    ASSUME build \in Build, NEW arg, NEW reached \in BOOLEAN, NEW fn,
           \/ fn \in DOMAIN SinceDescriptor /\ (reached <=> VERSION_AT_LEAST(SinceDescriptor[fn]))
           \/ fn \in DOMAIN SinceMember /\ (reached <=> VERSION_AT_LEAST(SinceMember[fn]))
           \/ fn \in DOMAIN SinceLibrary /\ (reached <=> VERSION_AT_LEAST(SinceLibrary[fn]))
    PROVE  Gated(<<fn, reached, arg>>)
<1>1. <<fn, reached, arg>>[1] = fn /\ <<fn, reached, arg>>[2] = reached
  OBVIOUS
<1>2. CASE fn \in DOMAIN SinceDescriptor /\ (reached <=> VERSION_AT_LEAST(SinceDescriptor[fn]))
  <2>1. reached <=> Recent(SinceDescriptor[fn])
    BY <1>2, SinceVersions, MacroOrdersVersions
  <2> QED
    BY <1>1, <1>2, <2>1, TablesDisjoint DEF Gated, Agrees
<1>3. CASE fn \in DOMAIN SinceMember /\ (reached <=> VERSION_AT_LEAST(SinceMember[fn]))
  <2>1. reached <=> Recent(SinceMember[fn])
    BY <1>3, SinceVersions, MacroOrdersVersions
  <2> QED
    BY <1>1, <1>3, <2>1, TablesDisjoint DEF Gated, Agrees
<1>4. CASE fn \in DOMAIN SinceLibrary /\ (reached <=> VERSION_AT_LEAST(SinceLibrary[fn]))
  <2>1. reached <=> Recent(SinceLibrary[fn])
    BY <1>4, SinceVersions, MacroOrdersVersions
  <2> QED
    BY <1>1, <1>4, <2>1, TablesDisjoint DEF Gated, Agrees
<1> QED
  BY <1>2, <1>3, <1>4

\* A note of migrate agrees with the build if its options do.
LEMMA MigrateGated ==
    ASSUME build \in Build, NEW reached \in BOOLEAN, NEW arg,
           reached <=> VERSION_AT_LEAST(<<2, 0, 0>>),
           reached => arg = {f \in DOMAIN SinceMigrate : VERSION_AT_LEAST(SinceMigrate[f])}
    PROVE  Gated(<<"migrate", reached, arg>>)
<1> DEFINE p == <<"migrate", reached, arg>>
<1>1. p[1] = "migrate" /\ p[2] = reached /\ p[3] = arg
  OBVIOUS
<1>2. reached <=> Recent(<<2, 0, 0>>)
  BY SinceVersions, MacroOrdersVersions
<1>3. {f \in DOMAIN SinceMigrate : VERSION_AT_LEAST(SinceMigrate[f])}
        = {f \in DOMAIN SinceMigrate : Recent(SinceMigrate[f])}
  BY SinceVersions, MacroOrdersVersions
<1> HIDE DEF p
<1>4. Gated(p)
  BY <1>1, <1>2, <1>3, TablesDisjoint DEF Gated, Agrees
<1> QED
  BY <1>4 DEF p

-----------------------------------------------------------------------------
(* Every step *)

\* A shell is one the caller waits for.
Awaited == \A t \in Caller : child[t] \in Shell \cup {None} /\ (child[t] # None => call[t] \in Await)

\* A reader between its probe and its fetch.
InReader(c) ==
    /\ "fn" \in DOMAIN c /\ c.fn \in Reader
    /\ "at" \in DOMAIN c /\ c.at \in {"malloc", "fetch"}

\* A call in several steps is that of a reader, an attach or a clone.
Calls == \A t \in Caller : call[t] \in Await \cup {CloneCall, None} \/ InReader(call[t])

\* A shell was given groups only where the library knows of them.
Grouped ==
    \A t \in Caller :
        child[t] # None /\ child[t].opts.groups # {} => VERSION_AT_LEAST(<<4, 0, 9>>)

\* The inductive invariant.
Inv ==
    /\ build \in Build
    /\ DOMAIN passed = Caller /\ DOMAIN call = Caller
    /\ DOMAIN child = Caller /\ DOMAIN answer = Caller
    /\ GatesCompareVersions /\ Awaited /\ Calls /\ Grouped

\* A function of one step notes what agrees with the build, and starts no shell.
LEMMA SimpleSteps ==
    ASSUME Inv, NEW t \in Caller, Simple(t)
    PROVE  /\ UNCHANGED <<build, call, child>> /\ DOMAIN answer' = Caller
           /\ \E v : passed' = [passed EXCEPT ![t] = v] /\ (v = None \/ Gated(v))
<1> USE DEF Inv
<1>1. ASSUME NEW of, CallMember(t, of)
      PROVE  /\ UNCHANGED <<build, call, child>> /\ DOMAIN answer' = Caller
             /\ \E v : passed' = [passed EXCEPT ![t] = v] /\ (v = None \/ Gated(v))
  <2>1. PICK fn \in DOMAIN of :
          IF fn \in DOMAIN SinceMember /\ ~VERSION_AT_LEAST(SinceMember[fn])
          THEN Refuses(t, fn, JNI_FALSE)
          ELSE \E o \in of[fn] : IF fn \in DOMAIN SinceMember THEN Returns(t, fn, None, o.ret)
                                 ELSE Forwards(t, o.ret)
    BY <1>1 DEF CallMember
  <2>2. CASE fn \in DOMAIN SinceMember /\ ~VERSION_AT_LEAST(SinceMember[fn])
    <3>1. Gated(<<fn, FALSE, None>>)
      BY <2>2, NoteGated
    <3> QED
      BY <1>1, <2>1, <2>2, <3>1 DEF Refuses, CallMember
  <2>3. CASE fn \in DOMAIN SinceMember /\ VERSION_AT_LEAST(SinceMember[fn])
    <3>1. Gated(<<fn, TRUE, None>>)
      BY <2>3, NoteGated
    <3> QED
      BY <1>1, <2>1, <2>3, <3>1 DEF Returns, CallMember
  <2>4. CASE fn \notin DOMAIN SinceMember
    BY <1>1, <2>1, <2>4 DEF Forwards, CallMember
  <2> QED
    BY <2>2, <2>3, <2>4
<1>2. CASE Query(t)
  BY <1>2 DEF Query, Forwards
<1>3. CASE GetDescriptor(t)
  <2>1. PICK fn \in DOMAIN SinceDescriptor :
          IF ~VERSION_AT_LEAST(SinceDescriptor[fn]) THEN Refuses(t, fn, ret_errno(ENOSYS))
          ELSE \E v : Returns(t, fn, None, v)
    BY <1>3 DEF GetDescriptor
  <2>2. CASE ~VERSION_AT_LEAST(SinceDescriptor[fn])
    <3>1. Gated(<<fn, FALSE, None>>)
      BY <2>2, NoteGated
    <3> QED
      BY <1>3, <2>1, <2>2, <3>1 DEF Refuses, GetDescriptor
  <2>3. CASE VERSION_AT_LEAST(SinceDescriptor[fn])
    <3>1. Gated(<<fn, TRUE, None>>)
      BY <2>3, NoteGated
    <3> QED
      BY <1>3, <2>1, <2>3, <3>1 DEF Returns, GetDescriptor
  <2> QED
    BY <2>2, <2>3
<1>4. CASE AskLibrary(t)
  <2>1. PICK fn \in DOMAIN SinceLibrary :
          IF ~VERSION_AT_LEAST(SinceLibrary[fn]) THEN \E v : Refuses(t, fn, v)
          ELSE \E v : Returns(t, fn, None, v)
    BY <1>4 DEF AskLibrary
  <2>2. CASE ~VERSION_AT_LEAST(SinceLibrary[fn])
    <3>1. Gated(<<fn, FALSE, None>>)
      BY <2>2, NoteGated
    <3> QED
      BY <1>4, <2>1, <2>2, <3>1 DEF Refuses, AskLibrary
  <2>3. CASE VERSION_AT_LEAST(SinceLibrary[fn])
    <3>1. Gated(<<fn, TRUE, None>>)
      BY <2>3, NoteGated
    <3> QED
      BY <1>4, <2>1, <2>3, <3>1 DEF Returns, AskLibrary
  <2> QED
    BY <2>2, <2>3
<1>5. CASE jni_lxc_migrate(t)
  <2> DEFINE known == {f \in DOMAIN SinceMigrate : VERSION_AT_LEAST(SinceMigrate[f])}
  <2>1. CASE VERSION_AT_LEAST(<<2, 0, 0>>)
    <3>1. Gated(<<"migrate", TRUE, known>>)
      BY <2>1, MigrateGated
    <3> QED
      BY <1>5, <2>1, <3>1 DEF jni_lxc_migrate, Returns
  <2>2. CASE ~VERSION_AT_LEAST(<<2, 0, 0>>)
    <3>1. Gated(<<"migrate", FALSE, None>>)
      BY <2>2, MigrateGated
    <3> QED
      BY <1>5, <2>2, <3>1 DEF jni_lxc_migrate, Refuses
  <2> QED
    BY <2>1, <2>2
<1>6. CASE jni_lxc_create(t)
  <2>1. PICK name \in Template : \E v : Returns(t, "create", IF name \in PrefixOfNone THEN None ELSE name, v)
    BY <1>6 DEF jni_lxc_create
  <2>2. Gated(<<"create", TRUE, IF name \in PrefixOfNone THEN None ELSE name>>)
    BY Ungated
  <2> QED
    BY <1>6, <2>1, <2>2 DEF jni_lxc_create, Returns
<1>8. CASE Rebuild(t)
  BY <1>8 DEF Rebuild, Forwards
<1>9. CASE EditConfig(t)
  BY <1>9 DEF EditConfig, Forwards
<1>10. CASE jni_lxc_save_config(t)
  BY <1>10 DEF jni_lxc_save_config, Forwards
<1> QED
  BY <1>1, <1>2, <1>3, <1>4, <1>5, <1>6, <1>8, <1>9, <1>10 DEF Simple

\* A step that notes what agrees with the build keeps GatesCompareVersions.
LEMMA NoteKept ==
    ASSUME Inv, NEW t \in Caller, NEW v, v = None \/ Gated(v),
           passed' = [passed EXCEPT ![t] = v], UNCHANGED build
    PROVE  GatesCompareVersions' /\ DOMAIN passed' = Caller
<1>1. ASSUME NEW u \in Caller, passed'[u] # None
      PROVE  Gated(passed'[u])
  BY <1>1 DEF Inv, GatesCompareVersions
<1>2. ASSUME NEW p, Gated(p)
      PROVE  Gated(p)'
  BY <1>2 DEF Gated, Agrees, Recent
<1> QED
  BY <1>1, <1>2 DEF Inv, GatesCompareVersions

\* A step that leaves the notes alone.
LEMMA NotesUnchanged ==
    ASSUME Inv, UNCHANGED <<build, passed>>
    PROVE  GatesCompareVersions' /\ DOMAIN passed' = Caller
  BY DEF Inv, GatesCompareVersions, Gated, Agrees, Recent

\* The options handed to liblxc are options.
LEMMA OptionsType ==
    ASSUME NEW clear \in BOOLEAN, NEW flags \in SUBSET Flag, NEW groups \in SUBSET Gid
    PROVE  Options(clear, flags, groups) \in AttachOptions
  BY AttachAssumption DEF Options, AttachOptions

\* A step that changes one caller's call and no shell.
LEMMA CallChanges ==
    ASSUME Inv, NEW t \in Caller, NEW c, call' = [call EXCEPT ![t] = c], UNCHANGED <<build, child>>,
           c \in Await \cup {CloneCall, None} \/ InReader(c), child[t] # None => c \in Await
    PROVE  Awaited' /\ Calls' /\ Grouped' /\ DOMAIN call' = Caller
<1>1. \A u \in Caller : InReader(call[u]) => InReader(call[u])
  OBVIOUS
<1>2. \A u \in Caller : call'[u] = IF u = t THEN c ELSE call[u]
  BY DEF Inv
<1>3. Calls'
  BY <1>2 DEF Inv, Calls
<1>4. Awaited'
  BY <1>2 DEF Inv, Awaited
<1>5. Grouped'
  BY DEF Inv, Grouped, VERSION_AT_LEAST
<1> QED
  BY <1>3, <1>4, <1>5 DEF Inv

\* A step that changes no call and no shell.
LEMMA CallsUnchanged ==
    ASSUME Inv, UNCHANGED <<build, call, child>>
    PROVE  Awaited' /\ Calls' /\ Grouped'
  BY DEF Inv, Awaited, Calls, Grouped, VERSION_AT_LEAST

\* Which call a caller is in shows in where it is.
LEMMA Whereabouts ==
    ASSUME Inv, NEW t \in Caller, call[t] # None
    PROVE  /\ call[t].at \in {"malloc", "fetch"} => InReader(call[t]) /\ child[t] = None
           /\ call[t].at = "put" => call[t] = CloneCall /\ child[t] = None
           /\ call[t].at \in {"waitpid", "EINTR", "error"} => call[t] \in Await
           /\ call[t].fn = "attach" => call[t] \in Await
<1>1. call[t] \in Await \cup {CloneCall} \/ InReader(call[t])
  BY DEF Inv, Calls
<1>2. CASE call[t] \in Await
  BY <1>2 DEF Await
<1>3. CASE call[t] = CloneCall
  BY <1>3 DEF CloneCall, Inv, Awaited, Await
<1>4. CASE InReader(call[t])
  BY <1>4 DEF InReader, Reader, Inv, Awaited, Await
<1> QED
  BY <1>1, <1>2, <1>3, <1>4

\* The steps of a reader, a clone and an attach, which take several.
LEMMA LongSteps ==
    ASSUME Inv, NEW t \in Caller,
           \/ Open(t) \/ Put(t) \/ jni_lxc_clone(t) \/ PutClone(t)
           \/ Probe(t) \/ Malloc(t) \/ Fetch(t)
           \/ jni_lxc_attach(t) \/ ShellExits(t) \/ ShellTaken(t)
           \/ WaitInterrupted(t) \/ WaitAgain(t) \/ WaitFails(t) \/ WaitGivesUp(t)
           \/ wait_for_pid_status(t)
    PROVE  Inv'
<1>0. /\ build \in Build /\ DOMAIN passed = Caller /\ DOMAIN call = Caller
      /\ DOMAIN child = Caller /\ DOMAIN answer = Caller
  BY DEF Inv
<1>1. CASE Open(t)
  BY <1>0, <1>1, NotesUnchanged, CallsUnchanged DEF Open, Inv
<1>2. CASE Put(t)
  BY <1>0, <1>2, NoteKept, CallsUnchanged DEF Put, Inv
<1>3. ASSUME call[t] = None
      PROVE  child[t] = None
  BY <1>3, BindingAssumption DEF Inv, Awaited
<1>4. CASE jni_lxc_clone(t)
  <2>1. child[t] = None /\ UNCHANGED <<build, child>>
    BY <1>3, <1>4 DEF jni_lxc_clone, Idle
  <2>2. CASE Forwards(t, JNI_FALSE) /\ UNCHANGED call
    BY <1>0, <2>1, <2>2, NoteKept, CallsUnchanged DEF Forwards, Inv
  <2>3. CASE Enters(t, CloneCall)
    BY <1>0, <2>1, <2>3, NoteKept, CallChanges DEF Enters, Inv
  <2> QED
    BY <1>4, <2>2, <2>3 DEF jni_lxc_clone
<1>5. CASE PutClone(t)
  <2>1. child[t] = None
    BY <1>5, Whereabouts DEF PutClone
  <2> QED
    BY <1>0, <1>5, <2>1, NoteKept, CallChanges DEF PutClone, Forwards, Inv
<1>6. CASE Probe(t)
  <2>1. PICK fn \in Reader, k \in Key :
          \/ Returns(t, fn, 0, Null) /\ UNCHANGED call
          \/ \E n : Enters(t, [fn |-> fn, key |-> k, at |-> "malloc", len |-> n, block |-> 0])
    BY <1>6 DEF Probe
  <2>2. child[t] = None /\ UNCHANGED <<build, child>>
    BY <1>3, <1>6 DEF Probe, Idle
  <2>3. Gated(<<fn, TRUE, 0>>)
    BY Ungated
  <2>4. CASE Returns(t, fn, 0, Null) /\ UNCHANGED call
    BY <1>0, <2>2, <2>3, <2>4, NoteKept, CallsUnchanged DEF Returns, Inv
  <2>5. ASSUME NEW n,
               Enters(t, [fn |-> fn, key |-> k, at |-> "malloc", len |-> n, block |-> 0])
        PROVE  Inv'
    <3> DEFINE c == [fn |-> fn, key |-> k, at |-> "malloc", len |-> n, block |-> 0]
    <3>1. InReader(c)
      BY DEF InReader
    <3> HIDE DEF c
    <3>2. Enters(t, c)
      BY <2>5 DEF c
    <3> QED
      BY <1>0, <2>2, <3>1, <3>2, NoteKept, CallChanges DEF Enters, Inv
  <2> QED
    BY <2>1, <2>4, <2>5
<1>7. CASE Malloc(t)
  <2> DEFINE c == [call[t] EXCEPT !.block = call[t].len + 1, !.at = "fetch"]
  <2>1. InReader(call[t]) /\ child[t] = None
    BY <1>7, Whereabouts DEF Malloc
  <2>2. InReader(c)
    BY <2>1 DEF InReader
  <2>3. call' = [call EXCEPT ![t] = c]
    BY <1>7 DEF Malloc
  <2> HIDE DEF c
  <2> QED
    BY <1>0, <1>7, <2>1, <2>2, <2>3, NotesUnchanged, CallChanges DEF Malloc, Inv
<1>8. CASE Fetch(t)
  <2>1. InReader(call[t]) /\ child[t] = None
    BY <1>8, Whereabouts DEF Fetch
  <2>2. PICK v : Returns(t, call[t].fn, call[t].block, v)
    BY <1>8 DEF Fetch
  <2>3. Gated(<<call[t].fn, TRUE, call[t].block>>)
    BY <2>1, Ungated DEF InReader
  <2> QED
    BY <1>0, <1>8, <2>1, <2>2, <2>3, NoteKept, CallChanges DEF Fetch, Returns, Inv
<1>9. CASE jni_lxc_attach(t)
  <2>1. CASE Forwards(t, Int_(-1)) /\ UNCHANGED <<call, child>>
    BY <1>0, <1>9, <2>1, NoteKept, CallsUnchanged DEF jni_lxc_attach, Forwards, Inv
  <2>2. CASE ~(Forwards(t, Int_(-1)) /\ UNCHANGED <<call, child>>)
    <3>1. PICK flags \in SUBSET Flag, groups \in SUBSET Gid :
            child' = [child EXCEPT ![t] =
              [opts |-> Options(FALSE, flags,
                                IF VERSION_AT_LEAST(<<4, 0, 9>>) THEN groups ELSE {}),
               fate |-> None]]
      BY <1>9, <2>2 DEF jni_lxc_attach
    <3> DEFINE o == Options(FALSE, flags, IF VERSION_AT_LEAST(<<4, 0, 9>>) THEN groups ELSE {})
    <3>2. Enters(t, [fn |-> "attach", at |-> "waitpid"]) /\ UNCHANGED build
      BY <1>9, <2>2 DEF jni_lxc_attach
    <3>3. o \in AttachOptions /\ (o.groups # {} => VERSION_AT_LEAST(<<4, 0, 9>>))
      <4>1. o \in AttachOptions
        BY OptionsType
      <4>2. o.groups = IF VERSION_AT_LEAST(<<4, 0, 9>>) THEN groups ELSE {}
        BY DEF Options
      <4> QED
        BY <4>1, <4>2
    <3> HIDE DEF o
    <3>4. child' = [child EXCEPT ![t] = [opts |-> o, fate |-> None]]
      BY <3>1 DEF o
    <3>5. [opts |-> o, fate |-> None] \in Shell /\ [fn |-> "attach", at |-> "waitpid"] \in Await
      BY <3>3 DEF Shell, Await
    <3>6. Awaited' /\ Calls' /\ DOMAIN call' = Caller /\ DOMAIN child' = Caller
      BY <1>0, <3>2, <3>4, <3>5 DEF Enters, Inv, Awaited, Calls
    <3>7. Grouped'
      BY <1>0, <3>2, <3>3, <3>4 DEF Inv, Grouped, VERSION_AT_LEAST
    <3> QED
      BY <1>0, <3>2, <3>6, <3>7, NoteKept DEF Enters, Inv
  <2> QED
    BY <2>1, <2>2
<1>10. CASE ShellExits(t)
  <2>1. PICK f \in Fate : child' = [child EXCEPT ![t] = [child[t] EXCEPT !.fate = f]]
    BY <1>10 DEF ShellExits
  <2>2. child[t] \in Shell
    BY <1>10 DEF ShellExits, Inv, Awaited
  <2>3. [child[t] EXCEPT !.fate = f] \in Shell /\ [child[t] EXCEPT !.fate = f].opts = child[t].opts
    BY <2>2 DEF Shell
  <2>4. UNCHANGED <<build, call, passed, answer>> /\ child[t] # None
    BY <1>10 DEF ShellExits
  <2>5. Awaited' /\ Calls' /\ Grouped'
    BY <1>0, <2>1, <2>3, <2>4 DEF Inv, Awaited, Calls, Grouped, VERSION_AT_LEAST
  <2> QED
    BY <1>0, <2>1, <2>4, <2>5, NotesUnchanged DEF Inv
<1>11. CASE ShellTaken(t)
  <2>1. Awaited' /\ Calls' /\ Grouped'
    BY <1>0, <1>11 DEF ShellTaken, Inv, Awaited, Calls, Grouped, VERSION_AT_LEAST
  <2> QED
    BY <1>0, <1>11, <2>1, NotesUnchanged DEF ShellTaken, Inv
<1>12. CASE WaitInterrupted(t) \/ WaitAgain(t) \/ WaitFails(t)
  <2>1. PICK at \in {"waitpid", "EINTR", "error"} :
          call' = [call EXCEPT ![t] = [call[t] EXCEPT !.at = at]]
    BY <1>12 DEF WaitInterrupted, WaitAgain, WaitFails
  <2>2. UNCHANGED <<build, child, passed, answer>> /\ call[t] \in Await
    BY <1>12, Whereabouts DEF WaitInterrupted, WaitAgain, WaitFails, Waiting
  <2>3. [call[t] EXCEPT !.at = at] \in Await
    BY <2>2 DEF Await
  <2> QED
    BY <1>0, <2>1, <2>2, <2>3, NotesUnchanged, CallChanges DEF Inv
<1>13. CASE WaitGivesUp(t) \/ wait_for_pid_status(t)
  <2>1. /\ child' = [child EXCEPT ![t] = None] /\ call' = [call EXCEPT ![t] = None]
        /\ UNCHANGED build /\ \E v : Forwards(t, v)
    BY <1>13 DEF WaitGivesUp, wait_for_pid_status
  <2>2. Awaited' /\ Calls' /\ Grouped'
    BY <1>0, <2>1 DEF Inv, Awaited, Calls, Grouped, VERSION_AT_LEAST
  <2> QED
    BY <1>0, <2>1, <2>2, NoteKept DEF Forwards, Inv
<1> QED
  BY <1>1, <1>2, <1>4, <1>5, <1>6, <1>7, <1>8, <1>9, <1>10, <1>11, <1>12, <1>13

-----------------------------------------------------------------------------
(* The theorems *)

\* The initial state.
LEMMA InvInit == Init => Inv
  BY DEF Init, Inv, GatesCompareVersions, Awaited, Calls, Grouped

\* Every step.
LEMMA InvStep ==
    ASSUME Inv, [Next]_vars
    PROVE  Inv'
<1>1. CASE UNCHANGED vars
  BY <1>1, NotesUnchanged, CallsUnchanged DEF vars, Inv
<1>2. CASE Device
  BY <1>2, NotesUnchanged, CallsUnchanged DEF Device, Inv
<1>3. ASSUME NEW t \in Caller, Simple(t)
      PROVE  Inv'
  BY <1>3, SimpleSteps, NoteKept, CallsUnchanged DEF Inv
<1> QED
  BY <1>1, <1>2, <1>3, LongSteps DEF Next

\* A function under #if reaches its member exactly when the version it names is
\* not newer than the library's, and migrate hands on exactly the options whose
\* versions are not, for every version the library may have.
THEOREM GatesFollowMacro == Spec => []GatesCompareVersions
<1>1. Inv => GatesCompareVersions
  BY DEF Inv
<1> QED
  BY <1>1, InvInit, InvStep, PTL DEF Spec

\* The number with which a shell ended: for an exit the second byte of the status,
\* for a signal the first.
LEMMA StatusDecoded ==
    ASSUME NEW f \in Fate
    PROVE  ShellAnswer(WaitStatus(f)) = f.code
<1>1. /\ f.how = "exit" => f.code \in 0..255
      /\ f.how # "exit" => f.code \in 1..126
  <2>1. \A n \in Code : n \in 0..255
    BY AttachAssumption DEF AttachAssumption
  <2>2. \A n \in Signal : n \in 1..126
    BY AttachAssumption DEF AttachAssumption
  <2>3. CASE f \in [how : {"exit"}, code : Code]
    <3>1. f.how = "exit" /\ f.code \in Code
      BY <2>3
    <3> QED
      BY <2>1, <3>1
  <2>4. CASE f \in [how : {"signal"}, code : Signal]
    <3>1. f.how = "signal" /\ f.code \in Signal
      BY <2>4
    <3> QED
      BY <2>2, <3>1
  <2> QED
    BY <2>3, <2>4 DEF Fate
<1>2. \A n \in 0..255 : (n * 256) % 128 = 0 /\ ((n * 256) \div 256) % 256 = n
  OBVIOUS
<1>3. \A n \in 1..126 : n % 128 # 0
  OBVIOUS
<1> QED
  BY <1>1, <1>2, <1>3 DEF ShellAnswer, WaitStatus, WIFEXITED, WEXITSTATUS

\* An attach returns when it has reaped its shell, whose number it answers, or when
\* the wait has failed, and by no other step.
LEMMA AttachEnds ==
    ASSUME Inv, [Next]_vars, NEW t \in Caller, AttachReturns(t)
    PROVE  \/ /\ child[t] # None /\ child[t].fate # None /\ child'[t] = None
              /\ answer'[t] = Int_(child[t].fate.code)
           \/ call[t].at = "error" /\ answer'[t] = Int_(-1)
<1>1. /\ call[t] # None /\ call'[t] = None /\ call[t] \in Await
      /\ DOMAIN call = Caller /\ DOMAIN child = Caller /\ DOMAIN answer = Caller
  BY Whereabouts DEF AttachReturns, Inv
<1>2. ~UNCHANGED call
  BY <1>1
<1>3. ~UNCHANGED vars /\ ~Device /\ \A u \in Caller : ~Simple(u)
  BY <1>2, SimpleSteps DEF vars, Device
<1>4. \A u \in Caller : ~Open(u) /\ ~Put(u) /\ ~ShellExits(u) /\ ~ShellTaken(u)
  BY <1>2 DEF Open, Put, ShellExits, ShellTaken
<1>5. ASSUME NEW u \in Caller, NEW c, call' = [call EXCEPT ![u] = c]
      PROVE  u = t /\ c = None
  BY <1>1, <1>5
<1>6. \A u \in Caller : ~jni_lxc_clone(u) /\ ~Probe(u) /\ ~jni_lxc_attach(u)
  <2>1. \A c : \A u \in Caller : Idle(u) => ~Enters(u, c)
    BY <1>1, <1>5 DEF Idle, Enters
  <2> QED
    BY <1>2, <2>1 DEF jni_lxc_clone, Probe, jni_lxc_attach, Idle
<1>7. \A u \in Caller : ~PutClone(u) /\ ~Malloc(u) /\ ~Fetch(u)
  <2>1. call[t].at \notin {"put", "malloc", "fetch"}
    BY <1>1 DEF Await
  <2> QED
    BY <1>5, <2>1 DEF PutClone, Malloc, Fetch
<1>8. \A u \in Caller : ~WaitInterrupted(u) /\ ~WaitAgain(u) /\ ~WaitFails(u)
  <2>1. ASSUME NEW at \in {"EINTR", "waitpid", "error"}
        PROVE  [call[t] EXCEPT !.at = at] # None
    BY <1>1, <2>1, BindingAssumption DEF Await
  <2> QED
    BY <1>5, <2>1 DEF WaitInterrupted, WaitAgain, WaitFails
<1>9. PICK u \in Caller : WaitGivesUp(u) \/ wait_for_pid_status(u)
  BY <1>3, <1>4, <1>6, <1>7, <1>8 DEF Next
<1>10. u = t
  BY <1>5, <1>9 DEF WaitGivesUp, wait_for_pid_status
<1>11. CASE WaitGivesUp(t)
  BY <1>1, <1>11 DEF WaitGivesUp, Waiting, Forwards
<1>12. CASE wait_for_pid_status(t)
  <2>1. child[t] # None /\ child[t].fate # None /\ child'[t] = None
    BY <1>1, <1>12 DEF wait_for_pid_status
  <2>2. child[t].fate \in Fate
    BY <2>1 DEF Inv, Awaited, Shell
  <2>3. answer'[t] = Int_(ShellAnswer(WaitStatus(child[t].fate)))
    BY <1>1, <1>12 DEF wait_for_pid_status, Forwards
  <2> QED
    BY <2>1, <2>2, <2>3, StatusDecoded
<1> QED
  BY <1>9, <1>10, <1>11, <1>12

\* No attach returns before its shell is reaped, however often the wait for it is
\* interrupted, unless waitpid fails for another reason: it then answers -1.
THEOREM NoShellLeft == Spec => ShellReaped
<1>1. Inv /\ [Next]_vars =>
        [\A t \in Caller : AttachReturns(t) =>
            \/ child[t] # None /\ child[t].fate # None /\ child'[t] = None
            \/ call[t].at = "error" /\ answer'[t] = Int_(-1)]_vars
  BY AttachEnds
<1> QED
  BY <1>1, InvInit, InvStep, PTL DEF Spec, ShellReaped

\* What jni_lxc_attach answers, if it is not -1, is the exit code of the shell it
\* started or the number of the signal that killed it.
THEOREM AnswerDecodesExit == Spec => AnswerIsExitCode
<1>1. Inv /\ [Next]_vars =>
        [\A t \in Caller : AttachReturns(t) /\ answer'[t] # Int_(-1) =>
            /\ child[t] # None /\ child[t].fate # None
            /\ answer'[t] = Int_(child[t].fate.code)]_vars
  BY AttachEnds
<1> QED
  BY <1>1, InvInit, InvStep, PTL DEF Spec, AnswerIsExitCode
=============================================================================
