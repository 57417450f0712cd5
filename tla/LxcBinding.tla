----------------------------- MODULE LxcBinding -----------------------------
(***************************************************************************)
(* The functions of lxc-binding.c that no native method calls, and the     *)
(* inner steps of those it takes several calls to answer.  A thread holds  *)
(* a handle on a container.  Most functions hand their arguments to a      *)
(* member of the handle and return what it returns, some only when the     *)
(* library is recent enough; three read a text of unknown length; one      *)
(* starts a shell and waits for it.  What a member does is liblxc's        *)
(* business: see LxcLib.  The other attach functions are in Sessions.      *)
(***************************************************************************)
EXTENDS LxcLib, LxcAttach, Sequences

CONSTANTS
    Caller,     \* threads that use the library
    Build,      \* versions of the library the code is built against
    Item,       \* texts a cgroup file may hold
    Template    \* names of templates given to jni_lxc_create

\* LXC_VERSION_MAJOR, _MINOR and _MICRO.
Version == (0..99) \X (0..99) \X (0..99)

\* A clone whose handle is still to be put, a caller's wait for its shell with
\* what waitpid last said, and the shell.
CloneCall == [fn |-> "clone", at |-> "put"]
Await == [fn : {"attach"}, at : {"waitpid", "EINTR", "error"}]
Shell == [opts : AttachOptions, fate : Fate \cup {None}]

\* LXC_DEVEL is 0 when version.h does not say.  Configuration values are texts,
\* as cgroup items are, and a text is a sequence.
ASSUME BindingAssumption ==
    /\ IsFiniteSet(Caller)
    /\ Build \subseteq [version : Version, LXC_DEVEL : {0, 1}]
    /\ \A v \in Item \cup Value : v \in Seq({v[i] : i \in DOMAIN v})
    /\ None \notin Container /\ None \notin Fate /\ None \notin Shell
    /\ None \notin Await /\ None # CloneCall
    /\ None \notin [c : Container, conf : Conf]

VARIABLES
    build,   \* the version built against
    world,   \* the containers under the LXC path
    handle,  \* the handle of each caller, with its copy of the configuration
    refs,    \* references to handles in the process
    call,    \* the call a caller is in the middle of
    child,   \* the shell a caller has started and waits for
    passed,  \* the function called last, whether it reached the library, and with what
    answer   \* what the function called last returned

vars == <<build, world, handle, refs, call, child, passed, answer>>

Init ==
    /\ build \in Build
    /\ world \in [Container -> {Undefined} \cup {Created(f) : f \in Conf}]
    /\ handle = [t \in Caller |-> None]
    /\ refs = 0
    /\ call = [t \in Caller |-> None]
    /\ child = [t \in Caller |-> None]
    /\ passed = [t \in Caller |-> None]
    /\ answer = [t \in Caller |-> None]

-----------------------------------------------------------------------------
(* The version of the library *)

\* A slip: a smaller minor is too old whatever the major is.
VersionAtLeastByPart(since) ==
    LET v == build.version
    IN  build.LXC_DEVEL = 1 \/ \A i \in 1..3 : since[i] <= v[i]

VERSION_AT_LEAST(since) ==
    LET v == build.version
    IN  \/ build.LXC_DEVEL = 1
        \/ ~(\/ since[1] > v[1]
             \/ since[1] = v[1] /\ since[2] > v[2]
             \/ since[1] = v[1] /\ since[2] = v[2] /\ since[3] > v[3])

\* The functions that ask for a version: those that read a descriptor or set
\* a timeout ...
SinceDescriptor ==
    [init_pidfd |-> <<4, 0, 0>>, seccomp_notify_fd |-> <<4, 0, 0>>,
     seccomp_notify_fd_active |-> <<4, 0, 5>>, set_timeout |-> <<5, 0, 4>>,
     devpts_fd |-> <<4, 0, 5>>]

\* ... those on a container ...
SinceMember ==
    [destroy_with_snapshots |-> <<1, 1, 0>>, snapshot_destroy_all |-> <<1, 1, 0>>,
     checkpoint |-> <<1, 1, 0>>, restore |-> <<1, 1, 0>>,
     attach_interface |-> <<1, 1, 0>>, detach_interface |-> <<1, 1, 0>>]

\* A slip: the log of the console is asked for where the library lacks its type.
SinceLibraryEarly ==
    [config_item_is_supported |-> <<2, 1, 0>>, console_log |-> <<2, 0, 0>>,
     has_api_extension |-> <<3, 1, 0>>]

\* ... and those on the library itself.
SinceLibrary ==
    [config_item_is_supported |-> <<2, 1, 0>>, console_log |-> <<3, 0, 0>>,
     has_api_extension |-> <<3, 1, 0>>]

\* The options of migrate that appeared after it did.
SinceMigrate ==
    [features_to_check |-> <<3, 0, 0>>, action_script |-> <<2, 0, 4>>,
     ghost_limit |-> <<2, 0, 4>>, preserves_inodes |-> <<2, 0, 1>>]

\* Below these versions the header itself defines the type of an argument:
\* struct migrate_opts, struct lxc_console_log and lxc_groups_t.
StandIn == [migrate |-> <<2, 0, 0>>, console_log |-> <<3, 0, 0>>, attach |-> <<4, 0, 9>>]

-----------------------------------------------------------------------------
(* Opening and putting a handle *)

Idle(t) == handle[t] # None /\ call[t] = None

Subject(t) == world[handle[t].c]

Open(t) ==
    /\ handle[t] = None
    /\ \E c \in Container : handle' = [handle EXCEPT ![t] = [c |-> c, conf |-> world[c].conf]]
    /\ refs' = refs + 1
    /\ UNCHANGED <<build, world, call, child, passed, answer>>

Put(t) ==
    /\ Idle(t)
    /\ handle' = [handle EXCEPT ![t] = None]
    /\ refs' = refs - 1
    /\ passed' = [passed EXCEPT ![t] = None]
    /\ answer' = [answer EXCEPT ![t] = None]
    /\ UNCHANGED <<build, world, call, child>>

\* The member fn is called with arg, and v is returned.
Returns(t, fn, arg, v) ==
    /\ passed' = [passed EXCEPT ![t] = <<fn, TRUE, arg>>]
    /\ answer' = [answer EXCEPT ![t] = v]

\* The same of a function that has nothing else to do; it is not noted.
Forwards(t, v) ==
    /\ passed' = [passed EXCEPT ![t] = None]
    /\ answer' = [answer EXCEPT ![t] = v]

\* The function goes on in further steps.
Enters(t, c) ==
    /\ call' = [call EXCEPT ![t] = c]
    /\ passed' = [passed EXCEPT ![t] = None]
    /\ answer' = [answer EXCEPT ![t] = None]

\* v is returned without a call to the library.
Refuses(t, fn, v) ==
    /\ passed' = [passed EXCEPT ![t] = <<fn, FALSE, None>>]
    /\ answer' = [answer EXCEPT ![t] = v]

-----------------------------------------------------------------------------
(* Functions on a container *)

\* The life of a container, and what is asked of it.
RunOutcomes(r) ==
    [defined |-> IsDefined(r), state |-> State(r), running |-> IsRunning(r),
     freeze |-> Freeze(r), unfreeze |-> Unfreeze(r),
     init_pid |-> {Outcome(r, Int_(IF r.run = "STOPPED" THEN -1 ELSE 1))},
     want_daemonize |-> Attempt(r, TRUE, r), want_close_all_fds |-> Attempt(r, TRUE, r),
     start |-> Start(r), stop |-> Stop(r), shutdown |-> Stop(r),
     reboot |-> Attempt(r, r.run # "STOPPED", [r EXCEPT !.run = "RUNNING"]),
     destroy |-> Destroy(r),
     destroy_with_snapshots |-> Attempt(r, r.defined /\ r.run = "STOPPED", Undefined),
     wait |-> Attempt(r, TRUE, r)]

\* Snapshots, checkpoints, devices, cgroups and interfaces.
SnapshotOutcomes(r) ==
    [may_control |-> Attempt(r, TRUE, r),
     snapshot |-> Snapshot(r), snapshot_list |-> {Outcome(r, Int_(r.snaps))},
     snapshot_destroy |-> Attempt(r, r.snaps > 0, [r EXCEPT !.snaps = @ - 1]),
     snapshot_destroy_all |-> Attempt(r, r.defined, [r EXCEPT !.snaps = 0]),
     add_device_node |-> Attempt(r, r.run # "STOPPED", r),
     remove_device_node |-> Attempt(r, r.run # "STOPPED", r),
     checkpoint |-> Attempt(r, r.run = "RUNNING", r) \cup
                    Attempt(r, r.run = "RUNNING", [r EXCEPT !.run = "STOPPED"]),
     restore |-> Attempt(r, r.defined /\ r.run = "STOPPED", [r EXCEPT !.run = "RUNNING"]),
     set_cgroup_item |-> Attempt(r, r.run # "STOPPED", r),
     attach_interface |-> Attempt(r, r.run # "STOPPED", r),
     detach_interface |-> Attempt(r, r.run # "STOPPED", r)]

\* One of those functions, with the outcomes its member has.
CallMember(t, of) ==
    /\ Idle(t)
    /\ \E fn \in DOMAIN of :
          IF fn \in DOMAIN SinceMember /\ ~VERSION_AT_LEAST(SinceMember[fn])
          THEN Refuses(t, fn, JNI_FALSE) /\ UNCHANGED world
          ELSE \E o \in of[fn] :
                  /\ world' = [world EXCEPT ![handle[t].c] = o.rec]
                  /\ IF fn \in DOMAIN SinceMember THEN Returns(t, fn, None, o.ret)
                     ELSE Forwards(t, o.ret)
    /\ UNCHANGED <<build, handle, refs, call, child>>

\* config_file_name, get_config_path, get_running_config_item, get_interfaces
\* and get_ips hand on what liblxc answers.
Query(t) ==
    /\ Idle(t)
    /\ \E v \in {Null, Str("text")} : Forwards(t, v)
    /\ UNCHANGED <<build, world, handle, refs, call, child>>

ENOSYS == 38
EINVAL == 22

\* A slip: the number of the error is returned as it is.
ret_errno_positive(e) == Int_(e)

ret_errno(e) == Int_(-e)

\* A descriptor, or -1; set_timeout makes a number of the truth value it gets.
GetDescriptor(t) ==
    /\ Idle(t)
    /\ \E fn \in DOMAIN SinceDescriptor :
          IF ~VERSION_AT_LEAST(SinceDescriptor[fn]) THEN Refuses(t, fn, ret_errno(ENOSYS))
          ELSE \E v \in IF fn = "set_timeout" THEN {Int_(0), ret_errno(EINVAL)}
                        ELSE {Int_(3), Int_(-1)} : Returns(t, fn, None, v)
    /\ UNCHANGED <<build, world, handle, refs, call, child>>

\* Questions to the library itself.  Where there is no log of the console
\* the refusal is false, the number of success.
AskLibrary(t) ==
    /\ Idle(t)
    /\ \E fn \in DOMAIN SinceLibrary :
          IF ~VERSION_AT_LEAST(SinceLibrary[fn])
          THEN Refuses(t, fn, IF fn = "console_log" THEN Int_(0) ELSE JNI_FALSE)
          ELSE \E v \in IF fn = "console_log" THEN {Int_(0), Int_(-1)} ELSE {JNI_TRUE, JNI_FALSE} :
                  Returns(t, fn, None, v)
    /\ UNCHANGED <<build, world, handle, refs, call, child>>

\* The options the library knows are copied, whether migrate exists or not.
jni_lxc_migrate(t) ==
    /\ Idle(t)
    /\ IF VERSION_AT_LEAST(<<2, 0, 0>>)
       THEN \E n \in {0, -1} :
               Returns(t, "migrate",
                       {f \in DOMAIN SinceMigrate : VERSION_AT_LEAST(SinceMigrate[f])}, Int_(n))
       ELSE Refuses(t, "migrate", Int_(-EINVAL))
    /\ UNCHANGED <<build, world, handle, refs, call, child>>

-----------------------------------------------------------------------------
(* Functions that make containers *)

\* strncmp over the length of the name given: a prefix of "none", the empty
\* name included, stands for no template.
PrefixOfNone == {"", "n", "no", "non", "none"}

jni_lxc_create(t) ==
    /\ Idle(t)
    /\ \E name \in Template,
          o \in Attempt(Subject(t), ~Subject(t).defined, Created(handle[t].conf)) :
          /\ world' = [world EXCEPT ![handle[t].c] = o.rec]
          /\ Returns(t, "create", IF name \in PrefixOfNone THEN None ELSE name, o.ret)
    /\ UNCHANGED <<build, handle, refs, call, child>>

\* The library makes the new container and returns a handle on it ...
jni_lxc_clone(t) ==
    /\ Idle(t)
    /\ \/ /\ Subject(t).defined /\ Subject(t).run = "STOPPED"
          /\ \E d \in Container :
                /\ ~world[d].defined
                /\ world' = [world EXCEPT ![d] = Created(handle[t].conf)]
          /\ refs' = refs + 1
          /\ Enters(t, CloneCall)
       \/ Forwards(t, JNI_FALSE) /\ UNCHANGED <<world, refs, call>>
    /\ UNCHANGED <<build, handle, child>>

\* A slip: the handle is not put.
CloneNotPut(t) ==
    /\ call[t] # None /\ call[t].at = "put"
    /\ call' = [call EXCEPT ![t] = None]
    /\ Forwards(t, JNI_TRUE)
    /\ UNCHANGED <<build, world, handle, refs, child>>

\* ... which is put, as only its existence matters.
PutClone(t) ==
    /\ call[t] # None /\ call[t].at = "put"
    /\ refs' = refs - 1
    /\ call' = [call EXCEPT ![t] = None]
    /\ Forwards(t, JNI_TRUE)
    /\ UNCHANGED <<build, world, handle, child>>

\* jni_lxc_snapshot_restore makes a container of a snapshot, jni_lxc_rename
\* of the container itself, which then is no more.
Rebuild(t) ==
    LET c == handle[t].c
    IN  /\ Idle(t)
        /\ \E d \in Container \ {c}, fn \in {"rename", "snapshot_restore"} :
              \/ /\ world[c].defined /\ world[c].run = "STOPPED" /\ ~world[d].defined
                 /\ fn = "rename" <=> world[c].snaps = 0
                 /\ world' = [world EXCEPT
                       ![d] = Created(world[c].conf),
                       ![c] = IF fn = "rename" THEN Undefined ELSE @]
                 /\ Forwards(t, JNI_TRUE)
              \/ Forwards(t, JNI_FALSE) /\ UNCHANGED world
        /\ UNCHANGED <<build, handle, refs, call, child>>

-----------------------------------------------------------------------------
(* Functions on the handle's configuration *)

\* The copies of the configuration a function may leave in the handle: set
\* or clear an item, clear everything, or read the file over what is there.
Edits(t) ==
    LET f == handle[t].conf
        file == Subject(t).conf
    IN  [set_config_item |-> {[f EXCEPT ![k] = v] : k \in Key, v \in Value},
         clear_config |-> {EmptyConf},
         clear_config_item |-> {[f EXCEPT ![k] = Unset] : k \in Key},
         load_config |-> IF ~Subject(t).defined THEN {}
                         ELSE {[k \in Key |-> IF file[k] = Unset THEN f[k] ELSE file[k]]},
         set_config_path |-> {f}]

\* All but clear_config may fail.
EditConfig(t) ==
    /\ Idle(t)
    /\ \E fn \in DOMAIN Edits(t) :
          \/ /\ \E f \in Edits(t)[fn] : handle' = [handle EXCEPT ![t].conf = f]
             /\ Forwards(t, IF fn = "clear_config" THEN None ELSE JNI_TRUE)
          \/ /\ fn # "clear_config"
             /\ Forwards(t, JNI_FALSE) /\ UNCHANGED handle
    /\ UNCHANGED <<build, world, refs, call, child>>

\* The whole copy replaces the file.
jni_lxc_save_config(t) ==
    /\ Idle(t)
    /\ \/ /\ Subject(t).defined
          /\ world' = [world EXCEPT ![handle[t].c].conf = handle[t].conf]
          /\ Forwards(t, JNI_TRUE)
       \/ Forwards(t, JNI_FALSE) /\ UNCHANGED world
    /\ UNCHANGED <<build, handle, refs, call, child>>

-----------------------------------------------------------------------------
(* Reading a text of unknown length: probe, allocate, fetch *)

Reader == {"get_config_item", "get_keys", "get_cgroup_item"}

\* The texts the library may hold for a key: the handle's copy of the
\* configuration has one (get_keys names items of it), a cgroup file any.
Texts(t, fn, k) ==
    IF fn = "get_cgroup_item" THEN IF Subject(t).run = "STOPPED" THEN {} ELSE Item
    ELSE IF handle[t].conf[k] = Unset THEN {} ELSE {handle[t].conf[k]}

\* The length is asked for; there may be nothing to read.
Probe(t) ==
    /\ Idle(t)
    /\ \E fn \in Reader, k \in Key :
          \/ /\ Returns(t, fn, 0, Null)
             /\ UNCHANGED call
          \/ \E v \in Texts(t, fn, k) :
                /\ v # <<>>
                /\ Enters(t, [fn |-> fn, key |-> k, at |-> "malloc", len |-> Len(v), block |-> 0])
    /\ UNCHANGED <<build, world, handle, refs, child>>

\* A slip: there is no room for the terminator, and one byte less to fetch.
MallocShort(t) ==
    /\ call[t] # None /\ call[t].at = "malloc"
    /\ call' = [call EXCEPT ![t].block = call[t].len, ![t].at = "fetch"]
    /\ UNCHANGED <<build, world, handle, refs, child, passed, answer>>

\* malloc is tried until it succeeds.
Malloc(t) ==
    /\ call[t] # None /\ call[t].at = "malloc"
    /\ call' = [call EXCEPT ![t].block = call[t].len + 1, ![t].at = "fetch"]
    /\ UNCHANGED <<build, world, handle, refs, child, passed, answer>>

\* A text in memory the caller must free.
Chars(v) == <<"char*", v>>

\* What the library puts into a block of n bytes: it cuts a longer text.
Cut(v, n) == SubSeq(v, 1, IF Len(v) < n THEN Len(v) ELSE n)

\* A slip: a text of another length is read again.
FetchAgain(t) ==
    /\ call[t] # None /\ call[t].at = "fetch"
    /\ LET read == {Cut(v, call[t].block) : v \in Texts(t, call[t].fn, call[t].key)}
       IN  \/ /\ \E v \in read : Len(v) = call[t].len /\ Returns(t, call[t].fn, call[t].block, Chars(v))
              /\ call' = [call EXCEPT ![t] = None]
           \/ /\ \A v \in read : Len(v) # call[t].len
              /\ UNCHANGED <<call, passed, answer>>
    /\ UNCHANGED <<build, world, handle, refs, child>>

\* The text is read; an error, or another length than the one probed, frees
\* the block and yields nothing.
Fetch(t) ==
    LET read == {Cut(v, call[t].block) : v \in Texts(t, call[t].fn, call[t].key)}
    IN  /\ call[t] # None /\ call[t].at = "fetch"
        /\ \/ \E v \in read :
                 Returns(t, call[t].fn, call[t].block, IF Len(v) = call[t].len THEN Chars(v) ELSE Null)
           \/ Returns(t, call[t].fn, call[t].block, Null)
        /\ call' = [call EXCEPT ![t] = None]
        /\ UNCHANGED <<build, world, handle, refs, child>>

-----------------------------------------------------------------------------
(* A shell in the container, and its exit *)

\* The groups go into the options if the library knows of them.
jni_lxc_attach(t) ==
    /\ Idle(t)
    /\ \/ Forwards(t, Int_(-1)) /\ UNCHANGED <<call, child>>
       \/ /\ Subject(t).run # "STOPPED"
          /\ \E flags \in SUBSET Flag, groups \in SUBSET Gid :
                child' = [child EXCEPT ![t] =
                   [opts |-> Options(FALSE, flags,
                                     IF VERSION_AT_LEAST(<<4, 0, 9>>) THEN groups ELSE {}),
                    fate |-> None]]
          /\ Enters(t, [fn |-> "attach", at |-> "waitpid"])
    /\ UNCHANGED <<build, world, handle, refs>>

ShellExits(t) ==
    /\ child[t] # None /\ child[t].fate = None
    /\ \E f \in Fate : child' = [child EXCEPT ![t].fate = f]
    /\ UNCHANGED <<build, world, handle, refs, call, passed, answer>>

\* A shell that has ended is reaped by someone else in the process, or by the
\* kernel because SIGCHLD is ignored.
ShellTaken(t) ==
    /\ child[t] # None /\ child[t].fate # None
    /\ child' = [child EXCEPT ![t] = None]
    /\ UNCHANGED <<build, world, handle, refs, call, passed, answer>>

Waiting(t, at) == call[t] # None /\ call[t].at = at

\* waitpid returns -1 with EINTR ...
WaitInterrupted(t) ==
    /\ Waiting(t, "waitpid")
    /\ call' = [call EXCEPT ![t].at = "EINTR"]
    /\ UNCHANGED <<build, world, handle, refs, child, passed, answer>>

\* A slip: every -1 of waitpid is an error.
WaitOnce(t) ==
    /\ Waiting(t, "EINTR")
    /\ call' = [call EXCEPT ![t] = None]
    /\ Forwards(t, Int_(-1))
    /\ UNCHANGED <<build, world, handle, refs, child>>

\* ... and is called again.
WaitAgain(t) ==
    /\ Waiting(t, "EINTR")
    /\ call' = [call EXCEPT ![t].at = "waitpid"]
    /\ UNCHANGED <<build, world, handle, refs, child, passed, answer>>

\* waitpid returns -1 with another number, ECHILD if there is no such shell ...
WaitFails(t) ==
    /\ Waiting(t, "waitpid")
    /\ call' = [call EXCEPT ![t].at = "error"]
    /\ UNCHANGED <<build, world, handle, refs, child, passed, answer>>

\* A slip: the status is decoded although waitpid has not set it.
WaitIgnoresError(t) ==
    /\ Waiting(t, "error")
    /\ call' = [call EXCEPT ![t] = None]
    /\ Forwards(t, Int_(0))
    /\ child' = [child EXCEPT ![t] = None]
    /\ UNCHANGED <<build, world, handle, refs>>

\* ... and the wait is given up.  If there is a shell it is left behind, in
\* whatever state it is, and nobody has its number any more.
WaitGivesUp(t) ==
    /\ Waiting(t, "error")
    /\ child' = [child EXCEPT ![t] = None]
    /\ call' = [call EXCEPT ![t] = None]
    /\ Forwards(t, Int_(-1))
    /\ UNCHANGED <<build, world, handle, refs>>

\* The shell is reaped and its status becomes the answer.
wait_for_pid_status(t) ==
    /\ Waiting(t, "waitpid")
    /\ child[t] # None /\ child[t].fate # None
    /\ child' = [child EXCEPT ![t] = None]
    /\ call' = [call EXCEPT ![t] = None]
    /\ Forwards(t, Int_(ShellAnswer(WaitStatus(child[t].fate))))
    /\ UNCHANGED <<build, world, handle, refs>>

-----------------------------------------------------------------------------
\* Other tools create containers, and a container's init exits, which ends a
\* shell in it.
Device ==
    /\ \E c \in Container :
          \/ /\ ~world[c].defined
             /\ \E f \in Conf : world' = [world EXCEPT ![c] = Created(f)]
          \/ /\ world[c].run # "STOPPED"
             /\ world' = [world EXCEPT ![c].run = "STOPPED"]
    /\ UNCHANGED <<build, handle, refs, call, child, passed, answer>>

\* A function that takes one step.
Simple(t) ==
    \/ CallMember(t, RunOutcomes(Subject(t)))
    \/ CallMember(t, SnapshotOutcomes(Subject(t)))
    \/ Query(t) \/ GetDescriptor(t) \/ AskLibrary(t) \/ jni_lxc_migrate(t)
    \/ jni_lxc_create(t) \/ Rebuild(t)
    \/ EditConfig(t) \/ jni_lxc_save_config(t)

Next ==
    \/ \E t \in Caller :
          \/ Open(t) \/ Put(t) \/ Simple(t)
          \/ jni_lxc_clone(t) \/ PutClone(t)
          \/ Probe(t) \/ Malloc(t) \/ Fetch(t)
          \/ jni_lxc_attach(t) \/ ShellExits(t) \/ ShellTaken(t)
          \/ WaitInterrupted(t) \/ WaitAgain(t) \/ WaitFails(t) \/ WaitGivesUp(t)
          \/ wait_for_pid_status(t)
    \/ Device

Spec == Init /\ [][Next]_vars

\* The kernel runs a thread that can run; memory is not short for ever, a
\* shell ends some day, and a wait for a shell that has ended, or is not there, is
\* not interrupted every time.
FairSpec ==
    /\ Spec
    /\ \A t \in Caller :
          /\ WF_vars(PutClone(t)) /\ WF_vars(Malloc(t)) /\ WF_vars(Fetch(t))
          /\ WF_vars(ShellExits(t)) /\ WF_vars(WaitAgain(t)) /\ WF_vars(WaitGivesUp(t))
          /\ SF_vars(wait_for_pid_status(t) \/ (child[t] = None /\ WaitFails(t)))

-----------------------------------------------------------------------------
(* Properties *)

\* The state has its types.  A function that has no descriptor to give returns
\* a negative number, never one a caller could use as a descriptor.
BindingTypeOK ==
    /\ build \in Build /\ world \in World /\ refs \in Nat
    /\ handle \in [Caller -> [c : Container, conf : Conf] \cup {None}]
    /\ \A t \in Caller :
          /\ call[t] # None => call[t].fn \in Reader \cup {"attach", "clone"}
          /\ child[t] \in Shell \cup {None}
          /\ \/ answer[t] \in {None, JNI_TRUE, JNI_FALSE, Null, Str("text")}
             \/ answer[t] \in {Str(s) : s \in RunState} \cup {Chars(v) : v \in Item \cup Value}
             \/ answer[t][1] = "jint" /\ answer[t][2] \in Int
          /\ passed[t] # None /\ passed[t][1] \in DOMAIN SinceDescriptor =>
                answer[t][2] = 3 \/ answer[t][2] = 0 \/ answer[t][2] < 0

Cloning(t) == call[t] # None /\ call[t].fn = "clone"

\* No path of a function leaves a reference behind or puts one twice: besides the
\* handles that callers hold, the process has one for each clone between the
\* library's return and the put, and none when the clone failed.
RefsAreHandles ==
    refs = Cardinality({t \in Caller : handle[t] # None}) + Cardinality({t \in Caller : Cloning(t)})

\* The three sized readers return a whole text or nothing, in a block with room
\* for its terminator, although a cgroup file may change and the container may
\* stop between the call that asks for the length and the call that reads.
ReadsAreWhole ==
    \A t \in Caller :
        passed[t] # None /\ passed[t][1] \in Reader /\ answer[t] # Null =>
            /\ answer[t][2] \in Item \cup Value
            /\ Len(answer[t][2]) < passed[t][3]

\* One number in the order of versions, whose parts are below 100.
Rank(v) == 10000 * v[1] + 100 * v[2] + v[3]

Recent(since) == build.LXC_DEVEL = 1 \/ Rank(since) <= Rank(build.version)

Agrees(since, p) == p[1] \in DOMAIN since => (p[2] <=> Recent(since[p[1]]))

Gated(p) ==
    /\ Agrees(SinceDescriptor, p) /\ Agrees(SinceMember, p) /\ Agrees(SinceLibrary, p)
    /\ p[1] = "migrate" =>
          /\ p[2] <=> Recent(<<2, 0, 0>>)
          /\ p[2] => p[3] = {f \in DOMAIN SinceMigrate : Recent(SinceMigrate[f])}

\* The macro of the header orders versions: whatever version the library has, a
\* function under #if reaches its member exactly when the version that its #if
\* names is not the newer one, and migrate hands on the options whose #ifs name
\* no newer one; a development build has them all.  Which versions the #ifs name
\* is taken from the code.
GatesCompareVersions == \A t \in Caller : passed[t] # None => Gated(passed[t])

\* The #ifs of lxc-binding.c agree with those of its header, where an older library
\* lacks the type of an argument and the header defines a stand-in: no stand-in is
\* handed to the library, which might lay it out otherwise, and "the call will
\* still fail" where migrate has nothing but a stand-in to take.
NoStandInPassed ==
    \A t \in Caller :
        /\ passed[t] # None /\ passed[t][1] \in {"migrate", "console_log"} /\ passed[t][2] =>
              VERSION_AT_LEAST(StandIn[passed[t][1]])
        /\ passed[t] # None /\ passed[t][1] = "migrate" /\ ~VERSION_AT_LEAST(StandIn.migrate) =>
              answer[t][2] < 0
        /\ child[t] # None /\ child[t].opts.groups # {} => VERSION_AT_LEAST(StandIn.attach)

\* The attach of t, once it has a shell, returns in this step.
AttachReturns(t) ==
    /\ call[t] # None /\ call[t].fn = "attach"
    /\ call'[t] = None

\* jni_lxc_attach returns no sooner than it has reaped its shell, however often
\* the wait is interrupted; only a waitpid that fails for another reason ends it
\* earlier, and its caller is then told -1.
ShellReaped ==
    [][\A t \in Caller : AttachReturns(t) =>
         \/ child[t] # None /\ child[t].fate # None /\ child'[t] = None
         \/ call[t].at = "error" /\ answer'[t] = Int_(-1)]_vars

\* ... and an answer other than -1 is the number with which the shell that was
\* started ended, its exit code or that of the signal that killed it; never one
\* made of a status that waitpid did not set.
AnswerIsExitCode ==
    [][\A t \in Caller : AttachReturns(t) /\ answer'[t] # Int_(-1) =>
         /\ child[t] # None /\ child[t].fate # None
         /\ answer'[t] = Int_(child[t].fate.code)]_vars

\* A reader, a clone and an attach return, if memory is found and the shell ends; a
\* text that keeps changing holds no reader up, nor do interruptions and a shell
\* that another has reaped an attach.
CallsReturn == \A t \in Caller : call[t] # None ~> call[t] = None
=============================================================================
