# jni-lxc: a verification project

jni-lxc lets an Android app manage LXC containers.  The app talks over Binder to
a service in a root process; the service's methods are JNI functions that call
liblxc.  This directory holds TLA+ models of the parts of it where threads,
failures and lost calls meet, the TLC configurations that check them, and TLAPS
proofs of every safety property that they check.

Paths below are relative to `src/app/src/main/`.

## The system

| Component | Source | State | Operations | Talks to |
|---|---|---|---|---|
| Activity | `java/io/github/coap/MainActivity.java` | `lxcManager`, `currentContainer`, `binding`, `aidlConn`; what is on screen; runnables posted to the UI thread | clicks, `selectContainer`, six container operations, `updateContainerInfo`, `demoLxcFeatures`, `onServiceConnected`, `onServiceDisconnected`, `onDestroy` | the client library from background threads and from the UI thread; libsu's `RootService` by callbacks |
| Client library | `java/io/github/coap/lxc/LxcManager.java`, `LxcContainer.java` | none but what a call in progress holds | three listings, `getContainer`, one method per AIDL call | the service, one transaction per call; `RemoteException` becomes a default value |
| AIDL service | `aidl/.../IService.aidl`, `java/.../LxcNative.java` | none: every call names its container | 19 calls | the JNI wrapper |
| JNI wrapper | `jni/src/jni-wrapper.c` | per call: pinned strings, a container handle, malloc'ed blocks | one native method per AIDL call, registration | the binding |
| liblxc binding | `jni/src/lxc-binding.c` | none | one function per liblxc call; readers that probe, allocate and fetch; attach; console | liblxc |
| liblxc | vendored archive and headers | containers on disk, their init processes | external | kernel, disk |
| Root service lifecycle | `LxcNative.java` 141-168 | none | logging callbacks | libsu |

What is hard here:

* **Interleaving.**  Binder threads run methods concurrently on the same
  containers; the containers also change by themselves and by other tools.
  In the app, background threads and the UI thread share fields without
  synchronisation.
* **Atomicity.**  A method takes many steps between the arrival of a call and
  its reply; a listing takes many calls; the container's information on screen
  is read line by line.
* **Failure.**  `lxc_container_new` may return NULL, a library call may fail,
  the root process may die between the effect of a call and its reply.
* **Order.**  Runnables reach the screen in the order they are posted, not in
  that of the clicks; connection callbacks come between any two of them.
* **Resources.**  Each path through each native method must release exactly
  what it pinned, opened and allocated.  Attached processes and terminals outlive
  calls, and calls that last as long as a session share a finite pool of threads
  with the short ones.
* **Boundaries.**  Wait statuses, error numbers, prefixes, buffer lengths and the
  versions the code is compiled for.

`PROJECT.json` lists each such place as a hazard, with the property that covers
it or the reason why none does yet.

## Modules

```
LxcLib            what the code relies on of liblxc (external); AIDL operations, results
  LxcLibProofs         lemmas: what the outcomes of a library call may be
  LxcService      the AIDL interface as an atomic service         (abstract)
    LxcManager    the client's listings on top of the service
      LxcManagerProofs   theorems: types, what the listings say
  JniWrapper      the native methods step by step                 (detailed)
    JniWrapperProofs   theorems: invariants, refinement of LxcService
    WrapperHistory     the same with a memory of earlier answers
    EndToEnd           the client's listings on top of the native methods
      EndToEndProofs   theorems: refinement of LxcManager, what its lists say
LxcAttach         attach options, wait statuses and the answers made of them
  Sessions        attach, console and their argument strings; the pool; JNI_OnLoad
    SessionsProofs     theorems: accounts, processes, answers
  LxcBinding      the rest of lxc-binding.c, on LxcLib and LxcAttach
    LxcBindingProofs        theorems: version gates, no shell left, decoded exits
    LxcBindingStateProofs   theorems: types, references, stand-ins, whole texts
  AppUi           MainActivity and its threads, a service call being one step
    AppUiProofs          theorems: types, no crash, what the screen shows
MC*               small instances for TLC
```

### LxcLib

`world` maps each container name to whether it is defined, its run state, its
configuration on disk and its number of snapshots.  For each library call an
operator gives the set of outcomes: the new record and the value returned.  The
queries `IsDefined` and `IsRunning` answer from the record and never fail there: what
makes such a method fail is a NULL handle, the wrapper's `ContainerNewFails`.  `State`
may answer NULL, a call that changes a container may always fail; `Start`, `Destroy`,
`Snapshot` succeed only on a stopped container, `Stop`, `Freeze`, `Unfreeze` only on
one that is not, `Destroy` only without snapshots, as liblxc does.  Values are tagged
with their JNI type so that
a type error would show.

### LxcService

One transaction per thread: `Receive`, one action named after each AIDL method,
in which the call takes effect at once, `Reply`.  A call may fail (`Fail`) with
the default of its type, and `Die` loses all calls in flight.  `setConfigItem`
has no effect on `world` and `getErrorNum` answers the number of a new handle,
because that is what the code does; `history_config` shows what follows of
the first.

### JniWrapper

`pc[t]` walks through the steps of a method:

| `pc` | code (line numbers of `jni-wrapper.c` for `nativeGetConfigItem`) |
|---|---|
| `idle` to `pinned` | `Receive`: `GetStringUTFChars` (195-197) |
| `pinned` to `open` or `unpin` | `ContainerNew`, `ContainerNewFails` (199-202) |
| `open` to `put`, `value` or `loop` | the action named after the method: the library call |
| `value` to `put` | `FreeValue` (205-206) |
| `loop` | `CopyElement` (32-38, 276-281), then `FreeArrays` |
| `put` to `unpin` | `ContainerPut` (208) |
| `unpin` to `idle` | `Reply` (211-215) |

`pins`, `handles` and `blocks` count what a thread holds and are plain integers,
so that a double free shows as a negative number.  They count acquisitions and
releases as each step makes them; what they ought to be is said separately by
`OwedPins`, `OwedHandles` and `OwedBlocks`.  `handle[t]` is what a handle holds
in memory, which is where `setConfigItem` writes and `getErrorNum` reads.
`left[t]` is the rest of an array being copied.  `Die` resets every thread and
leaves the world; `Define` and `Halt` are other tools and the containers
themselves.

### LxcAttach

The two halves of the three attach functions that are pure: `Options` is the
`lxc_attach_options_t` they build (flags as a set, masked as the code masks them
when there are groups), `RunWaitAnswer` and `ShellAnswer` are the numbers they make
of a wait status, which is the integer waitpid(2) gives.

### Sessions

| action | code (line numbers of `jni-wrapper.c`) |
|---|---|
| `JNI_OnLoad` | 477-507: the library loads and registers its methods, or does not |
| `Send`, `Receive` | a call waits in the driver's `queue`; an idle thread takes it and pins its names |
| `ContainerNew`, `ContainerNewFails` | 343-357 |
| `CopyArg`, `ReleaseArg` | 358-364: one round of the argument loop in two steps, since other threads may allocate in between |
| `nativeAttachRunWait`, `Reap` | 370-372: the process is started from what lies at the addresses *then*, waited for, reaped |
| `nativeAttachNoWait` | 421-423: the process is started and forgotten |
| `nativeConsole`, `ConsoleEnds` | 326: a terminal for as long as the session lasts; the answer says whether it ended without an error |
| `nativeGetConsoleFd` | 302: a terminal taken for good |
| `Fault` | an empty `argv` is a null pointer the binding reads (`lxc-binding.c` 343, 449) |
| `Return` | 374-383 |

`argv` holds the pointers a thread has stored, `mem` what lies at each address,
`live` the addresses not released.  A released address is free for the next copy,
which is how reading one can yield another string.  (What the allocator itself
writes into a released block is not modelled: any word read there is one that was
once copied.)  `held` counts what a thread owns, `proc` the attached processes
with the command they were asked for and the one they got, `tty` the terminals.
`Die` ends everything a process owns.  `nativeIsRunning` stands for the short
calls; what those do is `JniWrapper`'s.

### LxcBinding

The functions of `lxc-binding.c` that no native method calls, and in small steps
those that take several calls to the library.  `CallMember` is any function that
hands its arguments to a member of the handle; `RunOutcomes` and `SnapshotOutcomes`
say what each of them may do to the container.  The functions under `#if` ask
`VERSION_AT_LEAST` of `build`; the tables `Since...` hold the versions they ask for,
as the `#if`s name them, and `StandIn` the versions below which `lxc-binding.h` itself
defines the type of an argument.
`passed` remembers the function called last, whether it reached the library and
with what.  `jni_lxc_migrate`, `jni_lxc_create`, rename and
restore, the edits of the handle's configuration, and `save_config` are actions of
their own.  `jni_lxc_clone` is two: the library returns a handle on the new container,
which `refs` counts, and `PutClone` puts it.  The three readers are `Probe`, `Malloc`, `Fetch`; between them the
container and its cgroup files change.  `jni_lxc_attach` starts a shell and waits;
what `waitpid` returns is a step each:

| `waitpid` | Action | Answer |
|---|---|---|
| the status of a shell that has ended | `wait_for_pid_status` | exit code, or signal |
| -1, `EINTR` | `WaitInterrupted`, then `WaitAgain` | |
| -1, any other number (`ECHILD` among them) | `WaitFails`, then `WaitGivesUp` | -1 |

`ShellTaken` is external: something else in the process has reaped the shell, or
SIGCHLD is ignored, so that `waitpid` can only fail.  A shell whose wait is given up
while it still runs is not followed further: nobody holds its number.

### LxcManager

A thread in `Lister` runs `listContainers`, `listRunningContainers` or
`listStoppedContainers`: `Begin`, then `Transact`/`Answer` (or `Lost`) for the
names and once for each name, `Finish`, `Return`.  The other threads make single
calls.  `ran`, `rested`, `steady` and `cut` are history: what was true of the
containers while the list was made, and whether a call of it failed.  They
constrain no step.

### EndToEnd

The composition of the client library with the native methods.  It extends
`JniWrapper` and takes the client's half of each step from an instance `App` of
`LxcManager`, with `req <- call` and `out <- Out`, the mapping under which the
wrapper implements the service:

| action | client | native method |
|---|---|---|
| `Transact` | `Asks` | `Receive`: the strings are pinned |
| `Serve` | | any step between the entry and the return, the service's threads |
| `Answer` | `Takes`, of what the method built | `Reply` |
| `AppStep`, `Lost` | `Begin`, `Finish`, `Return`; `Lost` | |
| `SingleCall`, `ServiceDies`, `Device` | | as in `JniWrapper` |

`AllSpec` is thus a listing whose every call takes as many steps as the method that
serves it.  Which steps count as the failure of a call, for the history of the
listing, is `GivesUp` of `JniWrapper`: no handle, no array where there was one.
`ImplementsManager` says that all this is `LxcManager`, `ListsAreTrue` what follows
for the lists.

### AppUi

The UI thread handles one message at a time (`UiIdle`), except that
`updateContainerInfo` reads the name and makes four synchronous service calls, between which other
*threads* run: `RunNext` starts it, `ReadInfo` reads a line, `ShowInfo` sets the
text.  A `Worker` is a `new Thread(...)`: `check`, `ask`, `confirm`, `assign` for a
selection, `call`, `perform` for an operation, then `post`.  `note` is the
runnable it posts.  The field `currentContainer` is read by `ReadCurrent` when the
thread runs, as in the code.  `PerformCall` may lose its reply: the operation took
effect and the process is dead.  `crashed` is an exception on the UI thread.

## Checks

| Run | Question | Bounds |
|---|---|---|
| `wrapper_all` | types, exact accounting (no leak, no double free), no use after free, refinement of `LxcService`; a method only comes nearer to its reply | 2 threads, 1 container, 1 key, 2 interfaces, 1 snapshot, all 14 operations |
| `wrapper_list` | accounting and refinement for lists of several containers that change under the copy; every call returns | 2 threads, 2 containers, list, destroy, read a key |
| `manager` | the client's state; what listings of running and of stopped containers say; a listing only comes nearer to its end | 1 lister, 1 other thread, 2 containers, all 14 operations, no snapshots |
| `end_to_end` | a listing made of the steps of native methods is one of `LxcManager`; what its list says was true; it ends | 1 lister, 1 other thread, 2 containers, start |
| `ui` | no crash while the activity lives; what stays on screen is current | 2 workers, 2 containers, all 6 operations |
| `ui_live` | every click is answered | 2 workers, 1 container that may stop by itself, start, destroy |
| `sessions` | what threads own, whose process is whose, what answers tell; a full queue is served | 2 threads, 1 waiting call, one call of each operation, no or one argument, 2 processes, 1 terminal, exit codes 9 and 255, signal 9 |
| `binding` | handles and clones, whole reads, the macro orders versions and no stand-in type reaches the library, the shell reaped and its exit code returned unless the wait fails; calls return | 1 thread, 2 containers others change, 1 key, cgroup texts of two lengths, exit code 9 and signal 9, the repository's version, 2.0.3 and 1.0.11 |

Runs that show a disagreement between the code and what it says of itself:

| Run | Shows |
|---|---|
| `history_config` | `setConfigItem` answers true and changes nothing: the handle is put without `save_config` |
| `ui_torn` | the information of "the current container" mixes two |
| `ui_reconnect` | "please wait for connection" after a connection that gave a manager is lost, when nothing will connect |
| `sessions_argv` | an attach with two arguments starts another command than the one asked for: each copy is released in the loop that makes it |

Seen in the code, modelled as it is, and contradicted by no text that a run could
check:

* With groups, the attach functions apply `attach_flags &= LXC_ATTACH_SETGROUPS`
  (`lxc-binding.c` 331, 382, 437): the other flags are dropped, and this one too
  unless the caller gave it.  The native methods pass no groups.
* An attach without arguments ends the root process (`Fault`).
* `nativeAttachRunWait` answers with a wait status, `jni_lxc_attach` with an exit
  code; exit code 255 is -1, the number of a failure.
* `nativeGetConsoleFd` takes a terminal that nothing gives back, and returns a
  number that means nothing in the client's process.
* `jni_lxc_console_log` refuses with `false`, as an `int` the number of success.
* `nativeGetErrorNum` reads the number of a handle it has just made.
* `LxcManager.isServiceAvailable` is true of a dead service, and a container whose
  `isRunning` call is lost is listed as stopped.

**Why the bounds are enough.**  Native methods share only `world`, and each works
on one container (the list on all): two threads give every pair of methods racing,
two containers a loop with more than one round, two interfaces likewise.  (No safety
property of a passing run rests on these bounds: the theorems below hold without
them.  Liveness and the disagreements do.)
A listing meets the others only through the service, so one other thread that makes
any sequence of calls stands for many; a second container lets an answer be about
the wrong one.  In `end_to_end` the other thread only starts containers, since what
the other calls do to a listing is asked by `manager`, and the lister's own methods
are there in full; a second container gives the copied array a second round.  In the activity every race is between two threads on
`currentContainer` or on the queue, and a second container lets a thread act on
another one than the screen shows.  In `sessions` two threads
are a pool that one session and one waiting attach exhaust while a call waits; two
processes let a wait meet one that is not its own; one terminal is the limit at
which a console finds none.  Strings have no identity beyond the address they are copied to,
so that one argument is enough there, and `sessions_argv` needs two.  In `binding` a
thread shares nothing with others but the containers, and `Device` changes those as
any other thread would; a second container is what `clone` and `rename` make.  The
three versions give every gate both answers, 2.0.3 by its major, minor and micro
number.  `Worker` bounds the
threads whose work is not yet on the screen, `MaxSnaps` the snapshots (one in
`wrapper_all`; none where no property looks at them, and in the activity a snapshot
only shows a toast), and `Reads` is the number of lines of `updateContainerInfo`.

Deadlock is checked in the wrapper, manager, end-to-end, session and binding runs.  It is
not in the activity's, because the app may stop: the activity is destroyed or has
crashed and nothing is left to do.

**Symmetry** is used over threads and containers in runs of safety properties only,
where nothing distinguishes them; the runs under fairness use none.

**Fairness.**  `JniWrapper!FairSpec`: a method that can take a step takes one, since
the kernel schedules its thread and the modelled liblxc calls return (console and
attach are not among them).
`EndToEnd!FairAllSpec`: the same for the methods that serve a listing, and for the
thread that makes it once it has begun; the service need not live, and `Lost` is then
what its proxy answers.  `AppUi!FairSpec`: the looper runs what is
posted, threads are scheduled, and libsu delivers its callbacks.  `Sessions!FairSpec`: threads are scheduled, the driver hands out
calls in order, and sessions and attached processes end; this last is an
assumption about users and containers, without which one console per thread blocks
the service for ever.  `LxcBinding!FairSpec`: a clone's handle is put and
a wait that failed is given up, since these are the thread's own steps; `malloc` at
last succeeds and a shell ends, which are assumptions about memory and users; and a
wait for a shell that has ended, or that is not there, is not interrupted every time
(strong fairness, since an interrupted wait is not ready).  Apart from that no fairness is
assumed of users, of other tools, of containers or of death.

Definitions introduced by "A slip" are variants of the definition they precede with
one plausible mistake; no specification uses them.  Each shows that a property
would notice.

## Proofs

Every invariant and every action property of the passing runs, and both refinements,
is a theorem: TLC shows it on the instances above, TLAPS for all values of the
constants that meet the named assumptions.  Each inductive invariant was itself
checked by TLC on the instance of its run before it was proved.

`LxcLibProofs` holds what the others share: `LibraryTypes` (a library call gives a
record and a result of its method's signature), `ArraysFinite`, `RecordTypes`,
`LookupType`, `DefaultType`.  `LibAssumption` is behind all of them: containers and
interfaces are finite sets (the code counts them), `Unset` is not a value.

### JniWrapper

For every set of threads, finite set of containers and interfaces, workload and
bound on snapshots:

| Theorem | Statement |
|---|---|
| `TypeCorrect` | `Spec => []TypeOK` |
| `ExactAccounting` | `Spec => []Accounted` |
| `NothingFreedInUse` | `Spec => []NoUseAfterFree` |
| `WrapperImplementsService` | `Spec => ImplementsService` |
| `MethodsProgress` | `Spec => NearerToReply` |

*Assumptions.*  `WrapperAssumption`: `None` is neither a call, a handle nor a result,
and clients make calls of the interface.

*Argument.*  None of the invariants is inductive alone: that `pins` is right after
`Reply` depends on the call being the one received, that `handles` is right after
`FreeArrays` on the loop being that of a list, and that a result fits its signature
on which method reached the step.  The inductive invariant `IInv` therefore joins
the types, the accounting and `Phases` (which methods reach which step, and what is
in hand there), and it is local: `ThreadOK(t)` speaks of one thread, so each action is
shown once to keep it for the thread that takes the step and, by one lemma, for the
others.

*Refinement.*  `Out` maps each thread to the value it is bound to return.  For most
methods that is `ret` after the library call.  An array is decided when the library
returns it (what is copied plus what is left), and a configuration value when the
handle is opened, since the handle answers from memory.  Under that mapping each
action is one action of the service or a stutter.

*Termination.*  `Distance` counts the steps a method may still take: a natural number,
bounded when the method is entered by the number of containers and interfaces.
`NearerToReply` says that every step which touches the method lessens it, so that a
method whose thread is scheduled returns after boundedly many steps, for arrays of any
length; that the thread is scheduled is what `CallReturns` adds.

### Sessions

For every pool of threads, workload, number of arguments, processes and terminals:

| Theorem | Statement |
|---|---|
| `TypeCorrect` | `Spec => []SessionTypeOK` |
| `NothingLeaks` | `Spec => []HeldIsOwed` |
| `ProcessesOwned` | `Spec => []ProcessesAccounted` |
| `AnswerIsFate` | `Spec => AnswerTellsFate` |

*Assumptions.*  `SessionAssumption`: clients make calls of the interface, `None` and
`"kept"` are apart from what they stand beside, a process can end in some way, and
memory has room for one argument string of each of finitely many threads (the code
does not look at what `GetStringUTFChars` returns).  `AttachAssumption`: exit codes
are below 256, signals below 127.

*Argument.*  `HeldIsOwed` counts the copies in memory, and a count says nothing of
which are whose: after `ReleaseArg` it is right only if the address released is one
that was live.  `Copies` therefore says that each copying thread stored a live
address last, that no two of them stored the same, and that there are as many live
addresses as copying threads; finiteness and `FS_` facts about cardinality do the
rest.  `ProcessesAccounted` needs that only a waiting thread can be the `thread` of a
process, also when another thread attaches or the process table loses an entry:
`WaitOK` and `ProcessOK` are stated for one thread and one process, and the lemmas
`ProcessesKept`, `CopiesKept` and `TerminalsKept` carry them over the steps of others.
`AnswerTellsFate` is that invariant, together with `OnlyReapAnswers` (no other step
leads from the wait to an answer) and `WaitStatusInjective`, arithmetic about
`256 * code` and signals.

### LxcBinding

For every set of callers, containers, keys, texts and templates, and every set of
builds:

| Theorem | Module | Statement |
|---|---|---|
| `MacroOrdersVersions` | `LxcBindingProofs` | `VERSION_AT_LEAST(since) <=> Recent(since)` for any two versions |
| `GatesFollowMacro` | `LxcBindingProofs` | `Spec => []GatesCompareVersions` |
| `NoShellLeft` | `LxcBindingProofs` | `Spec => ShellReaped` |
| `AnswerDecodesExit` | `LxcBindingProofs` | `Spec => AnswerIsExitCode` |
| `BindingTypes` | `LxcBindingStateProofs` | `Spec => []BindingTypeOK` |
| `NoHandleLeaks` | `LxcBindingStateProofs` | `Spec => []RefsAreHandles` |
| `StandInsStayHome` | `LxcBindingStateProofs` | `Spec => []NoStandInPassed` |
| `TextsAreWhole` | `LxcBindingStateProofs` | `Spec => []ReadsAreWhole` |

*Assumptions.*  `BindingAssumption`, `AttachAssumption`: callers are finitely many,
version parts are below 100, `LXC_DEVEL` is 0 or 1, texts are sequences of any length,
`None` is not one of the values it stands beside.

*Argument.*  `MacroOrdersVersions` shows that the three comparisons of the macro agree with
the order of one number made of the three parts; the gated functions note what they
asked, and `TablesDisjoint` and `Ungated` that no other function's note is read as
one of them.  The versions in the tables are the code's own, so `GatesFollowMacro` says
what the comparison makes of them, not that liblxc gained a member in that release:
liblxc's history is not in the repository.  What the repository can be held to is that
two of its files agree, and that is `StandInsStayHome`: a gate of `lxc-binding.c` is
no lower than the one under which `lxc-binding.h` makes up a type.

`ShellReaped` and `AnswerIsExitCode` are about the step in which an attach returns.
`Inv` says which calls take several steps (`Calls`), that whoever has a shell is in
the wait for it (`Awaited`), the shell being a record whose fate, if any, is that of a
process, and what its options hold (`Grouped`).  With it `AttachEnds` shows that only
two steps end an attach: `wait_for_pid_status`, which has a shell that ended, and
`WaitGivesUp`, which answers -1.  `StatusDecoded` is then arithmetic about the wait
status.

`StateInv` adds the rest of the state.  `refs` is the number of callers with a handle
(`Held`) and of clones to be put (`CloneSet`).  The first changes only between calls,
as long as a caller in the middle of a call has a handle; the second grows by one
caller that was not cloning and shrinks by one that was, for which the call must be
told from those of readers and waits (`Known`).  `ReadsAreWhole` is
about an answer, while what makes it true is a block allocated two steps before, from
a length that may be out of date: `Reading` says that the block is one longer than
the length probed, and `WholeIfShort` that what the library writes into a block is the
whole text if it is shorter than the block, whatever the text has become.

### LxcManager

For every set of listing threads and other clients, finite set of containers, keys and
values:

| Theorem | Statement |
|---|---|
| `TypeCorrect` | `ManagerSpec => []ManagerTypeOK` |
| `RunningListIsSound` | `ManagerSpec => []RunningWereRunning` |
| `RunningListIsComplete` | `ManagerSpec => []RunningComplete` |
| `StoppedListIsSound` | `ManagerSpec => []StoppedWereStopped` |
| `ListingsProgress` | `ManagerSpec => NearerToEnd` |

*Assumptions.*  `ListerAssumption`: `None` is not a container, and there is a key and a
value to call with.

*Argument.*  The properties are about a list that is complete; what makes them true is
spread over many calls.  `Asking` ties the one call in flight to the phase of the
listing.  `Answered` says of a reply on its way back that it was true when the service
made it, in terms of the histories `ran`, `rested` and `steady`; since the first two only
grow and the last only shrinks (`Watched`), it stays true while the reply travels and
the containers change.  `Gathered` is the loop invariant: the names found are right, and
a container that ran all the while is among those found, still to be asked about, or
being asked about.  The other threads' calls and the containers' own steps keep all
three (`Undisturbed`).

`ListingsProgress` is about `Remaining`, a question and an answer for each name to come.
The names to ask about are known only when the first answer arrives; until then they
are at most the containers, and that answer is a set of containers by `Answered`.  An
answer lost with the process counts as an answer, and a name given up as a name asked
about, which is why a listing ends when the service dies.

### EndToEnd

For every set of listing threads and other clients, any calls of theirs, and every
finite set of containers and interfaces:

| Theorem | Statement |
|---|---|
| `ListingsThroughMethods` | `AllSpec => ImplementsManager` |
| `ListsThroughMethodsAreTrue` | `AllSpec => []ListsAreTrue` |

*Assumptions.*  `EndToEndAssumption`: `None` is not a container, there is a key and a
value, and the native methods serve whatever the listers and the others ask.

*Argument.*  `JniWrapperProofs` says what each step of a method is: a call entering or
leaving (`ReceiveRefines`, `ReplyRefines`), its failure or its effect, or nothing that
a client sees (`ProceedRefines`).  The client's half of a step is `LxcManager`'s own,
and the value it takes is the one the mapping promised (`WhenDecided`).  What is left
is the history: a step that a client cannot see is a stutter only if watching it adds
nothing to `ran`, `rested` and `steady`, which is so as long as they are up to date
with the containers (`Recorded`, an invariant because every step is watched).  With
the refinement the theorems of `LxcManagerProofs`, taken from an instance of that
module under the same mapping, hold of the composition; that its assumptions are met
is `ClientAssumptions`.  So the chain from the steps of `jni-wrapper.c` to what a
list of `LxcManager` may say is one of theorems.

### AppUi

For every set of background threads, containers and operations that can be clicked:

| Theorem | Statement |
|---|---|
| `TypeCorrect` | `Spec => []TypeOK` |
| `NoCrashWhileAlive` | `Spec => []CrashOnlyAfterDestroy` |
| `DisplaySettles` | `Spec => []SettledDisplayIsCurrent` |

*Assumptions.*  `AppAssumption`: the operations are those of the menu, `None` is neither
a container nor a text.

*Argument.*  That no exception escapes depends on `currentContainer` staying set while
`updateContainerInfo` reads (`ReadingCurrent`): null is assigned only by messages of the
UI thread, which come before or after an update, and a background thread assigns a
container.  `SettledDisplayIsCurrent` says
nothing before everything is settled, so its strengthening is `Display`: unless a
thread is about to post, or has posted, that the information be read again (`Pending`),
what has been read so far, or is on the screen, is about the current container and up
to date.  Every step that changes the container, or which one is current, makes such a
thread; and a thread's runnable leaves the queue only when it is run, for which the
queue must hold each thread once (`QueueOK`).

### What is only model-checked

* Liveness: `CallReturns`, `EveryListingEnds`, `ClickAnswered`, `FullQueueIsServed`,
  `CallsReturn`.  Of the first two, `NearerToReply` and `NearerToEnd` prove the half
  that is a safety property.  The prover reasons neither about fairness nor about `ENABLED`.
* The four runs that show a disagreement: a counterexample is an execution, and needs
  no proof.

## What is abstracted or not modelled

* Strings are model values.  JNI's own failures (a NULL from `NewStringUTF`, a
  pending exception) are not modelled, nor is `malloc` returning NULL, which the
  binding retries.
* The first and second read of `jni_lxc_get_config_item` (152, 161) agree, because
  the handle belongs to one thread; its NULL paths are those of an unset key.
* Reading an array of `liblxc` is atomic: `list_defined_containers` returns the
  containers of one instant.
* Strings are pinned and released in one step each: only the thread itself uses
  them.
* `getUid` and `nativeGetVersion` return constants; `JNI_OnUnload` is empty.
* Of the attach options, what is copied unchanged (namespaces, personality, ids,
  descriptors, environment) is left out.  `jni_lxc_start`'s arguments, timeouts,
  paths and devices likewise.
* `jni_lxc_attach_run_wait` waits inside liblxc, where the wait is taken to succeed.
  An attached process that dumps core is not told from one killed without.
* What liblxc does inside a call, beyond the outcomes in `LxcLib` and in
  `RunOutcomes`, `SnapshotOutcomes`; its headers appear as the handle, the attach
  options and the version.
* `createContainer` is a stub; `attach`, `console` and the copying of text in the
  activity show a toast.
* Build files and resources have no behaviour.

## Plan

Done: all modules above; theorems for every safety property of the passing runs, for
both refinements from the native methods to the lists of the app, and for the measures
by which methods and listings come to an end.
Next, in this order:

1. Proofs: the same half of termination for `Sessions` and `LxcBinding`, where a loop
   waits for the outside (a process, a terminal, memory) between two steps.
2. `demoLxcFeatures` as a client of `LxcManager`: the three totals of the summary.
3. A client model in which a click names the container it was made for.
4. Runs are few and each answers one question: new properties join or replace
   existing ones where they ask the same.
