----------------------------- MODULE LxcAttach ------------------------------
(***************************************************************************)
(* What the three attach functions of lxc-binding.c compute: the options   *)
(* they hand to liblxc, and the number they make of the way the attached   *)
(* process ended.  Flags are sets of flags instead of bit masks; a wait    *)
(* status is the integer waitpid(2) gives.                                 *)
(***************************************************************************)
EXTENDS Integers

CONSTANTS
    Flag,       \* the LXC_ATTACH_ flags in use
    SETGROUPS,  \* the one that asks for additional groups
    Gid,        \* additional groups
    Code,       \* exit codes in use
    Signal      \* signals that end a process

ASSUME AttachAssumption ==
    /\ SETGROUPS \in Flag
    /\ Code \subseteq 0..255
    /\ Signal \subseteq 1..126

\* lxc_attach_options_t; what is copied from the arguments unchanged, and
\* what stays at its default, is left out.
AttachOptions ==
    [env_policy : {"LXC_ATTACH_KEEP_ENV", "LXC_ATTACH_CLEAR_ENV"},
     attach_flags : SUBSET Flag,
     groups : SUBSET Gid]

\* A slip: the mask is applied whether there are groups or not.
OptionsMasked(clear_env, attach_flags, groups) ==
    [env_policy |-> IF clear_env THEN "LXC_ATTACH_CLEAR_ENV" ELSE "LXC_ATTACH_KEEP_ENV",
     attach_flags |-> attach_flags \cap {SETGROUPS},
     groups |-> groups]

\* The options built from the arguments.  With groups the flags are masked
\* by the one flag, which drops all the others.
Options(clear_env, attach_flags, groups) ==
    [env_policy |-> IF clear_env THEN "LXC_ATTACH_CLEAR_ENV" ELSE "LXC_ATTACH_KEEP_ENV",
     attach_flags |-> IF groups = {} THEN attach_flags ELSE attach_flags \cap {SETGROUPS},
     groups |-> groups]

-----------------------------------------------------------------------------
(* How a process ends *)

Fate == [how : {"exit"}, code : Code] \cup [how : {"signal"}, code : Signal]

\* The status of waitpid; a core dump is not told apart.
WaitStatus(f) == IF f.how = "exit" THEN f.code * 256 ELSE f.code

WIFEXITED(status) == status % 128 = 0
WEXITSTATUS(status) == (status \div 256) % 256

\* A slip: the status is decoded, as the shell's is.
RunWaitDecoded(status) ==
    IF WIFEXITED(status) THEN WEXITSTATUS(status) ELSE status

\* jni_lxc_attach_run_wait: the status as it is, and -1 for exit code 255.
RunWaitAnswer(status) ==
    IF WIFEXITED(status) /\ WEXITSTATUS(status) = 255 THEN -1 ELSE status

\* A slip: the status is not decoded.
ShellUndecoded(status) == status

\* jni_lxc_attach: the exit code, or the status of a process that was killed.
ShellAnswer(status) ==
    IF WIFEXITED(status) THEN WEXITSTATUS(status) ELSE status
=============================================================================
