--------------------------- MODULE WrapperHistory ---------------------------
(***************************************************************************)
(* JniWrapper with a memory of what earlier calls were told, to ask what   *)
(* one call may rely on of an earlier one.  The extra variable records and *)
(* never constrains a step.  The process does not die here.                *)
(***************************************************************************)
EXTENDS JniWrapper

VARIABLE acked  \* the last value whose setting was answered with true

HistoryInit ==
    /\ Init
    /\ acked = [c \in Container |-> EmptyConf]

\* This step answers true to the setting of key k of container c.
Confirms(t, c, k) ==
    /\ pc[t] = "unpin" /\ pc'[t] = "idle"
    /\ call[t].op = "setConfigItem" /\ ret[t] = JNI_TRUE
    /\ call[t].c = c /\ call[t].key = k

\* A container that comes or goes starts without a history.
NowAcked(c, k) ==
    LET by == {t \in Thread : Confirms(t, c, k)}
    IN  IF world'[c].defined # world[c].defined \/ ~world[c].defined THEN Unset
        ELSE IF by = {} THEN acked[c][k]
        ELSE call[CHOOSE t \in by : TRUE].val

HistoryNext ==
    /\ \/ \E t \in Thread : (\E q \in Workload : Receive(t, q)) \/ Proceed(t)
       \/ \E c \in Container : Define(c) \/ Halt(c)
    /\ acked' = [c \in Container |-> [k \in Key |-> NowAcked(c, k)]]

HistorySpec == HistoryInit /\ [][HistoryNext]_<<vars, acked>>

-----------------------------------------------------------------------------
\* LxcContainer.setConfigItem ("Set configuration item") and getConfigItem
\* ("Get configuration item"): the value a read returns is the one the last
\* setting of the key was confirmed for.
ReadYourWrites ==
    \A t \in Thread :
        (pc[t] = "put" /\ call[t].op = "getConfigItem") =>
            acked[call[t].c][call[t].key] = Unset
            \/ ret[t] = Str(acked[call[t].c][call[t].key])
=============================================================================
