----------------------------- MODULE MCSessions -----------------------------
(* Sessions on small instances. *)
EXTENDS Sessions

CONSTANT MCArgvs  \* the arguments of an attach

MCCall(op, args, flags) == [op |-> op, argv |-> args, clear |-> FALSE, flags |-> flags]

\* One call of each operation; a waiting attach also with each of the
\* arguments given.
MCWorkload ==
    {MCCall("attachRunWait", args, Flag) : args \in MCArgvs}
        \cup {MCCall("attachNoWait", <<w>>, {}) : w \in Word}
        \cup {MCCall(op, <<>>, {}) : op \in {"console", "getConsoleFd", "isRunning"}}

\* No argument, or one.
MCNoneOrOne == {<<>>} \cup {<<w>> : w \in Word}

\* Two different words.
MCTwoWords == {<<v, w>> : <<v, w>> \in {x \in Word \X Word : x[1] # x[2]}}
=============================================================================
