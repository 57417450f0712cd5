---------------------------- MODULE MCLxcBinding ----------------------------
(* LxcBinding on small instances. *)
EXTENDS LxcBinding

\* The library of the repository, one recent enough for some functions only,
\* its minor smaller than some of those asked for, and one older than all.
MCBuild ==
    {[version |-> <<6, 0, 0>>, LXC_DEVEL |-> 1],
     [version |-> <<2, 0, 3>>, LXC_DEVEL |-> 0],
     [version |-> <<1, 0, 11>>, LXC_DEVEL |-> 0]}

\* Texts none of which is the beginning of another.
MCValue == {<<2, 2>>}
MCItem == {<<1>>, <<2, 2>>}

\* No template by accident, and one that is asked for.
MCTemplate == {"no", "download"}
=============================================================================
