---------------------------- MODULE MCVpnDirector ----------------------------
(* Two invocations at a time; configurations that differ in their tunnels,  *)
(* one without tunnels, one that cannot be read.                            *)
EXTENDS VpnDirector, TLC

Cmd(v, k) == [verb |-> v, comp |-> k]

CONSTANTS p1, p2, c1, c2, empty, bad
MCProcs   == {p1, p2}
MCUsable  == {c1, c2}
MCConfigs == {c1, empty, bad}
MCEmpty   == {empty}
MCBad     == {bad}

\* All commands that change the router, and one that only takes the lock.
AllCommands == {Cmd(v, k) : v \in {"apply", "stop", "restart"}, k \in Comps}
                 \cup {Cmd("update", "all"), Cmd("dryrun", "all")}
\* One of every kind; "apply" on everything is what firewall-start runs.
SomeCommands == {Cmd("stop", "all"), Cmd("restart", "all"), Cmd("apply", "tunnel")}

\* Those that take nothing away.
ApplyCommands == {Cmd("apply", "all")}

Symmetry == Permutations(MCProcs)
=============================================================================
