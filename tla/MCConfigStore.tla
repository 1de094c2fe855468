---------------------------- MODULE MCConfigStore ----------------------------
(* Two web requests and the bot; one client, xray and one tunnel; two lists *)
(* of servers; operations of every kind.                                    *)
EXTENDS ConfigStore, TLC

CONSTANTS r1, r2, c, t, x, ru, A, B, ipA, ipB

MCRequests == {r1, r2}
MCClients  == {c}
MCTunnels  == {t}
MCExcluded == {x}
MCSets     == {ru}
MCServers  == {A, B}
MCLists    == {<<A>>, <<B, A>>}
MCIPsOf    == [s \in MCServers |-> IF s = A THEN {ipA} ELSE {ipB}]

Of(kind)       == [kind |-> kind, client |-> c]
To(kind, r)    == [kind |-> kind, client |-> c, route |-> r]
Imports        == {[kind |-> "import", list |-> l] : l \in MCLists}
Wizard         == [kind |-> "wizard", xray |-> {}, tunnels |-> [u \in MCTunnels |-> {c}],
                   exips |-> {}, exsets |-> ru, index |-> 1]

\* Those that differ in the files they touch and in what they do when they fail.
SomeWebOps == {To("add", t), Of("pause"), Of("delete"), [kind |-> "select", index |-> 2]} \cup Imports
SomeBotOps == {Of("botRemove"), To("botAdd", Xray), Wizard, [kind |-> "import", list |-> <<A>>]}

=============================================================================
