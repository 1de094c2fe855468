--------------------------- MODULE MCTunnelDirector ---------------------------
(* A LAN host addressed singly (a) and through its network (net), a client  *)
(* outside the LAN ranges (wan), one country set, two slots.                *)
EXTENDS TunnelRouting

Tunnel(t, cs, xs) == [table |-> t, isObject |-> TRUE, clients |-> cs, exclude |-> xs]

MCTables      == {"wgc1", "ovpnc1", "main", "wgc9"}
MCValidTables == {"wgc1", "ovpnc1", "main"}
MCClients     == {"a", "net", "wan"}
MCLanClients  == {"a", "net"}
MCIpSets      == {"ru"}
MCHosts       == {"hostA", "hostB"}
MCDests       == {"inRu", "elsewhere"}
MCCovers      == [c \in MCClients |-> CASE c = "a" -> {"hostA"} [] c = "net" -> MCHosts
                                        [] OTHER -> {}]
MCSetsOf      == [d \in MCDests |-> IF d = "inRu" THEN {"ru"} ELSE {}]

\* Overlapping clients in two tunnels, the first with an exclusion.
Overlap == << Tunnel("wgc1", <<"a">>, <<"ru">>), Tunnel("ovpnc1", <<"net">>, <<>>) >>
\* The same clients, tunnels swapped, the exclusion in the other one.
Swapped == << Tunnel("ovpnc1", <<"net", "a">>, <<"ru">>) >>
\* Every way to be passed over, and one tunnel more than there are slots.
Passed  == << Tunnel("wgc9", <<"a">>, <<>>),
              [table |-> "main", isObject |-> FALSE, clients |-> <<>>, exclude |-> <<>>],
              Tunnel("wgc1", <<"wan">>, <<>>), Tunnel("ovpnc1", <<"wan", "a">>, <<"ru">>),
              Tunnel("main", <<"net">>, <<>>) >>

MCConfigs == {<<>>, Overlap, Swapped, Passed}
=============================================================================
