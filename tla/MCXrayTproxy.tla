----------------------------- MODULE MCXrayTproxy -----------------------------
(* Two hosts, one destination of each kind, one country set; configurations *)
(* that differ in clients, bypassed addresses and sets.                     *)
EXTENDS XrayTproxy

MCHosts     == {"hostA", "hostB"}
MCDests     == {"lan", "server", "vpn", "inRu", "elsewhere"}
MCLocal     == {"lan"}
MCIpSets    == {"ru"}
MCSetsOf    == [d \in MCDests |-> IF d = "inRu" THEN {"ru"} ELSE {}]
MCEndpoints == {"vpn"}

OneClient  == [clients |-> <<"hostA">>, bypass |-> <<"server">>, sets |-> <<"ru">>]
TwoClients == [clients |-> <<"hostB", "hostA">>, bypass |-> <<>>, sets |-> <<>>]
NoClients  == [clients |-> <<>>, bypass |-> <<"elsewhere">>, sets |-> <<"ru">>]
MCConfigs  == {OneClient, TwoClients, NoClients}
=============================================================================
