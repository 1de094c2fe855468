---------------------------- MODULE TunnelRouting ----------------------------
(****************************************************************************)
(* What Tunnel Director's rules do to traffic, and what they ought to do:   *)
(* the chain, the jump and the ip rules evaluated on a packet, against a    *)
(* reference decision taken from the configuration alone.                   *)
(****************************************************************************)
EXTENDS TunnelDirector

CONSTANTS
    Hosts,      \* LAN hosts
    Dests,      \* destinations
    Covers,     \* Covers[c]: the hosts the client entry c matches
    SetsOf      \* SetsOf[d]: the country sets that contain destination d

ASSUME CoversAssumption == Covers \in [Clients -> SUBSET Hosts]
                           /\ SetsOf \in [Dests -> SUBSET IpSets]

-----------------------------------------------------------------------------
(* The kernel.  A MARK rule matches unmarked packets only, so the first     *)
(* rule that matches a packet decides its slot; RETURN leaves it unmarked.  *)

Matches(r, h, d) == h \in Covers[r.client] /\ (r.set = NoSet \/ r.set \in SetsOf[d])

SlotGiven(h, d) ==
    IF chain = NoChain THEN 0
    ELSE LET p == SelectInSeq(chain, LAMBDA r : Matches(r, h, d))
         IN  IF p = 0 THEN 0 ELSE chain[p].slot

Route(h, d) ==
    LET n == IF HasRule(prerouting, TunJump) THEN SlotGiven(h, d) ELSE 0
    IN  IF n = 0 \/ ipRules[n - 1] = NoTable THEN "main" ELSE ipRules[n - 1]

-----------------------------------------------------------------------------
(* The reference: the first tunnel with a LAN client entry for the host     *)
(* decides; a destination it excludes, and every other host, goes direct.   *)

Usable(c) == {n \in 1..Len(c) :
                 c[n].table \in ValidTables /\ c[n].isObject /\ c[n].clients # <<>>}
SlotNumber(c, n) == Cardinality({m \in Usable(c) : m <= n})
Served(c) == {n \in Usable(c) : SlotNumber(c, n) <= FieldMax}

ServingTunnels(c, h) ==
    {n \in Served(c) : \E k \in 1..Len(c[n].clients) :
        c[n].clients[k] \in LanClients /\ h \in Covers[c[n].clients[k]]}

Excluded(e, sets, d) == ToSet(e.exclude) \cap sets \cap SetsOf[d] # {}

\* The tunnel that should carry the packet, 0 for none.
Decision(c, sets, h, d) ==
    LET S == ServingTunnels(c, h)
    IN  IF S = {} \/ Excluded(c[Min(S)], sets, d) THEN 0 ELSE Min(S)

TableOf(c, n) == IF n = 0 THEN "main" ELSE c[n].table

-----------------------------------------------------------------------------
(* Properties.                                                              *)

\* Type invariant: the script's variables, the chains and the ip rules stay
\* within the values tunnel.sh gives them.
TypeOK ==
    /\ config \in Configs /\ tun \in Configs /\ built \in Configs
    /\ hash \in Configs \cup {NoHash}
    /\ ipsets \subseteq IpSets /\ builtSets \subseteq IpSets
    /\ prerouting \in Seq(PreroutingRules)
    /\ chain = NoChain \/ chain \in Seq(ChainRules)
    /\ ipRules \in [Prefs -> Tables \cup {NoTable}]
    /\ basePos \in Nat \ {0} /\ entry \in Nat \ {0} /\ cl \in Nat \ {0} /\ ex \in Nat \ {0}
    /\ idx \in 0..FieldMax
    /\ op \in {"apply", "stop"}
    /\ faults \subseteq {"kill", "iprule", "lost", "shifted"}

\* As long as no "ip rule add" has failed, whenever the hash file, the chain and
\* the jump are all there, every packet goes where the certified configuration
\* sends it, although the script may have been killed between any two calls
\* before (tunnel_apply, the rebuild and the hash saved last).
CertifiedRouting ==
    /\ "iprule" \notin faults
    /\ hash # NoHash /\ chain # NoChain /\ HasRule(prerouting, TunJump)
    => \A h \in Hosts, d \in Dests :
            Route(h, d) = TableOf(hash, Decision(hash, builtSets, h, d))

\* A chain that is only partly built, or was left so by a kill, never marks a
\* packet the complete chain would not mark, nor with another slot: the
\* exclusions of a client come before its mark, the tunnels in order.
PartialChainMarksLess ==
    \A h \in Hosts, d \in Dests :
        LET n == Decision(built, builtSets, h, d)
        IN  SlotGiven(h, d) \in {0, IF n = 0 THEN 0 ELSE SlotNumber(built, n)}

\* While the script is never killed, no packet is ever routed into a tunnel
\* other than its own: not during a rebuild, a stop or a firewall reload, and
\* not by an ip rule an older configuration left behind.
NeverMisrouted ==
    "kill" \notin faults => \A h \in Hosts, d \in Dests :
        Route(h, d) \in {"main", TableOf(built, Decision(built, builtSets, h, d))}

\* Unless a run was cut short - by a kill, or by set -e after a firewall reload
\* took its chain - a certified configuration leaves no ip rule of an older one:
\* tunnel_stop clears the whole preference range first.  A rebuild cut short
\* leaves its ip rules without a hash, and nothing clears them (README, section 7).
NoOrphanIpRules ==
    faults \cap {"kill", "lost"} = {} /\ pc = "idle" /\ hash # NoHash =>
        \A p \in Prefs : ipRules[p] # NoTable =>
            \E n \in Served(hash) : SlotNumber(hash, n) = p + 1 /\ ipRules[p] = hash[n].table

\* A stop that ran to its end has removed all of it - jump, chain, every ip
\* rule of the range and the hash - whatever an earlier kill had left, and
\* until the next invocation nothing brings it back.
StopLeavesNothing ==
    outcome = "stopped" =>
        /\ ~HasRule(prerouting, TunJump) /\ chain = NoChain
        /\ \A p \in Prefs : ipRules[p] = NoTable
        /\ hash = NoHash

\* Once a configuration with tunnels stays saved, nobody stops the director,
\* kills it or reloads the firewall any more, the repeated applies certify it and
\* keep its chain, from whatever state the kills, reloads and earlier configurations
\* left.  The jump comes with it, wherever VPN clients of the firmware that come
\* up or go down have moved its position, unless the script was killed or one of
\* them went down between the reading of the position and its use: a jump lost
\* then is taken for "up-to-date" and stays lost (README, section 7).
Converges ==
    \A c \in Configs \ {<<>>} :
        <>[](config = c /\ op = "apply") /\ <>[][~FirewallReload /\ ~Kill]_vars =>
            /\ <>[](hash = c /\ chain # NoChain)
            /\ [](faults \cap {"kill", "shifted"} = {}) => <>[]HasRule(prerouting, TunJump)
=============================================================================
