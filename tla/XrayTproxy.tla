------------------------------ MODULE XrayTproxy ------------------------------
(****************************************************************************)
(* lib/tproxy.sh: the transparent proxy, one iptables, ip or ipset call per *)
(* step.  The rules are rebuilt in place, the chain and its ipsets being in *)
(* use all the while.  The script runs alone (the CLI holds the lock, see   *)
(* VpnDirector); the firmware may reload the firewall at any moment, the    *)
(* script may be killed between any two calls, and a single iptables or     *)
(* "ipset add" call may fail on its own: iptables runs without -w and is    *)
(* refused while another holds the xtables lock, ipset refuses an entry it  *)
(* cannot parse.  Calls that only read are taken to succeed.                *)
(*                                                                          *)
(* A configuration is what config.sh reads of it:                           *)
(*   [clients |-> sequence of hosts, the paused ones left out,              *)
(*    bypass |-> xray.servers and the valid exclude_ips,                    *)
(*    sets |-> the exclude_sets, by the names their ipsets have]            *)
(****************************************************************************)
EXTENDS Netfilter, FiniteSets

CONSTANTS
    Hosts,         \* sources: LAN hosts
    Dests,         \* destinations
    LocalDests,    \* loopback, private, link-local, multicast, broadcast
    IpSets,        \* country and custom sets
    SetsOf,        \* SetsOf[d]: the sets that contain destination d
    Endpoints,     \* OpenVPN server addresses the router may resolve
    Configs,       \* the configurations
    NoIpset,       \* an ipset that does not exist
    Killable,      \* the script may be killed between two calls
    ModuleMayMiss, \* modprobe xt_TPROXY may fail
    MaxFailures    \* bound: calls that fail on their own in one invocation

Entries == [clients : Seq(Hosts), bypass : Seq(Dests), sets : Seq(IpSets)]

ASSUME LocalAssumption    == LocalDests \subseteq Dests /\ Endpoints \subseteq Dests
ASSUME SetsOfAssumption   == SetsOf \in [Dests -> SUBSET IpSets]
ASSUME ConfigsAssumption  == Configs \subseteq Entries /\ Configs # {}
ASSUME SentinelAssumption == \A S \in (SUBSET Hosts) \cup (SUBSET Dests) : NoIpset # S
ASSUME FlagAssumption     == {Killable, ModuleMayMiss} \subseteq BOOLEAN
ASSUME FailuresAssumption == MaxFailures \in Nat

\* The rules of XRAY_TPROXY; one stands for the seven that skip local ranges.
Protocols == {"tcp", "udp"}
NotClient == [test |-> "notClient", arg |-> "clients"]
Bypassed  == [test |-> "inSet", arg |-> "bypass"]
Local     == [test |-> "local", arg |-> "ranges"]
SetRule(s)   == [test |-> "country", arg |-> s]
ProxyRule(t) == [test |-> "proxy", arg |-> t]
ChainRules == {NotClient, Bypassed, Local} \cup {SetRule(s) : s \in IpSets}
              \cup {ProxyRule(t) : t \in Protocols}
Jump == [test |-> "jump", arg |-> XrayJump]     \* the rule of PREROUTING, as a rule that is due
ASSUME NoChainAssumption == NoChain \notin Seq(ChainRules)

\* In the order in which _tproxy_setup_iptables appends them.
RuleList(c) == << NotClient, Bypassed, Local >>
               \o [n \in 1..Len(c.sets) |-> SetRule(c.sets[n])]
               \o << ProxyRule("tcp"), ProxyRule("udp") >>

VARIABLES
    clientSet,   \* XRAY_CLIENTS_IPSET
    bypassSet,   \* XRAY_BYPASS_IPSET
    route,       \* "local default dev lo" is in XRAY_ROUTE_TABLE
    ipRule,      \* the ip rule of XRAY_FWMARK exists
    prerouting,  \* mangle/PREROUTING
    chain,       \* mangle/XRAY_TPROXY
    pc,          \* next call of the running script, "idle" when none runs
    cfg,         \* the configuration as the running, or last, invocation read it
    i,           \* position in the list being added
    outcome,     \* how the last invocation ended
    filled,      \* history: configuration clientSet was last filled for
    due,         \* history: rules asked of the chain, less those whose own call failed
    flushed,     \* history: the chain was empty when its rules were last added
    refused,     \* history: entries [clients, bypass] whose own ipset add failed
    endpoints,   \* history: OpenVPN addresses resolved for bypassSet and added
    failures,    \* history: calls that failed on their own in this invocation
    reloaded     \* history: the firewall was reloaded since the last start

sets    == <<clientSet, bypassSet>>
routing == <<route, ipRule>>
fw      == <<prerouting, chain>>
ghost   == <<filled, due, flushed, refused, endpoints, failures, reloaded>>
vars    == <<sets, routing, fw, pc, cfg, i, outcome, ghost>>

Init ==
    /\ clientSet = NoIpset /\ bypassSet = NoIpset
    /\ route = FALSE /\ ipRule = FALSE
    /\ prerouting = <<>> /\ chain = NoChain
    /\ pc = "idle" /\ cfg \in Configs /\ i = 1 /\ outcome = "none"
    /\ filled = cfg /\ due = {} /\ flushed = FALSE
    /\ refused = [clients |-> {}, bypass |-> {}] /\ endpoints = {}
    /\ failures = 0 /\ reloaded = FALSE

-----------------------------------------------------------------------------
(* Control flow.                                                            *)

Goto(label) == pc' = label /\ i' = 1 /\ UNCHANGED outcome
Stay == i' = i + 1 /\ UNCHANGED <<pc, outcome>>        \* next entry of the list
Exit(result) == pc' = "idle" /\ i' = 1 /\ outcome' = result

\* A call fails on its own, and the script is told so.
Fails == failures < MaxFailures /\ failures' = failures + 1

\* Every invocation reads the file, in which others have saved what they like.
Start(label) ==
    /\ pc = "idle"
    /\ pc' = label /\ i' = 1 /\ outcome' = "none" /\ reloaded' = FALSE /\ failures' = 0
    /\ cfg' \in Configs
    /\ refused' = [clients |-> {}, bypass |-> {}] /\ endpoints' = {}
    /\ UNCHANGED <<sets, routing, fw, filled, due, flushed>>

StartApply == Start("check")
StartStop  == Start("purgeJump")

\* _tproxy_check_module and _tproxy_check_required_ipsets: give up, status 0.
Check ==
    /\ pc = "check"
    /\ \/ ModuleMayMiss /\ Exit("skipped")
       \/ \E ipsets \in SUBSET IpSets :
              IF ToSet(cfg.sets) \subseteq ipsets THEN Goto("route") ELSE Exit("skipped")
    /\ UNCHANGED <<sets, routing, fw, cfg, ghost>>

\* _tproxy_setup_routing: what is missing of the route and the ip rule.
SetupRoute ==
    /\ pc = "route"
    /\ route' = TRUE
    /\ Goto("ipRule")
    /\ UNCHANGED <<sets, ipRule, fw, cfg, ghost>>

RuleNeededWithRoute == ~route
RuleNeeded == ~ipRule
SetupRule ==
    /\ pc = "ipRule"
    /\ ipRule' = (ipRule \/ RuleNeeded)
    /\ Goto("clients")
    /\ UNCHANGED <<sets, route, fw, cfg, ghost>>

-----------------------------------------------------------------------------
(* The ipsets: created when missing, flushed, filled entry by entry.        *)

Unflushed(s) == IF s = NoIpset THEN {} ELSE s
Flushed(s) == {}

FlushClients ==
    /\ pc = "clients"
    /\ clientSet' = Flushed(clientSet) /\ filled' = cfg
    /\ Goto("addClient")
    /\ UNCHANGED <<bypassSet, routing, fw, cfg, due, flushed, refused, endpoints, failures, reloaded>>

\* An entry that is refused costs a warning; the next one is added all the same.
AddClient ==
    /\ pc = "addClient"
    /\ \/ /\ i > Len(cfg.clients) /\ Goto("bypass")
          /\ UNCHANGED <<clientSet, refused, failures>>
       \/ /\ i <= Len(cfg.clients) /\ Stay
          /\ clientSet' = clientSet \cup {cfg.clients[i]}
          /\ refused' = [refused EXCEPT !.clients = @ \ {cfg.clients[i]}]
          /\ UNCHANGED failures
       \/ /\ i <= Len(cfg.clients) /\ Stay /\ Fails
          /\ refused' = [refused EXCEPT !.clients = @ \cup ({cfg.clients[i]} \ clientSet)]
          /\ UNCHANGED clientSet
    /\ UNCHANGED <<bypassSet, routing, fw, cfg, filled, due, flushed, endpoints, reloaded>>

FlushBypass ==
    /\ pc = "bypass"
    /\ bypassSet' = Flushed(bypassSet)
    /\ Goto("addBypass")
    /\ UNCHANGED <<clientSet, routing, fw, cfg, ghost>>

AddBypass ==
    /\ pc = "addBypass"
    /\ \/ /\ i > Len(cfg.bypass) /\ Goto("endpoints")
          /\ UNCHANGED <<bypassSet, refused, failures>>
       \/ /\ i <= Len(cfg.bypass) /\ Stay
          /\ bypassSet' = bypassSet \cup {cfg.bypass[i]}
          /\ refused' = [refused EXCEPT !.bypass = @ \ {cfg.bypass[i]}]
          /\ UNCHANGED failures
       \/ /\ i <= Len(cfg.bypass) /\ Stay /\ Fails
          /\ refused' = [refused EXCEPT !.bypass = @ \cup ({cfg.bypass[i]} \ bypassSet)]
          /\ UNCHANGED bypassSet
    /\ UNCHANGED <<clientSet, routing, fw, cfg, filled, due, flushed, endpoints, reloaded>>

\* The OpenVPN servers of nvram, as far as they can be resolved and added.
AddEndpoints ==
    /\ pc = "endpoints"
    /\ \E S \in SUBSET Endpoints : bypassSet' = bypassSet \cup S /\ endpoints' = S
    /\ Goto("chain")
    /\ UNCHANGED <<clientSet, routing, fw, cfg, filled, due, flushed, refused, failures, reloaded>>

-----------------------------------------------------------------------------
(* The chain.  _tproxy_setup_iptables is the condition of an if, where      *)
(* set -e has no effect: a call that fails is passed over, and the function *)
(* returns 0 at its end.                                                    *)

\* A chain that could not be flushed still owes what it owed and is asked again.
CreateChain ==
    /\ pc = "chain"
    /\ \/ /\ chain' = CreateFlushed(chain) /\ flushed' = TRUE
          /\ due' = ToSet(RuleList(cfg)) \cup {Jump}
          /\ UNCHANGED failures
       \/ /\ Fails
          /\ flushed' = FALSE /\ due' = due \cap ToSet(RuleList(cfg))
          /\ UNCHANGED chain
    /\ Goto("addRule")
    /\ UNCHANGED <<sets, routing, prerouting, cfg, filled, refused, endpoints, reloaded>>

AddRule ==
    /\ pc = "addRule"
    /\ LET rules == RuleList(cfg) IN
       \/ /\ i > Len(rules) /\ Goto("sync")
          /\ UNCHANGED <<chain, due, failures>>
       \/ /\ i <= Len(rules) /\ Stay /\ chain # NoChain
          /\ chain' = EnsureRule(chain, rules[i])
          /\ due' = due \cup (IF flushed THEN {rules[i]} ELSE {})
          /\ UNCHANGED failures
       \/ /\ i <= Len(rules) /\ Stay
          /\ \/ chain = NoChain /\ UNCHANGED failures
             \/ chain # NoChain /\ ~HasRule(chain, rules[i]) /\ Fails
          /\ due' = due \ {rules[i]}
          /\ UNCHANGED chain
    /\ UNCHANGED <<sets, routing, prerouting, cfg, filled, flushed, refused, endpoints, reloaded>>

SyncJump ==
    /\ pc = "sync"
    /\ Goto(IF InPlace(prerouting, XrayJump, 1) THEN "end" ELSE "purgeOld")
    /\ UNCHANGED <<sets, routing, fw, cfg, ghost>>

\* sync_fw_rule: delete the jump that is out of place, then insert one at 1
\* unless -C still finds one.
PurgeOld ==
    /\ pc = "purgeOld"
    /\ \/ prerouting' = DeleteRule(prerouting, XrayJump) /\ UNCHANGED failures
       \/ HasRule(prerouting, XrayJump) /\ Fails /\ UNCHANGED prerouting
    /\ Goto("insertJump")
    /\ UNCHANGED <<sets, routing, chain, cfg, filled, due, flushed, refused, endpoints, reloaded>>

InsertJump ==
    /\ pc = "insertJump"
    /\ \/ HasRule(prerouting, XrayJump) /\ UNCHANGED <<prerouting, due, failures>>
       \/ /\ ~HasRule(prerouting, XrayJump) /\ chain # NoChain
          /\ prerouting' = InsertRule(prerouting, 1, XrayJump)
          /\ UNCHANGED <<due, failures>>
       \/ /\ ~HasRule(prerouting, XrayJump)
          /\ (chain = NoChain /\ UNCHANGED failures) \/ (chain # NoChain /\ Fails)
          /\ due' = due \ {Jump}
          /\ UNCHANGED prerouting
    /\ Goto("end")
    /\ UNCHANGED <<sets, routing, chain, cfg, filled, flushed, refused, endpoints, reloaded>>

Finish ==
    /\ pc = "end"
    /\ Exit("applied")
    /\ UNCHANGED <<sets, routing, fw, cfg, ghost>>

-----------------------------------------------------------------------------
(* tproxy_stop.                                                             *)

PurgeJump ==
    /\ pc = "purgeJump"
    /\ \/ prerouting' = DeleteRule(prerouting, XrayJump) /\ UNCHANGED failures
       \/ HasRule(prerouting, XrayJump) /\ Fails /\ UNCHANGED prerouting
    /\ Goto("flushChain")
    /\ UNCHANGED <<sets, routing, chain, cfg, filled, due, flushed, refused, endpoints, reloaded>>

\* A chain that is already gone is no reason to leave the ipsets behind.
NothingLeft == "delRule"
WithoutChain == "destroy"

\* delete_fw_chain: -F, whose failure is ignored, then -X.
FlushChain ==
    /\ pc = "flushChain"
    /\ \/ chain = NoChain /\ Goto(WithoutChain) /\ UNCHANGED <<chain, failures>>
       \/ chain # NoChain /\ chain' = <<>> /\ Goto("dropChain") /\ UNCHANGED failures
       \/ chain # NoChain /\ Fails /\ Goto("dropChain") /\ UNCHANGED chain
    /\ UNCHANGED <<sets, routing, prerouting, cfg, filled, due, flushed, refused, endpoints, reloaded>>

\* -X is refused for a chain that is gone, has rules or is still jumped to;
\* then the script ends there (set -e).
MayDrop == chain = <<>> /\ ~HasRule(prerouting, XrayJump)
DropChain ==
    /\ pc = "dropChain"
    /\ \/ MayDrop /\ chain' = NoChain /\ due' = {} /\ Goto("destroy") /\ UNCHANGED failures
       \/ ~MayDrop /\ Exit("failed") /\ UNCHANGED <<chain, due, failures>>
       \/ MayDrop /\ Fails /\ Exit("failed") /\ UNCHANGED <<chain, due>>
    /\ UNCHANGED <<sets, routing, prerouting, cfg, filled, flushed, refused, endpoints, reloaded>>

\* ipset destroy, one after the other: without the chain nothing refers to them.
DestroyClients ==
    /\ pc = "destroy"
    /\ clientSet' = NoIpset
    /\ Goto("destroyBypass")
    /\ UNCHANGED <<bypassSet, routing, fw, cfg, ghost>>

DestroyBypass ==
    /\ pc = "destroyBypass"
    /\ bypassSet' = NoIpset
    /\ Goto("delRule")
    /\ UNCHANGED <<clientSet, routing, fw, cfg, ghost>>

DelRule ==
    /\ pc = "delRule"
    /\ ipRule' = FALSE
    /\ Goto("delRoute")
    /\ UNCHANGED <<sets, route, fw, cfg, ghost>>

DelRoute ==
    /\ pc = "delRoute"
    /\ route' = FALSE
    /\ Exit("stopped")
    /\ UNCHANGED <<sets, ipRule, fw, cfg, ghost>>

-----------------------------------------------------------------------------
(* Around the script.                                                       *)

Kill ==
    /\ Killable /\ pc # "idle"
    /\ Exit("killed")
    /\ UNCHANGED <<sets, routing, fw, cfg, ghost>>

\* Tunnel Director puts its own jump first, under the same lock.
TunJumpInserted ==
    /\ pc = "idle" /\ ~HasRule(prerouting, TunJump)
    /\ prerouting' = InsertRule(prerouting, 1, TunJump)
    /\ UNCHANGED <<sets, routing, chain, pc, cfg, i, outcome, ghost>>

FirewallReload ==
    /\ prerouting' = <<>> /\ chain' = NoChain
    /\ due' = {} /\ flushed' = FALSE /\ reloaded' = TRUE
    /\ UNCHANGED <<sets, routing, pc, cfg, i, outcome, filled, refused, endpoints, failures>>

Script ==
    \/ Check \/ SetupRoute \/ SetupRule \/ FlushClients \/ AddClient \/ FlushBypass
    \/ AddBypass \/ AddEndpoints \/ CreateChain \/ AddRule \/ SyncJump \/ PurgeOld \/ InsertJump
    \/ Finish \/ PurgeJump \/ FlushChain \/ DropChain \/ DestroyClients \/ DestroyBypass
    \/ DelRule \/ DelRoute

Next == \/ StartApply \/ StartStop \/ Script
        \/ Kill \/ TunJumpInserted \/ FirewallReload

Spec == Init /\ [][Next]_vars

-----------------------------------------------------------------------------
(* What the rules do to a packet from host h to destination d.              *)

Matches(r, h, d, t) ==
    CASE r.test = "notClient" -> h \notin clientSet
      [] r.test = "inSet"     -> d \in bypassSet
      [] r.test = "local"     -> d \in LocalDests
      [] r.test = "country"   -> r.arg \in SetsOf[d]
      [] r.test = "proxy"     -> r.arg = t

\* The packet is marked for the proxy: the first rule that matches is TPROXY.
Proxied(h, d, t) ==
    /\ HasRule(prerouting, XrayJump) /\ chain # NoChain
    /\ \E n \in 1..Len(chain) :
          /\ chain[n].test = "proxy" /\ Matches(chain[n], h, d, t)
          /\ \A m \in 1..(n - 1) : ~Matches(chain[m], h, d, t)

\* The reference: what configuration c asks for, as far as every rule in "rules"
\* and every entry not in "without" stands for itself.
Lets(c, rules, without, h, d) ==
    /\ NotClient \in rules => h \in ToSet(c.clients) \ without.clients
    /\ Bypassed \in rules => d \notin (ToSet(c.bypass) \ without.bypass) \cup endpoints
    /\ Local \in rules => d \notin LocalDests
    /\ \A s \in SetsOf[d] \cap ToSet(c.sets) : SetRule(s) \notin rules

\* Nothing was lost on the way: what the configuration asks for, and no less.
ShouldProxy(c, h, d) ==
    Lets(c, ToSet(RuleList(c)), [clients |-> {}, bypass |-> {}], h, d)

-----------------------------------------------------------------------------
(* Properties.                                                              *)

\* Type invariant: the ipsets hold hosts and destinations, the chain rules of
\* lib/tproxy.sh, and neither jump is in PREROUTING twice.
TypeOK ==
    /\ {cfg, filled} \subseteq Configs
    /\ clientSet = NoIpset \/ clientSet \subseteq Hosts
    /\ bypassSet = NoIpset \/ bypassSet \subseteq Dests
    /\ {route, ipRule} \subseteq BOOLEAN
    /\ prerouting \in {<<>>, <<TunJump>>, <<XrayJump>>,
                       <<TunJump, XrayJump>>, <<XrayJump, TunJump>>}
    /\ chain = NoChain \/ chain \in Seq(ChainRules)
    /\ i \in Nat \ {0}
    /\ due \subseteq ChainRules \cup {Jump} /\ {flushed, reloaded} \subseteq BOOLEAN
    /\ refused \in [clients : SUBSET Hosts, bypass : SUBSET Dests]
    /\ endpoints \subseteq Endpoints /\ failures \in Nat

\* While the chain and its ipsets are rebuilt under traffic, and after a kill or
\* a call that failed and was passed over, a packet is proxied only if every rule
\* the chain owes lets it through: it comes from a client of the configuration
\* being filled in, goes outside the local ranges and to no excluded set.  A rule
\* is no longer owed only when its own append has failed, and a chain that could
\* not be flushed owes what its old and its new configuration have in common.
NeverProxiesOthers ==
    \A h \in Hosts, d \in Dests, t \in Protocols :
        Proxied(h, d, t) =>
            /\ NotClient \in due => h \in ToSet(filled.clients)
            /\ Local \in due => d \notin LocalDests
            /\ \A s \in SetsOf[d] : SetRule(s) \notin due

\* A marked packet is always delivered to the proxy: the ip rule and the route
\* of the mark are there before the first mark and go after the last, also when
\* an apply or a stop is killed on its way or one of its calls fails.
MarkedIsRouted ==
    \A h \in Hosts, d \in Dests, t \in Protocols :
        Proxied(h, d, t) => ipRule /\ route

\* What "applied" stands for, as long as no reload came in between.  When no call
\* has failed, a packet is proxied if and only if the configuration asks for it,
\* whatever was there before.  A rule or an entry whose own call failed, and which
\* the script passed over, costs exactly what it stands for: every other rule and
\* entry is in force.  (Of a chain that could not be flushed nothing is claimed.)
AppliedExactly ==
    outcome = "applied" /\ ~reloaded =>
        \A h \in Hosts, d \in Dests, t \in Protocols :
            /\ failures = 0 => (Proxied(h, d, t) <=> ShouldProxy(cfg, h, d))
            /\ flushed =>
                  (Proxied(h, d, t) <=> /\ {Jump, ProxyRule(t)} \subseteq due
                                        /\ Lets(cfg, due, refused, h, d))

\* A stop that ran to its end has removed the jump, the chain, both ipsets, the
\* ip rule and the route, whatever an earlier kill, reload or failed call had left.
StopRemovesAll ==
    outcome = "stopped" =>
        /\ ~HasRule(prerouting, XrayJump) /\ chain = NoChain
        /\ clientSet = NoIpset /\ bypassSet = NoIpset
        /\ ~ipRule /\ ~route
=============================================================================
