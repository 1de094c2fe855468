---------------------------- MODULE TunnelDirector ----------------------------
(****************************************************************************)
(* lib/tunnel.sh: Tunnel Director, one iptables or ip call per step.  The   *)
(* script runs alone (the CLI holds the lock, see VpnDirector); it shares   *)
(* the kernel with the firmware, which reloads the firewall and brings VPN  *)
(* clients up and down at any moment, and it may be killed between any two  *)
(* calls.                                                                   *)
(*                                                                          *)
(* A configuration is the value of TUN_DIR_TUNNELS_JSON, a sequence (the    *)
(* order of the keys in the JSON object) of entries                         *)
(*   [table |-> the key, isObject |-> the value is a JSON object,           *)
(*    clients |-> sequence of sources, exclude |-> sequence of ipset names] *)
(* with the paused clients already removed, names in lower case, and <<>>   *)
(* for an "exclude" that is no array.  The hash file is modelled by the     *)
(* configuration it is the SHA-256 of.                                      *)
(****************************************************************************)
EXTENDS Netfilter, FiniteSets

CONSTANTS
    Tables,          \* keys found under tunnel_director.tunnels
    ValidTables,     \* wgcN and ovpncN of rt_tables, and main
    Clients,         \* client entries: addresses or CIDR blocks
    LanClients,      \* those is_lan_ip accepts
    IpSets,          \* country sets an entry may exclude
    Configs,         \* the values TUN_DIR_TUNNELS_JSON takes
    FieldMax,        \* slots of the fwmark field: mark_mask >> mark_shift
    MaxSysMarks,     \* bound: firmware mark rules in PREROUTING at once
    NoHash,          \* no hash file: read as the hash of ""
    Killable,        \* the script may be killed between two calls
    IpRuleMayFail    \* "ip rule add" may fail

NoTable == "notable"     \* no ip rule at this preference
NoSet   == "noset"

Entries == [table : Tables, isObject : BOOLEAN,
            clients : Seq(Clients), exclude : Seq(IpSets)]
Slots   == 1..FieldMax
Prefs   == 0..(FieldMax - 1)          \* preference minus TUN_DIR_PREF_BASE

ASSUME FieldMaxAssumption == FieldMax \in Nat
ASSUME ConfigsAssumption  == Configs \subseteq Seq(Entries) /\ <<>> \in Configs
ASSUME SentinelAssumption == NoTable \notin Tables /\ NoSet \notin IpSets /\ NoHash \notin Configs
ASSUME FlagAssumption     == Killable \in BOOLEAN /\ IpRuleMayFail \in BOOLEAN
ASSUME BoundAssumption    == MaxSysMarks \in Nat

\* The two rules tunnel_apply puts in the TUN_DIR chain.
ReturnRule(c, s) == [client |-> c, set |-> s, slot |-> 0]
MarkRule(c, n)   == [client |-> c, set |-> NoSet, slot |-> n]
ChainRules == [client : Clients, set : IpSets \cup {NoSet}, slot : 0..FieldMax]
ASSUME NoChainAssumption == NoChain \notin Seq(ChainRules)

VARIABLES
    config,      \* the configuration now in vpn-director.json
    ipsets,      \* country sets that exist in the kernel
    prerouting,  \* mangle/PREROUTING
    chain,       \* mangle/TUN_DIR
    ipRules,     \* ip rules at TUN_DIR_PREF_BASE + n: the table looked up
    hash,        \* content of TUN_DIR_HASH
    pc,          \* next call of the running script, "idle" when none runs
    op,          \* its command: "apply" or "stop"
    tun,         \* TUN_DIR_TUNNELS_JSON as it was read at start-up
    basePos,     \* base_pos
    entry,       \* position in tun of the tunnel being processed
    cl, ex,      \* position of the client, and of its exclusion
    idx,         \* tunnel_idx (in tunnel_stop: the loop counter i)
    outcome,     \* how the last invocation ended
    built,       \* history: configuration the chain was last created for
    builtSets,   \* history: country sets that existed at that moment
    faults       \* history: "kill", "iprule", "lost", "shifted" when one has happened

env    == <<config, ipsets>>
kernel == <<prerouting, chain, ipRules>>
locals == <<tun, basePos, entry, cl, ex, idx>>
ghost  == <<built, builtSets, faults>>
vars   == <<env, kernel, hash, pc, op, locals, outcome, ghost>>

Init ==
    /\ config \in Configs
    /\ ipsets \in SUBSET IpSets
    /\ prerouting = <<>>
    /\ chain = NoChain
    /\ ipRules = [n \in Prefs |-> NoTable]
    /\ hash = NoHash
    /\ pc = "idle" /\ op = "apply" /\ tun = <<>>
    /\ basePos = 1 /\ entry = 1 /\ cl = 1 /\ ex = 1 /\ idx = 0
    /\ outcome = "none"
    /\ built = <<>> /\ builtSets = {} /\ faults = {}

-----------------------------------------------------------------------------
(* Control flow of the script.                                              *)

Goto(label) == pc' = label /\ UNCHANGED outcome

\* The history notes a fault unless a kill, which excuses more, is noted already.
Noted(fault) == IF "kill" \in faults THEN faults ELSE faults \cup {fault}

\* The script exits: its variables are gone, its status remains.
Exit(result) ==
    /\ pc' = "idle" /\ outcome' = result
    /\ tun' = <<>> /\ basePos' = 1 /\ entry' = 1 /\ cl' = 1 /\ ex' = 1 /\ idx' = 0

\* A call on the chain fails when the firewall reload has taken the chain away,
\* and set -e ends the script.
Lost ==
    /\ chain = NoChain /\ Exit("failed")
    /\ faults' = Noted("lost")
    /\ UNCHANGED <<chain, built, builtSets>>

\* A rebuild is needed when the hash differs or the chain is missing.
RebuildOnHashOnly == hash # tun
RebuildNeeded == hash # tun \/ chain = NoChain

\* The old rules are removed first when a hash says there are some.
StopNever == FALSE
StopIfChain == chain # NoChain
StopFirst == hash # NoHash

\* The preferences tunnel_stop clears.
StopPrefsShort == 0..(FieldMax - 2)
StopPrefs == Prefs

\* The checks that make the loop over the tunnels "continue".
SkippedUnlimited(e) == e.table \notin ValidTables \/ ~e.isObject \/ e.clients = <<>>
Skipped(e) ==
    \/ e.table \notin ValidTables
    \/ ~e.isObject
    \/ e.clients = <<>>
    \/ idx + 1 > FieldMax

-----------------------------------------------------------------------------
(* The start of an invocation, under the lock.                              *)

StartApply ==
    /\ pc = "idle"
    /\ pc' = "check" /\ op' = "apply" /\ outcome' = "none"
    /\ tun' = config
    /\ UNCHANGED <<env, kernel, hash, basePos, entry, cl, ex, idx, ghost>>

StartStop ==
    /\ pc = "idle"
    /\ pc' = "purgeJump" /\ op' = "stop" /\ outcome' = "none"
    /\ tun' = config
    /\ UNCHANGED <<env, kernel, hash, basePos, entry, cl, ex, idx, ghost>>

\* tunnel_apply up to the decision to do nothing, to stop first or to build.
Check ==
    /\ pc = "check"
    /\ \/ tun = <<>> /\ Exit("empty")
       \/ tun # <<>> /\ ~RebuildNeeded /\ Exit("uptodate")
       \/ /\ tun # <<>> /\ RebuildNeeded
          /\ Goto(IF StopFirst THEN "purgeJump" ELSE "createChain")
          /\ UNCHANGED locals
    /\ UNCHANGED <<env, kernel, hash, op, ghost>>

-----------------------------------------------------------------------------
(* tunnel_stop, run by "stop" and by an apply that found an old hash.       *)

\* purge_fw_rules: one -D per jump found.
PurgeJump ==
    /\ pc = "purgeJump"
    /\ IF HasRule(prerouting, TunJump)
          THEN prerouting' = DeleteRule(prerouting, TunJump) /\ UNCHANGED <<pc, outcome>>
          ELSE Goto("flushChain") /\ UNCHANGED prerouting
    /\ UNCHANGED <<env, chain, ipRules, hash, op, locals, ghost>>

\* delete_fw_chain: -F, then -X.
FlushChain ==
    /\ pc = "flushChain"
    /\ chain' = IF chain = NoChain THEN NoChain ELSE <<>>
    /\ Goto(IF chain = NoChain THEN "delRules" ELSE "dropChain")
    /\ UNCHANGED <<env, prerouting, ipRules, hash, op, locals, ghost>>

\* -X fails when the chain has gone in between, and set -e ends the script.
DropChain ==
    /\ pc = "dropChain"
    /\ \/ Lost
       \/ chain # NoChain /\ chain' = NoChain /\ Goto("delRules") /\ UNCHANGED <<locals, ghost>>
    /\ UNCHANGED <<env, prerouting, ipRules, hash, op>>

\* ip rule del for every preference a slot can use.
DelRules ==
    /\ pc = "delRules"
    /\ IF idx \in StopPrefs
          THEN /\ ipRules' = [ipRules EXCEPT ![idx] = NoTable]
               /\ idx' = idx + 1 /\ UNCHANGED <<pc, outcome>>
          ELSE /\ idx' = 0 /\ Goto("rmHash") /\ UNCHANGED ipRules
    /\ UNCHANGED <<env, prerouting, chain, hash, op, tun, basePos, entry, cl, ex, ghost>>

RmHash ==
    /\ pc = "rmHash"
    /\ hash' = NoHash
    /\ IF op = "stop" THEN Exit("stopped") ELSE Goto("createChain") /\ UNCHANGED locals
    /\ UNCHANGED <<env, kernel, op, ghost>>

-----------------------------------------------------------------------------
(* The rebuild.                                                             *)

\* create_fw_chain -f: -N, or -F of a chain left over.
Created ==
    /\ chain' = CreateFlushed(chain)
    /\ built' = tun /\ builtSets' = ipsets /\ UNCHANGED faults
    /\ Goto("basePos") /\ UNCHANGED locals

CreateChain ==
    /\ pc = "createChain"
    /\ \/ chain = NoChain /\ Created
       \/ chain # NoChain /\ Goto("flushOld") /\ UNCHANGED <<chain, locals, ghost>>
    /\ UNCHANGED <<env, prerouting, ipRules, hash, op>>

FlushOld ==
    /\ pc = "flushOld"
    /\ \/ Lost
       \/ chain # NoChain /\ Created
    /\ UNCHANGED <<env, prerouting, ipRules, hash, op>>

ReadBasePos ==
    /\ pc = "basePos"
    /\ basePos' = BasePos(prerouting)
    /\ Goto("tunnel")
    /\ UNCHANGED <<env, kernel, hash, op, tun, entry, cl, ex, idx, ghost>>

\* The head of the loop over the tunnels.
NextTunnel ==
    /\ pc = "tunnel"
    /\ \/ entry > Len(tun) /\ Goto("sync") /\ UNCHANGED entry
       \/ /\ entry <= Len(tun) /\ Skipped(tun[entry])
          /\ entry' = entry + 1 /\ UNCHANGED <<pc, outcome>>
       \/ /\ entry <= Len(tun) /\ ~Skipped(tun[entry])
          /\ Goto("client") /\ UNCHANGED entry
    /\ UNCHANGED <<env, kernel, hash, op, tun, basePos, cl, ex, idx, ghost>>

\* The loop over the clients ends, or passes over one outside the LAN ranges.
NextClient ==
    /\ pc = "client"
    /\ LET e == tun[entry] IN
       \/ cl > Len(e.clients) /\ Goto("delIpRule") /\ UNCHANGED cl
       \/ /\ cl <= Len(e.clients) /\ e.clients[cl] \notin LanClients
          /\ cl' = cl + 1 /\ UNCHANGED <<pc, outcome>>
    /\ UNCHANGED <<env, kernel, hash, op, tun, basePos, entry, ex, idx, ghost>>

AtClient == pc = "client" /\ cl <= Len(tun[entry].clients)
            /\ tun[entry].clients[cl] \in LanClients

\* One exclusion of the client: skipped with a warning when its set is missing.
Exclude ==
    /\ AtClient
    /\ LET e == tun[entry] IN
       /\ ex <= Len(e.exclude)
       /\ \/ /\ e.exclude[ex] \in ipsets /\ Lost
          \/ /\ e.exclude[ex] \in ipsets /\ chain # NoChain
             /\ chain' = EnsureRule(chain, ReturnRule(e.clients[cl], e.exclude[ex]))
             /\ ex' = ex + 1
             /\ UNCHANGED <<pc, outcome, tun, basePos, entry, cl, idx, ghost>>
          \/ /\ e.exclude[ex] \notin ipsets
             /\ ex' = ex + 1
             /\ UNCHANGED <<chain, pc, outcome, tun, basePos, entry, cl, idx, ghost>>
    /\ UNCHANGED <<env, prerouting, ipRules, hash, op>>

\* The client's MARK rule, after its exclusions.
Mark ==
    /\ AtClient
    /\ ex > Len(tun[entry].exclude)
    /\ \/ Lost
       \/ /\ chain # NoChain
          /\ chain' = EnsureRule(chain, MarkRule(tun[entry].clients[cl], idx + 1))
          /\ cl' = cl + 1 /\ ex' = 1
          /\ UNCHANGED <<pc, outcome, tun, basePos, entry, idx, ghost>>
    /\ UNCHANGED <<env, prerouting, ipRules, hash, op>>

\* ip rule del pref; ip rule add pref.  A failure to add is only logged.
DelIpRule ==
    /\ pc = "delIpRule"
    /\ ipRules' = [ipRules EXCEPT ![idx] = NoTable]
    /\ Goto("addIpRule")
    /\ UNCHANGED <<env, prerouting, chain, hash, op, locals, ghost>>

AddIpRule ==
    /\ pc = "addIpRule"
    /\ \/ ipRules' = [ipRules EXCEPT ![idx] = tun[entry].table] /\ UNCHANGED faults
       \/ IpRuleMayFail /\ UNCHANGED ipRules /\ faults' = faults \cup {"iprule"}
    /\ idx' = idx + 1 /\ entry' = entry + 1 /\ cl' = 1 /\ ex' = 1
    /\ Goto("tunnel")
    /\ UNCHANGED <<env, prerouting, chain, hash, op, tun, basePos, built, builtSets>>

\* sync_fw_rule of the jump: leave it, purge it (one -D per match), insert it.
\* The insertion fails without a word when the chain or the position is gone.
SyncJump ==
    /\ pc = "sync"
    /\ Goto(IF InPlace(prerouting, TunJump, basePos) THEN "saveHash" ELSE "insertJump")
    /\ UNCHANGED <<env, kernel, hash, op, locals, ghost>>

InsertJump ==
    /\ pc = "insertJump"
    /\ IF HasRule(prerouting, TunJump)
          THEN prerouting' = DeleteRule(prerouting, TunJump) /\ UNCHANGED <<pc, outcome>>
          ELSE /\ prerouting' = IF chain = NoChain THEN prerouting
                                ELSE InsertRule(prerouting, basePos, TunJump)
               /\ Goto("saveHash")
    /\ UNCHANGED <<env, chain, ipRules, hash, op, locals, ghost>>

SaveHash ==
    /\ pc = "saveHash"
    /\ hash' = tun
    /\ Exit("applied")
    /\ UNCHANGED <<env, kernel, op, ghost>>

-----------------------------------------------------------------------------
(* What happens around the script.                                          *)

\* The script is killed (lost terminal, broken pipe, out of memory).
Kill ==
    /\ Killable /\ pc # "idle"
    /\ Exit("killed")
    /\ faults' = (faults \ {"lost", "shifted"}) \cup {"kill"}
    /\ UNCHANGED <<env, kernel, hash, op, built, builtSets>>

\* The web UI, the bot or an editor saves another configuration.
SaveConfig ==
    /\ \E c \in Configs : c # config /\ config' = c
    /\ UNCHANGED <<ipsets, kernel, hash, pc, op, locals, outcome, ghost>>

\* A country set appears: _ensure_ipsets builds it before tunnel_apply begins,
\* under the same lock.  Sets are refilled by swap and never destroyed.
IpSetCreated ==
    /\ pc = "idle"
    /\ \E s \in IpSets \ ipsets : ipsets' = ipsets \cup {s}
    /\ UNCHANGED <<config, kernel, hash, pc, op, locals, outcome, ghost>>

SysMarks(c) == Cardinality({n \in 1..Len(c) : c[n] = SysMark})

\* The firmware reloads the firewall: user chains and jumps go, its own mark
\* rules come back; ip rules and ipsets stay.
FirewallReload ==
    /\ prerouting' = [n \in 1..SysMarks(prerouting) |-> SysMark]
    /\ chain' = NoChain
    /\ UNCHANGED <<env, ipRules, hash, pc, op, locals, outcome, ghost>>

\* A VPN client comes up or goes down, and its mark rule with it.
VpnUp ==
    /\ SysMarks(prerouting) < MaxSysMarks
    /\ prerouting' \in {<<SysMark>> \o prerouting, prerouting \o <<SysMark>>}
    /\ UNCHANGED <<env, chain, ipRules, hash, pc, op, locals, outcome, ghost>>

\* While the script still has to insert its jump at base_pos, the positions shift.
Positioned == {"tunnel", "client", "delIpRule", "addIpRule", "sync", "insertJump"}
VpnDown ==
    /\ HasRule(prerouting, SysMark)
    /\ prerouting' = DeleteRule(prerouting, SysMark)
    /\ faults' = IF pc \in Positioned THEN Noted("shifted") ELSE faults
    /\ UNCHANGED <<env, chain, ipRules, hash, pc, op, locals, outcome, built, builtSets>>

Script ==
    \/ Check \/ PurgeJump \/ FlushChain \/ DropChain \/ DelRules \/ RmHash
    \/ CreateChain \/ FlushOld \/ ReadBasePos \/ NextTunnel \/ NextClient \/ Exclude \/ Mark
    \/ DelIpRule \/ AddIpRule \/ SyncJump \/ InsertJump \/ SaveHash

Firmware == FirewallReload \/ VpnUp \/ VpnDown

Next ==
    \/ StartApply \/ StartStop \/ Script \/ Kill \/ SaveConfig \/ IpSetCreated \/ Firmware

Spec == Init /\ [][Next]_vars

\* A script that runs goes on; and an apply is started again and again (cron
\* runs "update" every night, the hooks run "apply" on every event).
FairSpec == Spec /\ WF_vars(Script) /\ SF_vars(StartApply)
=============================================================================
