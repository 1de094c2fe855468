------------------------ MODULE TunnelDirector_proofs ------------------------
(****************************************************************************)
(* What holds of Tunnel Director for every set of tunnels, clients and      *)
(* configurations, any number of slots and any bound on the firmware rules. *)
(****************************************************************************)
EXTENDS TunnelRouting, Netfilter_proofs

\* Where the script stands in its loops: inside the loop over the tunnels there
\* is a tunnel and a free slot, before the loops the counter i is 0.
Control ==
    /\ pc \in {"client", "delIpRule", "addIpRule"} =>
          entry \in 1..Len(tun) /\ idx < FieldMax
    /\ pc \in {"idle", "check", "purgeJump", "flushChain", "dropChain"} => idx = 0

TypeInv == TypeOK /\ Control

-----------------------------------------------------------------------------
(* Lemmas about the data.                                                   *)

LEMMA EntryType ==
    ASSUME NEW c \in Configs, NEW n \in 1..Len(c)
    PROVE  /\ c[n].table \in Tables
           /\ c[n].clients \in Seq(Clients) /\ c[n].exclude \in Seq(IpSets)
<1>1. c \in Seq(Entries)
  BY ConfigsAssumption
<1>2. c[n] \in Entries
  BY <1>1, ElementOfSeq
<1> QED BY <1>2 DEF Entries

LEMMA ConfigLength ==
    ASSUME NEW c \in Configs
    PROVE  Len(c) \in Nat
<1>1. c \in Seq(Entries)
  BY ConfigsAssumption
<1> QED BY <1>1

LEMMA RulesAreTyped ==
    ASSUME NEW c \in Clients
    PROVE  /\ \A s \in IpSets : ReturnRule(c, s) \in ChainRules
           /\ \A n \in 1..FieldMax : MarkRule(c, n) \in ChainRules
BY FieldMaxAssumption DEF ReturnRule, MarkRule, ChainRules

\* The firewall reload leaves a chain of firmware rules.
LEMMA ReloadedType ==
    ASSUME NEW c \in Seq(PreroutingRules)
    PROVE  LET d == [n \in 1..SysMarks(c) |-> SysMark]
           IN  d \in Seq(PreroutingRules) /\ Len(d) = SysMarks(c)
<1> DEFINE I == {n \in 1..Len(c) : c[n] = SysMark}
<1>1. IsFiniteSet(1..Len(c))
  BY FS_Interval
<1>2. IsFiniteSet(I)
  BY <1>1, FS_Subset
<1>3. SysMarks(c) \in Nat
  BY <1>2, FS_CardinalityType DEF SysMarks
<1>4. SysMark \in PreroutingRules
  BY DEF PreroutingRules
<1> QED BY <1>3, <1>4
-----------------------------------------------------------------------------
(* Type correctness.                                                        *)

LEMMA InitTypes == Init => TypeInv
<1> SUFFICES ASSUME Init PROVE TypeInv
  OBVIOUS
<1> USE DEF Init
<1>1. /\ <<>> \in Configs /\ <<>> \in Seq(PreroutingRules)
      /\ [n \in Prefs |-> NoTable] \in [Prefs -> Tables \cup {NoTable}]
  BY ConfigsAssumption
<1>2. 0 \in 0..FieldMax
  BY FieldMaxAssumption
<1>3. TypeOK
  <2>1. ipRules \in [Prefs -> Tables \cup {NoTable}]
    BY <1>1
  <2>2. prerouting \in Seq(PreroutingRules) /\ config \in Configs /\ tun \in Configs
        /\ built \in Configs /\ hash \in Configs \cup {NoHash}
    BY <1>1
  <2>3. /\ basePos \in Nat \ {0} /\ entry \in Nat \ {0} /\ cl \in Nat \ {0}
        /\ ex \in Nat \ {0} /\ idx \in 0..FieldMax
    BY <1>2
  <2>4. /\ ipsets \subseteq IpSets /\ builtSets \subseteq IpSets /\ chain = NoChain
        /\ op \in {"apply", "stop"} /\ faults \subseteq {"kill", "iprule", "lost", "shifted"}
    OBVIOUS
  <2> HIDE DEF Init
  <2> QED BY <2>1, <2>2, <2>3, <2>4, Zenon DEF TypeOK
<1>4. Control
  BY DEF Control
<1> QED BY <1>3, <1>4 DEF TypeInv

\* An exit resets the script's variables to values of their types.
LEMMA ExitTypes ==
    ASSUME NEW r, Exit(r)
    PROVE  /\ tun' \in Configs /\ idx' \in 0..FieldMax /\ Control'
           /\ basePos' \in Nat \ {0} /\ entry' \in Nat \ {0}
           /\ cl' \in Nat \ {0} /\ ex' \in Nat \ {0}
BY ConfigsAssumption, FieldMaxAssumption DEF Exit, Control

\* The steps that start a run or carry it to the rebuild keep the types.
LEMMA StopTypes ==
    ASSUME TypeInv,
           \/ StartApply
           \/ StartStop \/ Check \/ PurgeJump \/ FlushChain \/ DropChain \/ DelRules \/ RmHash
    PROVE  TypeInv'
<1> USE FieldMaxAssumption DEF TypeInv, TypeOK, env, kernel, locals, ghost, Goto
<1>1. CASE StartApply
  BY <1>1 DEF StartApply, Control
<1>2. CASE StartStop
  BY <1>2 DEF StartStop, Control
<1>3. CASE Check
  <2>1. CASE tun = <<>> /\ Exit("empty")
    BY <1>3, <2>1, ExitTypes DEF Check
  <2>2. CASE tun # <<>> /\ ~RebuildNeeded /\ Exit("uptodate")
    BY <1>3, <2>2, ExitTypes DEF Check
  <2>3. CASE Goto(IF StopFirst THEN "purgeJump" ELSE "createChain") /\ UNCHANGED locals
    BY <1>3, <2>3 DEF Check, Control
  <2> QED BY <1>3, <2>1, <2>2, <2>3 DEF Check
<1>4. CASE PurgeJump
  <2>1. DeleteRule(prerouting, TunJump) \in Seq(PreroutingRules)
    BY DeleteRuleKeeps
  <2> QED BY <1>4, <2>1 DEF PurgeJump, Control
<1>5. CASE FlushChain
  BY <1>5 DEF FlushChain, Control
<1>6. CASE DropChain
  <2>1. CASE Lost
    BY <1>6, <2>1, ExitTypes DEF DropChain, Lost, Noted
  <2>2. CASE chain # NoChain /\ chain' = NoChain /\ Goto("delRules") /\ UNCHANGED <<locals, ghost>>
    BY <1>6, <2>2 DEF DropChain, Control
  <2> QED BY <1>6, <2>1, <2>2 DEF DropChain
<1>7. CASE DelRules
  BY <1>7 DEF DelRules, Control, StopPrefs, Prefs
<1>8. CASE RmHash
  <2>1. CASE op = "stop"
    <3>1. Exit("stopped")
      BY <1>8, <2>1 DEF RmHash
    <3> QED BY <1>8, <3>1, ExitTypes DEF RmHash
  <2>2. CASE op # "stop"
    BY <1>8, <2>2 DEF RmHash, Control
  <2> QED BY <2>1, <2>2
<1> QED BY <1>1, <1>2, <1>3, <1>4, <1>5, <1>6, <1>7, <1>8

\* So do the steps of the rebuild.
LEMMA RebuildTypes ==
    ASSUME TypeInv,
           \/ CreateChain \/ FlushOld \/ ReadBasePos \/ NextTunnel \/ NextClient
           \/ Exclude \/ Mark \/ DelIpRule \/ AddIpRule \/ SyncJump \/ InsertJump \/ SaveHash
    PROVE  TypeInv'
<1> USE FieldMaxAssumption DEF TypeInv, TypeOK, env, kernel, locals, ghost, Goto
<1>1. ASSUME Lost PROVE /\ chain' = chain /\ built' = built /\ builtSets' = builtSets
                        /\ faults' \subseteq {"kill", "iprule", "lost", "shifted"}
                        /\ idx' \in 0..FieldMax /\ Control'
                        /\ tun' \in Configs /\ basePos' \in Nat \ {0} /\ entry' \in Nat \ {0}
                        /\ cl' \in Nat \ {0} /\ ex' \in Nat \ {0}
  BY <1>1, ExitTypes DEF Lost, Noted
<1>2. ASSUME NEW e \in Int, e = entry, e \in 1..Len(tun)
      PROVE  /\ tun[entry].table \in Tables /\ tun[entry].clients \in Seq(Clients)
             /\ tun[entry].exclude \in Seq(IpSets)
  BY <1>2, EntryType
<1>3. ASSUME AtClient
      PROVE  /\ tun[entry].clients[cl] \in Clients /\ tun[entry].exclude \in Seq(IpSets)
             /\ entry \in 1..Len(tun) /\ idx < FieldMax
  <2>1. entry \in 1..Len(tun) /\ idx < FieldMax
    BY <1>3 DEF AtClient, Control
  <2>2. tun[entry].clients \in Seq(Clients) /\ tun[entry].exclude \in Seq(IpSets)
    BY <1>2, <2>1
  <2>3. cl \in 1..Len(tun[entry].clients)
    BY <1>3, <2>2 DEF AtClient
  <2> QED BY <2>1, <2>2, <2>3, ElementOfSeq
<1>4. ASSUME Created
      PROVE  /\ chain' \in Seq(ChainRules) /\ built' = tun /\ builtSets' = ipsets
             /\ faults' = faults /\ pc' = "basePos" /\ UNCHANGED <<tun, basePos, entry, cl, ex, idx>>
  BY <1>4 DEF Created, CreateFlushed
<1>5. CASE CreateChain
  <2>1. CASE chain = NoChain /\ Created
    BY <1>4, <1>5, <2>1 DEF CreateChain, Control
  <2>2. CASE Goto("flushOld") /\ UNCHANGED <<chain, locals, ghost>>
    BY <1>5, <2>2 DEF CreateChain, Control
  <2> QED BY <1>5, <2>1, <2>2 DEF CreateChain
<1>6. CASE FlushOld
  <2>1. CASE Lost
    BY <1>1, <1>6, <2>1 DEF FlushOld
  <2>2. CASE chain # NoChain /\ Created
    BY <1>4, <1>6, <2>2 DEF FlushOld, Control
  <2> QED BY <1>6, <2>1, <2>2 DEF FlushOld
<1>7. CASE ReadBasePos
  <2>1. BasePos(prerouting) \in Nat \ {0}
    BY BasePosIsPosition
  <2> QED BY <1>7, <2>1 DEF ReadBasePos, Control
<1>8. CASE NextTunnel
  <2>1. Len(tun) \in Nat
    BY ConfigLength
  <2>2. ~Skipped(tun[entry]) => idx < FieldMax
    BY DEF Skipped
  <2> QED BY <1>8, <2>1, <2>2 DEF NextTunnel, Control
<1>9. CASE NextClient
  BY <1>9 DEF NextClient, Control
<1>10. CASE Exclude
  <2> DEFINE e == tun[entry]
  <2>1. AtClient /\ ex <= Len(e.exclude)
    BY <1>10 DEF Exclude
  <2>2. CASE Lost
    BY <1>1, <1>10, <2>2 DEF Exclude
  <2>3. CASE e.exclude[ex] \in ipsets /\ chain # NoChain
             /\ chain' = EnsureRule(chain, ReturnRule(e.clients[cl], e.exclude[ex]))
             /\ ex' = ex + 1
             /\ UNCHANGED <<pc, outcome, tun, basePos, entry, cl, idx, ghost>>
    <3>1. ReturnRule(e.clients[cl], e.exclude[ex]) \in ChainRules
      BY <1>3, <2>1, <2>3, RulesAreTyped
    <3>2. chain' \in Seq(ChainRules)
      BY <2>3, <3>1, EnsureRuleAppends
    <3> QED BY <1>10, <2>3, <3>2 DEF Exclude, Control
  <2>4. CASE ex' = ex + 1
             /\ UNCHANGED <<chain, pc, outcome, tun, basePos, entry, cl, idx, ghost>>
    BY <1>10, <2>4 DEF Exclude, Control
  <2> QED BY <1>10, <2>2, <2>3, <2>4 DEF Exclude
<1>11. CASE Mark
  <2>1. AtClient
    BY <1>11 DEF Mark
  <2>2. CASE Lost
    BY <1>1, <1>11, <2>2 DEF Mark
  <2>3. CASE chain # NoChain
             /\ chain' = EnsureRule(chain, MarkRule(tun[entry].clients[cl], idx + 1))
             /\ cl' = cl + 1 /\ ex' = 1
             /\ UNCHANGED <<pc, outcome, tun, basePos, entry, idx, ghost>>
    <3>1. MarkRule(tun[entry].clients[cl], idx + 1) \in ChainRules
      BY <1>3, <2>1, RulesAreTyped
    <3>2. chain' \in Seq(ChainRules)
      BY <2>3, <3>1, EnsureRuleAppends
    <3> QED BY <1>11, <2>3, <3>2 DEF Mark, Control
  <2> QED BY <1>11, <2>2, <2>3 DEF Mark
<1>12. CASE DelIpRule
  BY <1>12 DEF DelIpRule, Control
<1>13. CASE AddIpRule
  <2>1. entry \in 1..Len(tun) /\ idx < FieldMax
    BY <1>13 DEF AddIpRule, Control
  <2>2. tun[entry].table \in Tables
    BY <1>2, <2>1
  <2>3. ipRules' \in [Prefs -> Tables \cup {NoTable}]
    BY <1>13, <2>2 DEF AddIpRule
  <2>4. faults' \subseteq {"kill", "iprule", "lost", "shifted"}
    BY <1>13 DEF AddIpRule
  <2>5. idx' = idx + 1 /\ entry' = entry + 1 /\ cl' = 1 /\ ex' = 1 /\ pc' = "tunnel"
        /\ UNCHANGED <<env, prerouting, chain, hash, op, tun, basePos, built, builtSets>>
    BY <1>13 DEF AddIpRule
  <2> QED BY <2>1, <2>3, <2>4, <2>5 DEF Control
<1>14. CASE SyncJump
  BY <1>14 DEF SyncJump, Control
<1>15. CASE InsertJump
  <2>1. DeleteRule(prerouting, TunJump) \in Seq(PreroutingRules)
    BY DeleteRuleKeeps
  <2>2. InsertRule(prerouting, basePos, TunJump) \in Seq(PreroutingRules)
    BY InsertRuleAdds DEF PreroutingRules
  <2> QED BY <1>15, <2>1, <2>2 DEF InsertJump, Control
<1>16. CASE SaveHash
  BY <1>16, ExitTypes DEF SaveHash
<1> QED BY <1>5, <1>6, <1>7, <1>8, <1>9, <1>10, <1>11, <1>12, <1>13, <1>14, <1>15, <1>16

\* And so do a kill, the other programs and the firmware.
LEMMA EnvironmentTypes ==
    ASSUME TypeInv, Kill \/ SaveConfig \/ IpSetCreated \/ Firmware
    PROVE  TypeInv'
<1> USE DEF TypeInv, TypeOK, env, kernel, locals, ghost
<1>1. CASE Kill
  BY <1>1, ExitTypes DEF Kill
<1>2. CASE SaveConfig
  BY <1>2 DEF SaveConfig, Control
<1>3. CASE IpSetCreated
  BY <1>3 DEF IpSetCreated, Control
<1>4. CASE FirewallReload
  BY <1>4, ReloadedType DEF FirewallReload, Control
<1>5. CASE VpnUp
  <2>1. <<SysMark>> \in Seq(PreroutingRules)
    BY DEF PreroutingRules
  <2>2. /\ <<SysMark>> \o prerouting \in Seq(PreroutingRules)
        /\ prerouting \o <<SysMark>> \in Seq(PreroutingRules)
    BY <2>1, ConcatProperties
  <2>3. prerouting' \in Seq(PreroutingRules)
    BY <1>5, <2>2 DEF VpnUp
  <2> QED BY <1>5, <2>3 DEF VpnUp, Control
<1>6. CASE VpnDown
  BY <1>6, DeleteRuleKeeps DEF VpnDown, Noted, Control
<1> QED BY <1>1, <1>2, <1>3, <1>4, <1>5, <1>6 DEF Firmware

\* The script's variables, the chains and the ip rules keep the types tunnel.sh
\* gives them: no slot past the mark field, no rule for an unknown table.
THEOREM TypeCorrect == Spec => []TypeOK
<1>1. Init => TypeInv
  BY InitTypes
<1>2. TypeInv /\ [Next]_vars => TypeInv'
  <2> SUFFICES ASSUME TypeInv, [Next]_vars PROVE TypeInv'
    OBVIOUS
  <2>1. CASE UNCHANGED vars
    BY <2>1 DEF TypeInv, TypeOK, Control, vars, env, kernel, locals, ghost
  <2>2. CASE Next
    BY <2>2, StopTypes, RebuildTypes, EnvironmentTypes, Zenon DEF Next, Script
  <2> QED BY <2>1, <2>2
<1>3. TypeInv => TypeOK
  BY DEF TypeInv
<1> QED BY <1>1, <1>2, <1>3, PTL DEF Spec

-----------------------------------------------------------------------------
(* A stop leaves nothing behind.  The progress of tunnel_stop is carried by  *)
(* the invariant: what it has removed stays removed until it has finished,   *)
(* although the firmware reloads the firewall and marks packets meanwhile.   *)

Stopping ==
    /\ outcome # "none" => pc = "idle"
    /\ pc \in {"flushChain", "dropChain", "delRules", "rmHash"} => ~HasRule(prerouting, TunJump)
    /\ pc \in {"delRules", "rmHash"} => chain = NoChain
    /\ pc = "delRules" => \A p \in Prefs : p < idx => ipRules[p] = NoTable
    /\ pc = "rmHash" => \A p \in Prefs : ipRules[p] = NoTable

StopInv == TypeInv /\ Stopping /\ StopLeavesNothing

\* Neither the reload nor a mark rule of the firmware brings the jump back.
LEMMA FirmwareAddsNoJump ==
    ASSUME TypeOK, Firmware, ~HasRule(prerouting, TunJump)
    PROVE  ~HasRule(prerouting', TunJump)
<1>1. SysMark # TunJump /\ prerouting \in Seq(PreroutingRules) /\ SysMark \in PreroutingRules
  BY DEF SysMark, TunJump, TypeOK, PreroutingRules
<1>2. CASE FirewallReload
  <2>1. \A n \in 1..Len(prerouting') : prerouting'[n] = SysMark
    BY <1>1, <1>2, ReloadedType DEF FirewallReload
  <2> QED BY <1>1, <2>1 DEF HasRule
<1>3. CASE VpnUp
  <2>1. <<SysMark>> \in Seq(PreroutingRules) /\ Len(<<SysMark>>) = 1 /\ <<SysMark>>[1] = SysMark
    BY <1>1
  <2>2. ~HasRule(<<SysMark>> \o prerouting, TunJump)
    BY <1>1, <2>1, ConcatProperties DEF HasRule
  <2>3. ~HasRule(prerouting \o <<SysMark>>, TunJump)
    BY <1>1, <2>1, ConcatProperties DEF HasRule
  <2> QED BY <1>3, <2>2, <2>3 DEF VpnUp
<1>4. CASE VpnDown
  BY <1>1, <1>4, DeleteRuleKeeps DEF VpnDown
<1> QED BY <1>2, <1>3, <1>4 DEF Firmware

\* What ran to its end stays gone: outside the script nothing adds to it.
LEMMA StopPreserved ==
    ASSUME StopInv, TypeInv',
           Kill \/ SaveConfig \/ IpSetCreated \/ Firmware
    PROVE  Stopping' /\ StopLeavesNothing'
<1> USE DEF StopInv, Stopping, StopLeavesNothing, env, kernel, locals, ghost
<1>1. CASE Kill
  BY <1>1 DEF Kill, Exit
<1>2. CASE SaveConfig
  BY <1>2 DEF SaveConfig
<1>3. CASE IpSetCreated
  BY <1>3 DEF IpSetCreated
<1>4. CASE Firmware
  <2>1. UNCHANGED <<ipRules, hash, pc, outcome, idx>> /\ (chain = NoChain => chain' = NoChain)
    BY <1>4 DEF Firmware, FirewallReload, VpnUp, VpnDown
  <2>2. ~HasRule(prerouting, TunJump) => ~HasRule(prerouting', TunJump)
    BY <1>4, FirmwareAddsNoJump DEF TypeInv
  <2> QED BY <2>1, <2>2
<1> QED BY <1>1, <1>2, <1>3, <1>4

\* The script's own steps, tunnel_stop's first.
LEMMA StopProgress ==
    ASSUME StopInv, TypeInv',
           \/ StartApply
           \/ StartStop \/ Script
    PROVE  Stopping' /\ StopLeavesNothing'
<1> USE DEF StopInv, Stopping, StopLeavesNothing, env, kernel, locals, ghost, Goto, Exit
<1>0. pc # "idle" => outcome = "none"
  OBVIOUS
<1>1. CASE StartApply
  BY <1>1 DEF StartApply
<1>2. CASE StartStop
  BY <1>2 DEF StartStop
<1>3. CASE Check
  BY <1>3 DEF Check
<1>4. CASE PurgeJump
  BY <1>0, <1>4 DEF PurgeJump
<1>5. CASE FlushChain
  BY <1>0, <1>5 DEF FlushChain, TypeInv, Control, Prefs
<1>6. CASE DropChain
  BY <1>0, <1>6 DEF DropChain, Lost, TypeInv, Control, Prefs
<1>7. CASE DelRules
  <2>1. idx \in Nat /\ ipRules \in [Prefs -> Tables \cup {NoTable}]
    BY FieldMaxAssumption DEF TypeInv, TypeOK
  <2>2. CASE idx \in Prefs
    BY <1>0, <1>7, <2>1, <2>2 DEF DelRules, StopPrefs, Prefs
  <2>3. CASE idx \notin Prefs
    BY <1>0, <1>7, <2>1, <2>3, FieldMaxAssumption DEF DelRules, StopPrefs, Prefs
  <2> QED BY <2>2, <2>3
<1>8. CASE RmHash
  BY <1>0, <1>8 DEF RmHash
<1>9. CASE CreateChain \/ FlushOld
  BY <1>0, <1>9 DEF CreateChain, FlushOld, Created, Lost
<1>10. CASE ReadBasePos \/ NextTunnel \/ NextClient
  BY <1>0, <1>10 DEF ReadBasePos, NextTunnel, NextClient
<1>11. CASE Exclude \/ Mark
  BY <1>0, <1>11 DEF Exclude, Mark, AtClient, Lost
<1>12. CASE DelIpRule \/ AddIpRule
  BY <1>0, <1>12 DEF DelIpRule, AddIpRule
<1>13. CASE SyncJump \/ InsertJump \/ SaveHash
  BY <1>0, <1>13 DEF SyncJump, InsertJump, SaveHash
<1> QED BY <1>1, <1>2, <1>3, <1>4, <1>5, <1>6, <1>7, <1>8, <1>9, <1>10, <1>11, <1>12, <1>13
        DEF Script

LEMMA StopInvariant == Spec => []StopInv
<1>1. Init => StopInv
  <2> SUFFICES ASSUME Init PROVE StopInv
    OBVIOUS
  <2>1. TypeInv
    BY InitTypes
  <2> QED BY <2>1 DEF Init, StopInv, Stopping, StopLeavesNothing
<1>2. StopInv /\ [Next]_vars => StopInv'
  <2> SUFFICES ASSUME StopInv, [Next]_vars PROVE StopInv'
    OBVIOUS
  <2>1. CASE UNCHANGED vars
    BY <2>1 DEF StopInv, TypeInv, TypeOK, Control, Stopping, StopLeavesNothing,
                vars, env, kernel, locals, ghost
  <2>2. CASE Next
    <3>1. TypeInv'
      BY <2>2, StopTypes, RebuildTypes, EnvironmentTypes, Zenon DEF Next, Script, StopInv
    <3> QED BY <2>2, <3>1, StopPreserved, StopProgress, Zenon DEF Next, StopInv
  <2> QED BY <2>1, <2>2
<1> QED BY <1>1, <1>2, PTL DEF Spec

\* Once tunnel_stop has returned there is no jump, no chain, no ip rule in the
\* whole preference range and no hash, until the next invocation starts.
THEOREM StopIsComplete == Spec => []StopLeavesNothing
<1>1. StopInv => StopLeavesNothing
  BY DEF StopInv
<1> QED BY <1>1, StopInvariant, PTL

-----------------------------------------------------------------------------
(* The rebuild.  Where the script stands says which tunnels are done.       *)

Looping  == {"tunnel", "client", "delIpRule", "addIpRule", "sync", "insertJump", "saveHash"}
Building == Looping \cup {"createChain", "flushOld", "basePos"}

\* The slots used before tunnel n of configuration c.
Before(c, n) == Cardinality({m \in Usable(c) : m < n})

\* The loops' variables, and which configuration chain and hash are about.
Position ==
    /\ pc \notin Looping => entry = 1
    /\ pc \notin {"client", "delIpRule", "addIpRule"} => cl = 1 /\ ex = 1
    /\ pc \in {"rmHash", "createChain", "flushOld", "basePos"} => idx = 0
    /\ pc \in Building => idx <= Before(tun, entry) /\ (idx < FieldMax => idx = Before(tun, entry))
    /\ pc \in {"client", "delIpRule", "addIpRule"} => entry \in Usable(tun)
    /\ pc \in {"delIpRule", "addIpRule"} => cl > Len(tun[entry].clients)
    /\ pc \in {"sync", "insertJump", "saveHash"} => entry > Len(tun)
    /\ pc = "client" /\ ex # 1 => AtClient
    /\ pc \in Building => hash = NoHash
    /\ pc \in Looping \cup {"basePos"} => built = tun /\ builtSets = ipsets
    /\ hash # NoHash => built = hash

\* An ip rule is one the configuration asks for.
OwnedBy(c) ==
    \A p \in Prefs : ipRules[p] # NoTable =>
        \E n \in Served(c) : SlotNumber(c, n) = p + 1 /\ ipRules[p] = c[n].table

\* No run cut short: the ip rules belong to the certified configuration, or to
\* the one being built, or there are none.
OwnRules ==
    faults \cap {"kill", "lost"} = {} =>
        /\ hash # NoHash => OwnedBy(hash)
        /\ hash = NoHash /\ pc \in Building => OwnedBy(tun)
        /\ hash = NoHash /\ pc \notin Building \cup {"delRules"} => \A p \in Prefs : ipRules[p] = NoTable

\* x is a client of tunnel n of c that is given rules.
LanClient(c, n, x) == \E k \in 1..Len(c[n].clients) : c[n].clients[k] = x /\ x \in LanClients

HasBelow(ch, i, r) == \E j \in 1..(i - 1) : ch[j] = r

\* Rule i of chain ch was put there by tunnel n: after the marks of all tunnels
\* before n and, for a mark, after the exclusions of its client.
Born(ch, i, c, sets, n) ==
    /\ LanClient(c, n, ch[i].client)
    /\ \A m \in Served(c) : m < n =>
          \A x \in Clients : LanClient(c, m, x) => HasBelow(ch, i, MarkRule(x, SlotNumber(c, m)))
    /\ \/ ch[i].slot = 0 /\ ch[i].set \in ToSet(c[n].exclude) \cap sets
       \/ /\ ch[i].slot = SlotNumber(c, n) /\ ch[i].set = NoSet
          /\ \A s \in ToSet(c[n].exclude) \cap sets : HasBelow(ch, i, ReturnRule(ch[i].client, s))

AllBorn(ch, c, sets) == \A i \in 1..Len(ch) : \E n \in Served(c) : Born(ch, i, c, sets, n)
ChainSound == chain # NoChain => AllBorn(chain, built, builtSets)

\* The marks of tunnel n are all in chain ch.
Marked(ch, c, n) == \A x \in Clients : LanClient(c, n, x) => HasRule(ch, MarkRule(x, SlotNumber(c, n)))

\* The ip rule of tunnel n is there, unless it could not be added.
RuleSet(c, n) ==
    LET t == ipRules[SlotNumber(c, n) - 1]
    IN  t = c[n].table \/ ("iprule" \in faults /\ t = NoTable)

\* What the loops have done: the tunnels before the current one completely, of
\* the current one the clients before cl, of that client the exclusions before ex.
TunnelsDone ==
    \A n \in Served(tun) : n < entry =>
        RuleSet(tun, n) /\ (chain # NoChain => Marked(chain, tun, n))
ClientsDone ==
    chain # NoChain /\ pc \in {"client", "delIpRule", "addIpRule"} =>
        \A k \in 1..Len(tun[entry].clients) : k < cl /\ tun[entry].clients[k] \in LanClients =>
            HasRule(chain, MarkRule(tun[entry].clients[k], idx + 1))
ExclusionsDone ==
    chain # NoChain /\ AtClient =>
        \A k \in 1..Len(tun[entry].exclude) : k < ex /\ tun[entry].exclude[k] \in ipsets =>
            HasRule(chain, ReturnRule(tun[entry].clients[cl], tun[entry].exclude[k]))
Progress ==
    pc \in Looping =>
        /\ TunnelsDone /\ ClientsDone /\ ExclusionsDone
        /\ pc = "addIpRule" => ipRules[idx] = NoTable

\* What is certified and in place is complete.
Certified ==
    hash # NoHash /\ chain # NoChain /\ HasRule(prerouting, TunJump) =>
        \A n \in Served(hash) : Marked(chain, hash, n) /\ RuleSet(hash, n)

\* Without a kill the jump is put in after the rules are complete.
JumpLast ==
    "kill" \notin faults /\ HasRule(prerouting, TunJump) /\ hash = NoHash => pc = "saveHash"

-----------------------------------------------------------------------------
(* Slot numbers.                                                            *)

LEMMA UsableFinite ==
    ASSUME NEW c \in Configs
    PROVE  /\ Usable(c) \subseteq 1..Len(c) /\ Len(c) \in Nat
           /\ \A T \in SUBSET Usable(c) : IsFiniteSet(T) /\ Cardinality(T) \in Nat
<1>1. Usable(c) \subseteq 1..Len(c) /\ Len(c) \in Nat
  BY ConfigLength DEF Usable
<1>2. IsFiniteSet(Usable(c))
  <2>1. IsFiniteSet(1..Len(c))
    BY <1>1, FS_Interval
  <2> QED BY <1>1, <2>1, FS_Subset
<1>3. ASSUME NEW T \in SUBSET Usable(c)
      PROVE  IsFiniteSet(T) /\ Cardinality(T) \in Nat
  BY <1>2, FS_Subset, FS_CardinalityType
<1> QED BY <1>1, <1>3

\* Before counts the usable tunnels passed, one by one.
LEMMA BeforeCounts ==
    ASSUME NEW c \in Configs
    PROVE  /\ Before(c, 1) = 0
           /\ \A n \in Nat : /\ Before(c, n) \in Nat
                             /\ n \in Usable(c) => Before(c, n + 1) = Before(c, n) + 1
                             /\ n \notin Usable(c) => Before(c, n + 1) = Before(c, n)
<1> DEFINE U(n) == {m \in Usable(c) : m < n}
<1>1. Before(c, 1) = 0
  <2>1. U(1) = {}
    BY UsableFinite
  <2> QED BY <2>1, FS_EmptySet DEF Before
<1>2. ASSUME NEW n \in Nat PROVE Before(c, n) \in Nat
  BY UsableFinite DEF Before
<1>3. ASSUME NEW n \in Nat, n \in Usable(c) PROVE Before(c, n + 1) = Before(c, n) + 1
  <2>1. U(n + 1) = U(n) \cup {n} /\ n \notin U(n)
    BY <1>3, UsableFinite
  <2>2. IsFiniteSet(U(n))
    BY UsableFinite
  <2> QED BY <2>1, <2>2, FS_AddElement DEF Before
<1>4. ASSUME NEW n \in Nat, n \notin Usable(c) PROVE Before(c, n + 1) = Before(c, n)
  <2>1. U(n + 1) = U(n)
    BY <1>4, UsableFinite
  <2> QED BY <2>1 DEF Before
<1> QED BY <1>1, <1>2, <1>3, <1>4

\* A usable tunnel gets the slot after those used before it.
LEMMA SlotIsNext ==
    ASSUME NEW c \in Configs, NEW n \in Usable(c)
    PROVE  /\ n \in 1..Len(c) /\ n \in Nat /\ SlotNumber(c, n) = Before(c, n) + 1
           /\ SlotNumber(c, n) \in Nat
<1>1. n \in 1..Len(c) /\ n \in Nat
  BY UsableFinite
<1>2. {m \in Usable(c) : m <= n} = {m \in Usable(c) : m < n + 1}
  BY <1>1, UsableFinite
<1>3. SlotNumber(c, n) = Before(c, n + 1)
  BY <1>2 DEF SlotNumber, Before
<1>4. Before(c, n + 1) = Before(c, n) + 1 /\ Before(c, n) \in Nat
  BY <1>1, BeforeCounts
<1> QED BY <1>1, <1>3, <1>4

\* Later tunnels have greater slots.
LEMMA SlotsGrow ==
    ASSUME NEW c \in Configs, NEW m \in Usable(c), NEW n \in Usable(c), m < n
    PROVE  SlotNumber(c, m) < SlotNumber(c, n)
<1>1. m \in Nat /\ n \in Nat
  BY UsableFinite
<1>2. {k \in Usable(c) : k <= m} \subseteq {k \in Usable(c) : k < n}
  BY <1>1, UsableFinite
<1>3. SlotNumber(c, m) <= Before(c, n)
  BY <1>2, UsableFinite, FS_Subset DEF SlotNumber, Before
<1> QED BY <1>1, <1>3, SlotIsNext, BeforeCounts

\* The tunnels served have a slot of the field.
LEMMA ServedSlot ==
    ASSUME NEW c \in Configs, NEW n \in Served(c)
    PROVE  /\ n \in Usable(c) /\ n \in 1..Len(c) /\ SlotNumber(c, n) \in 1..FieldMax
           /\ SlotNumber(c, n) - 1 \in Prefs
<1>1. n \in Usable(c) /\ SlotNumber(c, n) <= FieldMax
  BY DEF Served
<1>2. /\ n \in 1..Len(c) /\ n \in Nat /\ SlotNumber(c, n) = Before(c, n) + 1
      /\ Before(c, n) \in Nat
  BY <1>1, SlotIsNext, BeforeCounts
<1> QED BY <1>1, <1>2, FieldMaxAssumption DEF Prefs

-----------------------------------------------------------------------------
(* The position of the script in its loops.                                 *)

\* An exit, however it comes, resets the loops.
LEMMA ExitPosition ==
    ASSUME NEW r, Exit(r), hash' # NoHash => built' = hash'
    PROVE  Position'
BY DEF Exit, Position, Looping, Building

LEMMA PositionKept ==
    ASSUME TypeInv, TypeInv', Position, [Next]_vars
    PROVE  Position'
<1> USE DEF Position, Looping, Building, env, kernel, locals, ghost, Goto
<1>0. /\ tun \in Configs /\ entry \in Nat /\ idx \in 0..FieldMax /\ FieldMax \in Nat
      /\ Before(tun, 1) = 0 /\ Before(tun, entry) \in Nat /\ NoHash \notin Configs
      /\ Len(tun) \in Nat
  BY BeforeCounts, FieldMaxAssumption, SentinelAssumption, ConfigLength DEF TypeInv, TypeOK
<1>1. CASE UNCHANGED vars
  BY <1>1 DEF vars, AtClient
<1>2. CASE StartApply \/ StartStop
  BY <1>2 DEF StartApply, StartStop
<1>3. CASE Check
  <2>1. CASE \E r \in {"empty", "uptodate"} : Exit(r)
    BY <1>3, <2>1, ExitPosition DEF Check
  <2>2. CASE Goto(IF StopFirst THEN "purgeJump" ELSE "createChain") /\ UNCHANGED locals
    BY <1>0, <1>3, <2>2 DEF Check, Control, StopFirst, TypeInv
  <2> QED BY <1>3, <2>1, <2>2 DEF Check
<1>4. CASE PurgeJump \/ FlushChain
  BY <1>4 DEF PurgeJump, FlushChain
<1>5. CASE DropChain
  <2>1. CASE Lost
    BY <1>5, <2>1, ExitPosition DEF Lost, DropChain
  <2>2. CASE ~Lost
    BY <1>5, <2>2 DEF DropChain
  <2> QED BY <2>1, <2>2
<1>6. CASE DelRules
  BY <1>6 DEF DelRules
<1>7. CASE RmHash
  BY <1>0, <1>7, ExitPosition DEF RmHash, Control, TypeInv
<1>8. CASE CreateChain \/ FlushOld
  <2>1. CASE Lost
    BY <1>8, <2>1, ExitPosition DEF Lost, CreateChain, FlushOld, Created
  <2>2. CASE Created
    BY <1>0, <1>8, <2>2 DEF CreateChain, FlushOld, Created
  <2>3. CASE Goto("flushOld") /\ UNCHANGED <<chain, locals, ghost>>
    BY <1>8, <2>3 DEF CreateChain, FlushOld, Lost, Created
  <2> QED BY <1>8, <2>1, <2>2, <2>3 DEF CreateChain, FlushOld
<1>9. CASE ReadBasePos
  BY <1>9 DEF ReadBasePos
<1>10. CASE NextTunnel
  <2>1. CASE entry > Len(tun) /\ Goto("sync") /\ UNCHANGED entry
    BY <1>10, <2>1 DEF NextTunnel
  <2>2. CASE entry <= Len(tun) /\ Skipped(tun[entry]) /\ entry' = entry + 1 /\ UNCHANGED <<pc, outcome>>
    <3>1. entry \notin Usable(tun) \/ idx = FieldMax
      BY <1>0, <2>2 DEF Skipped, Usable
    <3>2. Before(tun, entry + 1) \in {Before(tun, entry), Before(tun, entry) + 1}
          /\ (entry \notin Usable(tun) => Before(tun, entry + 1) = Before(tun, entry))
      BY <1>0, BeforeCounts
    <3> QED BY <1>0, <1>10, <2>2, <3>1, <3>2 DEF NextTunnel
  <2>3. CASE entry <= Len(tun) /\ ~Skipped(tun[entry]) /\ Goto("client") /\ UNCHANGED entry
    <3>1. entry \in 1..Len(tun)
      BY <1>0, <2>3 DEF TypeInv, TypeOK
    <3>2. entry \in Usable(tun)
      BY <2>3, <3>1 DEF Skipped, Usable
    <3> QED BY <1>10, <2>3, <3>2 DEF NextTunnel
  <2> QED BY <1>10, <2>1, <2>2, <2>3 DEF NextTunnel
<1>11. CASE NextClient
  BY <1>11 DEF NextClient, AtClient
<1>12. CASE Exclude
  <2>1. CASE Lost
    BY <1>12, <2>1, ExitPosition DEF Lost, Exclude
  <2>2. CASE ~Lost
    BY <1>12, <2>2 DEF Exclude, AtClient
  <2> QED BY <2>1, <2>2
<1>13. CASE Mark
  <2>1. CASE Lost
    BY <1>13, <2>1, ExitPosition DEF Lost, Mark
  <2>2. CASE ~Lost
    BY <1>13, <2>2 DEF Mark, AtClient
  <2> QED BY <2>1, <2>2
<1>14. CASE DelIpRule
  BY <1>14 DEF DelIpRule
<1>15. CASE AddIpRule
  <2>1. Before(tun, entry + 1) = Before(tun, entry) + 1
    BY <1>0, <1>15, BeforeCounts DEF AddIpRule
  <2>2. idx < FieldMax /\ pc = "addIpRule"
    BY <1>15 DEF AddIpRule, TypeInv, Control
  <2> QED BY <1>0, <1>15, <2>1, <2>2 DEF AddIpRule
<1>16. CASE SyncJump \/ InsertJump
  BY <1>16 DEF SyncJump, InsertJump
<1>17. CASE SaveHash
  BY <1>17, ExitPosition DEF SaveHash
<1>18. CASE Kill
  BY <1>18, ExitPosition DEF Kill
<1>19. CASE SaveConfig \/ IpSetCreated
  BY <1>19 DEF AtClient, SaveConfig, IpSetCreated
<1>20. CASE Firmware
  BY <1>20 DEF Firmware, FirewallReload, VpnUp, VpnDown, AtClient
<1> QED BY <1>1, <1>2, <1>3, <1>4, <1>5, <1>6, <1>7, <1>8, <1>9, <1>10, <1>11, <1>12, <1>13,
           <1>14, <1>15, <1>16, <1>17, <1>18, <1>19, <1>20 DEF Next, Script

-----------------------------------------------------------------------------
(* The ip rules.                                                            *)

\* No ip rule is no foreign one.
LEMMA NoneOwned ==
    ASSUME \A p \in Prefs : ipRules[p] = NoTable
    PROVE  \A c : OwnedBy(c)
BY DEF OwnedBy

LEMMA OwnRulesKept ==
    ASSUME StopInv, StopInv', Position, OwnRules, [Next]_vars
    PROVE  OwnRules'
<1> USE DEF OwnRules, Looping, Building, env, kernel, locals, ghost, Goto
<1> SUFFICES ASSUME faults' \cap {"kill", "lost"} = {}
             PROVE  /\ hash' # NoHash => OwnedBy(hash)'
                    /\ hash' = NoHash /\ pc' \in Building => OwnedBy(tun)'
                    /\ hash' = NoHash /\ pc' \notin Building \cup {"delRules"} =>
                          \A p \in Prefs : ipRules'[p] = NoTable
  OBVIOUS
<1>0. /\ tun \in Configs /\ entry \in Nat /\ idx \in 0..FieldMax /\ FieldMax \in Nat
      /\ NoHash \notin Configs /\ ipRules \in [Prefs -> Tables \cup {NoTable}]
  BY FieldMaxAssumption, SentinelAssumption DEF StopInv, TypeInv, TypeOK
<1>1. CASE UNCHANGED vars
  BY <1>1 DEF vars, OwnedBy
<1>2. CASE StartApply \/ StartStop
  BY <1>2 DEF StartApply, StartStop, OwnedBy
<1>3. CASE Check
  BY <1>3, NoneOwned DEF Check, StopFirst, OwnedBy, Exit
<1>4. CASE PurgeJump \/ FlushChain
  BY <1>4 DEF PurgeJump, FlushChain, OwnedBy
<1>5. CASE DropChain
  BY <1>5 DEF DropChain, Lost, Noted, OwnedBy
<1>6. CASE DelRules
  <2>1. CASE idx \in StopPrefs
    <3>1. /\ ipRules' = [ipRules EXCEPT ![idx] = NoTable] /\ pc' = pc /\ pc = "delRules"
          /\ hash' = hash /\ faults' = faults
      BY <1>6, <2>1 DEF DelRules
    <3>2. hash # NoHash => OwnedBy(hash)'
      <4> SUFFICES ASSUME hash # NoHash PROVE OwnedBy(hash)'
        OBVIOUS
      <4>1. OwnedBy(hash)
        BY <3>1
      <4> QED BY <1>0, <3>1, <4>1 DEF OwnedBy
    <3> QED BY <3>1, <3>2
  <2>2. CASE idx \notin StopPrefs
    <3>1. UNCHANGED <<ipRules, hash, faults>> /\ pc' = "rmHash"
      BY <1>6, <2>2 DEF DelRules
    <3>2. \A p \in Prefs : ipRules'[p] = NoTable
      BY <3>1 DEF StopInv, Stopping
    <3> QED BY <3>1, <3>2 DEF OwnedBy
  <2> QED BY <2>1, <2>2
<1>7. CASE RmHash
  <2>1. \A p \in Prefs : ipRules[p] = NoTable
    BY <1>7 DEF RmHash, StopInv, Stopping
  <2> QED BY <1>7, <2>1 DEF RmHash, Exit, OwnedBy
<1>8. CASE CreateChain \/ FlushOld
  BY <1>8 DEF CreateChain, FlushOld, Created, Lost, Noted, OwnedBy
<1>9. CASE ReadBasePos
  BY <1>9 DEF ReadBasePos, OwnedBy
<1>10. CASE NextTunnel
  BY <1>10 DEF NextTunnel, OwnedBy
<1>11. CASE NextClient
  BY <1>11 DEF NextClient, OwnedBy
<1>12. CASE Exclude
  BY <1>12 DEF Exclude, AtClient, Lost, Noted, OwnedBy
<1>13. CASE Mark
  BY <1>13 DEF Mark, AtClient, Lost, Noted, OwnedBy
<1>14. CASE DelIpRule
  <2>1. /\ ipRules' = [ipRules EXCEPT ![idx] = NoTable] /\ pc = "delIpRule" /\ pc' = "addIpRule"
        /\ UNCHANGED <<hash, faults, tun>> /\ hash = NoHash
    BY <1>14 DEF DelIpRule, Position
  <2>2. OwnedBy(tun)
    BY <2>1
  <2>3. OwnedBy(tun)'
    BY <1>0, <2>1, <2>2 DEF OwnedBy
  <2> QED BY <2>1, <2>3
<1>15. CASE AddIpRule
  <2>1. /\ pc = "addIpRule" /\ pc' = "tunnel" /\ UNCHANGED <<hash, tun>> /\ hash = NoHash
        /\ faults \cap {"kill", "lost"} = {}
        /\ UNCHANGED ipRules \/ ipRules' = [ipRules EXCEPT ![idx] = tun[entry].table]
    BY <1>15 DEF AddIpRule, Position
  <2>2. entry \in Usable(tun) /\ idx < FieldMax /\ idx = Before(tun, entry)
    BY <2>1 DEF Position, StopInv, TypeInv, Control
  <2>3. entry \in Served(tun) /\ SlotNumber(tun, entry) = idx + 1
    BY <1>0, <2>2, SlotIsNext DEF Served
  <2>4. OwnedBy(tun)
    BY <2>1
  <2> QED BY <1>0, <2>1, <2>3, <2>4 DEF OwnedBy
<1>16. CASE SyncJump \/ InsertJump
  BY <1>16 DEF SyncJump, InsertJump, OwnedBy
<1>17. CASE SaveHash
  <2>1. pc = "saveHash" /\ hash = NoHash /\ hash' = tun /\ UNCHANGED <<ipRules, faults>>
    BY <1>17 DEF SaveHash, Position
  <2>2. OwnedBy(tun)
    BY <2>1
  <2> QED BY <1>0, <2>1, <2>2 DEF OwnedBy
<1>18. CASE Kill
  BY <1>18 DEF Kill
<1>19. CASE SaveConfig \/ IpSetCreated
  BY <1>19 DEF SaveConfig, IpSetCreated, OwnedBy
<1>20. CASE Firmware
  BY <1>20 DEF Firmware, FirewallReload, VpnUp, VpnDown, Noted, OwnedBy
<1> QED BY <1>1, <1>2, <1>3, <1>4, <1>5, <1>6, <1>7, <1>8, <1>9, <1>10, <1>11, <1>12, <1>13,
           <1>14, <1>15, <1>16, <1>17, <1>18, <1>19, <1>20 DEF Next, Script

-----------------------------------------------------------------------------
(* The order of the rules in the chain.                                     *)

\* A rule put last comes after all that are there, and moves none.
LEMMA AllBornExtends ==
    ASSUME NEW ch \in Seq(ChainRules), NEW r \in ChainRules, NEW c, NEW sets, NEW n \in Served(c),
           AllBorn(ch, c, sets), LanClient(c, n, r.client),
           \A m \in Served(c) : m < n =>
              \A x \in Clients : LanClient(c, m, x) => HasRule(ch, MarkRule(x, SlotNumber(c, m))),
           \/ r.slot = 0 /\ r.set \in ToSet(c[n].exclude) \cap sets
           \/ /\ r.slot = SlotNumber(c, n) /\ r.set = NoSet
              /\ \A s \in ToSet(c[n].exclude) \cap sets : HasRule(ch, ReturnRule(r.client, s))
    PROVE  AllBorn(EnsureRule(ch, r), c, sets)
<1>1. CASE HasRule(ch, r)
  BY <1>1 DEF EnsureRule
<1>2. CASE ~HasRule(ch, r)
  <2> DEFINE d == Append(ch, r)
             l == Len(ch) + 1
  <2>1. /\ Len(ch) \in Nat /\ Len(d) = l /\ d[l] = r
        /\ \A i \in 1..Len(ch) : d[i] = ch[i]
    OBVIOUS
  <2>2. EnsureRule(ch, r) = d
    BY <1>2 DEF EnsureRule
  <2> HIDE DEF d
  <2>3. \A i \in 1..Len(ch) : \A q : HasBelow(ch, i, q) => HasBelow(d, i, q)
    BY <2>1 DEF HasBelow
  <2>4. \A q : HasRule(ch, q) => HasBelow(d, l, q)
    BY <2>1 DEF HasBelow, HasRule
  <2> HIDE DEF l
  <2>5. ASSUME NEW i \in 1..Len(ch) PROVE \E m \in Served(c) : Born(d, i, c, sets, m)
    <3>1. PICK m \in Served(c) : Born(ch, i, c, sets, m)
      BY DEF AllBorn
    <3>2. d[i] = ch[i]
      BY <2>1
    <3>3. Born(d, i, c, sets, m)
      BY <3>1, <3>2, <2>3 DEF Born
    <3> QED BY <3>3
  <2>6. Born(d, l, c, sets, n)
    BY <2>1, <2>4 DEF Born
  <2>7. 1..Len(d) = 1..Len(ch) \cup {l}
    BY <2>1 DEF l
  <2> QED BY <2>2, <2>5, <2>6, <2>7 DEF AllBorn
<1> QED BY <1>1, <1>2

\* The client being processed, its tunnel and its slot.
LEMMA ClientAtHand ==
    ASSUME TypeInv, Position, AtClient
    PROVE  /\ entry \in Served(tun) /\ SlotNumber(tun, entry) = idx + 1
           /\ entry \in 1..Len(tun) /\ cl \in 1..Len(tun[entry].clients)
           /\ tun[entry].clients[cl] \in Clients /\ tun[entry].exclude \in Seq(IpSets)
           /\ LanClient(tun, entry, tun[entry].clients[cl])
           /\ idx + 1 \in 1..FieldMax
<1>1. /\ pc = "client" /\ cl <= Len(tun[entry].clients) /\ tun[entry].clients[cl] \in LanClients
  BY DEF AtClient
<1>2. /\ tun \in Configs /\ entry \in 1..Len(tun) /\ idx \in 0..FieldMax /\ FieldMax \in Nat
      /\ idx < FieldMax /\ cl \in Nat \ {0} /\ entry \in Usable(tun) /\ idx = Before(tun, entry)
  BY <1>1, FieldMaxAssumption DEF TypeInv, TypeOK, Control, Position, Building, Looping
<1>3. SlotNumber(tun, entry) = idx + 1
  BY <1>2, SlotIsNext
<1>4. tun[entry].clients \in Seq(Clients) /\ tun[entry].exclude \in Seq(IpSets)
  BY <1>2, EntryType
<1>5. cl \in 1..Len(tun[entry].clients)
  BY <1>1, <1>2, <1>4
<1>6. tun[entry].clients[cl] \in Clients
  BY <1>4, <1>5, ElementOfSeq
<1> QED BY <1>1, <1>2, <1>3, <1>4, <1>5, <1>6 DEF Served, LanClient

LEMMA ExclusionAdded ==
    ASSUME TypeInv, Position, ChainSound, Progress, AtClient, chain # NoChain,
           ex <= Len(tun[entry].exclude), tun[entry].exclude[ex] \in ipsets
    PROVE  AllBorn(EnsureRule(chain, ReturnRule(tun[entry].clients[cl], tun[entry].exclude[ex])),
                   tun, ipsets)
<1> DEFINE x == tun[entry].clients[cl]
           s == tun[entry].exclude[ex]
           r == ReturnRule(x, s)
<1>1. pc = "client" /\ built = tun /\ builtSets = ipsets /\ AllBorn(chain, tun, ipsets)
      /\ chain \in Seq(ChainRules) /\ ex \in Nat \ {0} /\ ipsets \subseteq IpSets
  BY DEF AtClient, Position, Looping, ChainSound, TypeInv, TypeOK
<1>2. r \in ChainRules
  BY <1>1, ClientAtHand, RulesAreTyped
<1>3. r.client = x /\ r.slot = 0 /\ r.set = s
  BY DEF ReturnRule
<1>4. s \in ToSet(tun[entry].exclude)
  <2>1. ex \in 1..Len(tun[entry].exclude)
    BY <1>1, ClientAtHand
  <2> QED BY <2>1 DEF ToSet
<1>5. \A m \in Served(tun) : m < entry =>
          \A y \in Clients : LanClient(tun, m, y) => HasRule(chain, MarkRule(y, SlotNumber(tun, m)))
  BY <1>1 DEF Progress, TunnelsDone, Looping, Marked
<1> HIDE DEF x, s, r
<1>6. LanClient(tun, entry, x) /\ entry \in Served(tun)
  BY ClientAtHand DEF x
<1>7. AllBorn(EnsureRule(chain, r), tun, ipsets)
  <2>1. s \in ToSet(tun[entry].exclude) \cap ipsets
    BY <1>4 DEF s
  <2> QED BY <1>1, <1>2, <1>3, <1>5, <1>6, <2>1, AllBornExtends
<1> QED BY <1>7 DEF r, x, s

LEMMA MarkAdded ==
    ASSUME TypeInv, Position, ChainSound, Progress, AtClient, chain # NoChain,
           ex > Len(tun[entry].exclude)
    PROVE  AllBorn(EnsureRule(chain, MarkRule(tun[entry].clients[cl], idx + 1)), tun, ipsets)
<1> DEFINE x == tun[entry].clients[cl]
           r == MarkRule(x, idx + 1)
<1>1. pc = "client" /\ built = tun /\ builtSets = ipsets /\ AllBorn(chain, tun, ipsets)
      /\ chain \in Seq(ChainRules) /\ ex \in Nat \ {0} /\ ipsets \subseteq IpSets
  BY DEF AtClient, Position, Looping, ChainSound, TypeInv, TypeOK
<1>2. r \in ChainRules
  BY ClientAtHand, RulesAreTyped
<1>3. r.client = x /\ r.slot = SlotNumber(tun, entry) /\ r.set = NoSet
  BY ClientAtHand DEF MarkRule
<1>4. \A s \in ToSet(tun[entry].exclude) \cap ipsets : HasRule(chain, ReturnRule(x, s))
  <2>1. ASSUME NEW k \in 1..Len(tun[entry].exclude), tun[entry].exclude[k] \in ipsets
        PROVE  HasRule(chain, ReturnRule(x, tun[entry].exclude[k]))
    <3>1. k < ex
      BY <1>1, ClientAtHand
    <3> QED BY <1>1, <2>1, <3>1 DEF Progress, ExclusionsDone, Looping
  <2> QED BY <2>1 DEF ToSet
<1>5. \A m \in Served(tun) : m < entry =>
          \A y \in Clients : LanClient(tun, m, y) => HasRule(chain, MarkRule(y, SlotNumber(tun, m)))
  BY <1>1 DEF Progress, TunnelsDone, Looping, Marked
<1> HIDE DEF x, r
<1>6. LanClient(tun, entry, x) /\ entry \in Served(tun)
  BY ClientAtHand DEF x
<1>7. AllBorn(EnsureRule(chain, r), tun, ipsets)
  BY <1>1, <1>2, <1>3, <1>4, <1>5, <1>6, AllBornExtends
<1> QED BY <1>7 DEF r, x

LEMMA ChainSoundKept ==
    ASSUME TypeInv, Position, ChainSound, Progress, [Next]_vars
    PROVE  ChainSound'
<1> USE DEF ChainSound, env, kernel, locals, ghost
<1>0. \A c, sets : AllBorn(<<>>, c, sets)
  BY DEF AllBorn
<1>1. CASE UNCHANGED <<chain, built, builtSets>>
  BY <1>1
<1>2. CASE FlushChain
  BY <1>0, <1>2 DEF FlushChain
<1>3. CASE DropChain
  BY <1>3 DEF DropChain, Lost
<1>4. CASE CreateChain \/ FlushOld
  BY <1>0, <1>4 DEF CreateChain, FlushOld, Created, CreateFlushed, Lost
<1>5. CASE Exclude
  <2>1. pc = "client" /\ built = tun /\ builtSets = ipsets
    BY <1>5 DEF Exclude, AtClient, Position, Looping
  <2>2. CASE UNCHANGED <<chain, built, builtSets>>
    BY <2>2
  <2>3. CASE chain # NoChain /\ ~UNCHANGED <<chain, built, builtSets>>
    <3>1. /\ AtClient /\ ex <= Len(tun[entry].exclude) /\ tun[entry].exclude[ex] \in ipsets
          /\ chain' = EnsureRule(chain, ReturnRule(tun[entry].clients[cl], tun[entry].exclude[ex]))
          /\ UNCHANGED <<built, builtSets>>
      BY <1>5, <2>3 DEF Exclude, Lost
    <3> QED BY <2>1, <2>3, <3>1, ExclusionAdded
  <2> QED BY <1>5, <2>2, <2>3 DEF Exclude, Lost
<1>6. CASE Mark
  <2>1. pc = "client" /\ built = tun /\ builtSets = ipsets
    BY <1>6 DEF Mark, AtClient, Position, Looping
  <2>2. CASE UNCHANGED <<chain, built, builtSets>>
    BY <2>2
  <2>3. CASE chain # NoChain /\ ~UNCHANGED <<chain, built, builtSets>>
    <3>1. /\ AtClient /\ ex > Len(tun[entry].exclude)
          /\ chain' = EnsureRule(chain, MarkRule(tun[entry].clients[cl], idx + 1))
          /\ UNCHANGED <<built, builtSets>>
      BY <1>6, <2>3 DEF Mark, Lost
    <3> QED BY <2>1, <2>3, <3>1, MarkAdded
  <2> QED BY <1>6, <2>2, <2>3 DEF Mark, Lost
<1>7. CASE FirewallReload
  BY <1>7 DEF FirewallReload
<1>8. CASE \/ StartApply \/ StartStop \/ Check \/ PurgeJump \/ DelRules \/ RmHash \/ ReadBasePos
           \/ NextTunnel \/ NextClient \/ DelIpRule \/ AddIpRule \/ SyncJump \/ InsertJump \/ SaveHash
           \/ Kill \/ SaveConfig \/ IpSetCreated \/ VpnUp \/ VpnDown
  <2>1. UNCHANGED <<chain, built, builtSets>>
    BY <1>8 DEF StartApply, StartStop, Check, PurgeJump, DelRules, RmHash, ReadBasePos,
                NextTunnel, NextClient, DelIpRule, AddIpRule, SyncJump, InsertJump, SaveHash,
                Kill, SaveConfig, IpSetCreated, VpnUp, VpnDown
  <2> QED BY <1>1, <2>1
<1>9. CASE UNCHANGED vars
  BY <1>1, <1>9 DEF vars
<1> QED BY <1>2, <1>3, <1>4, <1>5, <1>6, <1>7, <1>8, <1>9 DEF Next, Script, Firmware

\* Rules added to the chain, and the loss of it, undo nothing.
LEMMA DoneKept ==
    ASSUME \/ chain' = NoChain
           \/ chain # NoChain /\ \A q : HasRule(chain, q) => HasRule(chain', q),
           UNCHANGED <<tun, ipRules>>, faults \subseteq faults'
    PROVE  /\ \A n : RuleSet(tun, n) => RuleSet(tun, n)'
           /\ TunnelsDone /\ entry' = entry => TunnelsDone'
           /\ ClientsDone /\ UNCHANGED <<pc, entry, cl, idx>> => ClientsDone'
           /\ ExclusionsDone /\ UNCHANGED <<pc, entry, cl, ex, ipsets>> => ExclusionsDone'
<1>1. \A n : RuleSet(tun, n) => RuleSet(tun, n)'
  BY DEF RuleSet
<1>2. TunnelsDone /\ entry' = entry => TunnelsDone'
  BY <1>1 DEF TunnelsDone, Marked
<1>3. ClientsDone /\ UNCHANGED <<pc, entry, cl, idx>> => ClientsDone'
  BY DEF ClientsDone
<1>4. ExclusionsDone /\ UNCHANGED <<pc, entry, cl, ex, ipsets>> => ExclusionsDone'
  BY DEF ExclusionsDone, AtClient
<1> QED BY <1>1, <1>2, <1>3, <1>4

\* The steps inside the loop over the clients.
LEMMA ClientProgress ==
    ASSUME TypeInv, Position, Progress, NextClient \/ Exclude \/ Mark
    PROVE  Progress'
<1> USE DEF env, kernel, locals, ghost, Goto
<1>1. /\ pc = "client" /\ TunnelsDone /\ ClientsDone /\ ExclusionsDone
      /\ cl \in Nat \ {0} /\ ex \in Nat \ {0} /\ UNCHANGED <<ipRules, ipsets>>
  BY DEF NextClient, Exclude, Mark, AtClient, Progress, Looping, TypeInv, TypeOK
<1>2. CASE NextClient
  <2>1. UNCHANGED <<chain, tun, ipRules, faults, entry, idx, ipsets, ex>> /\ ~AtClient /\ ex = 1
    BY <1>1, <1>2 DEF NextClient, AtClient, Position
  <2>2. TunnelsDone'
    BY <1>1, <2>1 DEF TunnelsDone, Marked, RuleSet
  <2>3. ClientsDone' /\ pc' # "addIpRule"
    BY <1>1, <1>2, <2>1 DEF NextClient, ClientsDone
  <2>4. ExclusionsDone'
    BY <2>1 DEF ExclusionsDone
  <2> QED BY <2>2, <2>3, <2>4 DEF Progress
<1>3. CASE Exclude
  <2> DEFINE x == tun[entry].clients[cl]
             s == tun[entry].exclude[ex]
  <2>1. AtClient /\ ex <= Len(tun[entry].exclude)
    BY <1>3 DEF Exclude
  <2>2. CASE Lost
    BY <2>2 DEF Lost, Exit, Progress, Looping
  <2>3. CASE ~Lost
    <3>1. ex' = ex + 1 /\ UNCHANGED <<pc, tun, entry, cl, idx, faults>>
      BY <1>3, <2>3 DEF Exclude
    <3>2. \/ s \notin ipsets /\ chain' = chain
          \/ chain # NoChain /\ chain' = EnsureRule(chain, ReturnRule(x, s))
      BY <1>3, <2>3 DEF Exclude
    <3>3. chain # NoChain /\ chain' # chain =>
              /\ \A q : HasRule(chain, q) => HasRule(chain', q)
              /\ HasRule(chain', ReturnRule(x, s))
      <4> SUFFICES ASSUME chain # NoChain, chain' # chain
                   PROVE  /\ \A q : HasRule(chain, q) => HasRule(chain', q)
                          /\ HasRule(chain', ReturnRule(x, s))
        OBVIOUS
      <4>1. s \in IpSets /\ x \in Clients /\ chain \in Seq(ChainRules)
        <5>1. tun[entry].exclude \in Seq(IpSets) /\ ex \in 1..Len(tun[entry].exclude)
          BY <1>1, <2>1, ClientAtHand
        <5> QED BY <5>1, <2>1, ClientAtHand, ElementOfSeq DEF TypeInv, TypeOK
      <4>2. ReturnRule(x, s) \in ChainRules
        BY <4>1, RulesAreTyped
      <4> QED BY <3>2, <4>1, <4>2, EnsureRuleHas
    <3> HIDE DEF x, s
    <3>4. \A q : chain # NoChain /\ HasRule(chain, q) => HasRule(chain', q)
      BY <3>3
    <3>5. chain' # NoChain => chain # NoChain
      BY <3>2
    <3>6. TunnelsDone' /\ ClientsDone'
      BY <1>1, <3>1, <3>4, <3>5 DEF TunnelsDone, ClientsDone, Marked, RuleSet
    <3>7. ExclusionsDone'
      <4>1. ASSUME NEW k \in 1..Len(tun[entry].exclude), k < ex + 1, chain' # NoChain,
                   tun[entry].exclude[k] \in ipsets
            PROVE  HasRule(chain', ReturnRule(x, tun[entry].exclude[k]))
        <5>1. CASE k < ex
          BY <1>1, <2>1, <3>4, <3>5, <4>1, <5>1 DEF ExclusionsDone, x
        <5>2. CASE k = ex
          <6>1. HasRule(EnsureRule(chain, ReturnRule(x, s)), ReturnRule(x, s))
            <7>1. s \in IpSets /\ x \in Clients /\ chain \in Seq(ChainRules)
              BY <3>5, <4>1, <5>2, <2>1, ClientAtHand DEF x, s, TypeInv, TypeOK
            <7> QED BY <7>1, RulesAreTyped, EnsureRuleHas
          <6> QED BY <3>2, <4>1, <5>2, <6>1 DEF s
        <5> QED BY <1>1, <4>1, <5>1, <5>2
      <4> QED BY <1>1, <3>1, <4>1 DEF ExclusionsDone, x
    <3> QED BY <1>1, <3>1, <3>6, <3>7 DEF Progress
  <2> QED BY <2>2, <2>3
<1>4. CASE Mark
  <2> DEFINE x == tun[entry].clients[cl]
             r == MarkRule(x, idx + 1)
  <2>1. AtClient
    BY <1>4 DEF Mark
  <2>2. CASE Lost
    BY <2>2 DEF Lost, Exit, Progress, Looping
  <2>3. CASE ~Lost
    <3>1. /\ cl' = cl + 1 /\ ex' = 1 /\ UNCHANGED <<pc, tun, entry, idx, faults>>
          /\ chain # NoChain /\ chain' = EnsureRule(chain, r)
      BY <1>4, <2>3 DEF Mark
    <3>2. r \in ChainRules /\ chain \in Seq(ChainRules)
      BY <2>1, <3>1, ClientAtHand, RulesAreTyped DEF TypeInv, TypeOK
    <3>3. HasRule(chain', r) /\ \A q : HasRule(chain, q) => HasRule(chain', q)
      BY <3>1, <3>2, EnsureRuleHas
    <3>4. TunnelsDone'
      BY <1>1, <3>1, <3>3 DEF TunnelsDone, Marked, RuleSet
    <3>5. ClientsDone'
      <4>1. ASSUME NEW k \in 1..Len(tun[entry].clients), k < cl + 1, tun[entry].clients[k] \in LanClients
            PROVE  HasRule(chain', MarkRule(tun[entry].clients[k], idx + 1))
        <5>1. CASE k < cl
          BY <1>1, <3>1, <3>3, <4>1, <5>1 DEF ClientsDone
        <5>2. CASE k = cl
          BY <3>3, <5>2
        <5> QED BY <1>1, <4>1, <5>1, <5>2
      <4> QED BY <3>1, <4>1 DEF ClientsDone
    <3>6. ExclusionsDone'
      BY <3>1 DEF ExclusionsDone
    <3> QED BY <1>1, <3>1, <3>4, <3>5, <3>6 DEF Progress
  <2> QED BY <2>2, <2>3
<1> QED BY <1>2, <1>3, <1>4

\* The steps on the ip rule of the tunnel at hand.
LEMMA RuleProgress ==
    ASSUME TypeInv, Position, Progress, DelIpRule \/ AddIpRule
    PROVE  Progress'
<1> USE DEF env, kernel, locals, ghost, Goto
<1>1. /\ pc \in {"delIpRule", "addIpRule"} /\ TunnelsDone /\ ClientsDone
      /\ tun \in Configs /\ entry \in Usable(tun) /\ cl > Len(tun[entry].clients)
      /\ idx < FieldMax /\ idx \in Nat /\ FieldMax \in Nat
      /\ ipRules \in [Prefs -> Tables \cup {NoTable}] /\ cl \in Nat
  BY FieldMaxAssumption
  DEF DelIpRule, AddIpRule, Progress, Position, Looping, Building, TypeInv, TypeOK, Control
<1>2. SlotNumber(tun, entry) = idx + 1 /\ entry \in Served(tun) /\ entry \in Nat /\ idx \in Prefs
  <2>1. idx = Before(tun, entry)
    BY <1>1 DEF Position, Building, Looping
  <2> QED BY <1>1, <2>1, SlotIsNext DEF Served, Prefs
<1>3. ASSUME NEW n \in Served(tun), n < entry
      PROVE  SlotNumber(tun, n) - 1 \in Prefs /\ SlotNumber(tun, n) - 1 # idx
  <2>1. n \in Usable(tun) /\ SlotNumber(tun, n) \in 1..FieldMax /\ SlotNumber(tun, n) - 1 \in Prefs
    BY <1>1, ServedSlot
  <2>2. SlotNumber(tun, n) < SlotNumber(tun, entry)
    BY <1>1, <1>3, <2>1, SlotsGrow
  <2> QED BY <1>1, <1>2, <2>1, <2>2
<1>4. CASE DelIpRule
  <2>1. /\ ipRules' = [ipRules EXCEPT ![idx] = NoTable] /\ pc' = "addIpRule"
        /\ UNCHANGED <<chain, tun, entry, cl, idx, faults>>
    BY <1>4 DEF DelIpRule
  <2>2. TunnelsDone'
    BY <1>1, <1>3, <2>1 DEF TunnelsDone, RuleSet, Marked
  <2>3. ClientsDone'
    BY <1>1, <2>1 DEF ClientsDone
  <2>4. ExclusionsDone' /\ ipRules'[idx'] = NoTable
    BY <1>1, <1>2, <2>1 DEF ExclusionsDone, AtClient
  <2> QED BY <2>2, <2>3, <2>4 DEF Progress
<1>5. CASE AddIpRule
  <2>1. /\ pc = "addIpRule" /\ pc' = "tunnel" /\ entry' = entry + 1 /\ ipRules[idx] = NoTable
        /\ UNCHANGED <<chain, tun>> /\ faults \subseteq faults'
        /\ \/ ipRules' = [ipRules EXCEPT ![idx] = tun[entry].table]
           \/ ipRules' = ipRules /\ "iprule" \in faults'
    BY <1>5 DEF AddIpRule, Progress, Looping
  <2>2. ASSUME NEW n \in Served(tun), n < entry + 1
        PROVE  RuleSet(tun, n)' /\ (chain # NoChain => Marked(chain, tun, n)')
    <3>1. CASE n < entry
      <4>1. RuleSet(tun, n) /\ (chain # NoChain => Marked(chain, tun, n))
        BY <1>1, <3>1 DEF TunnelsDone
      <4>2. ipRules'[SlotNumber(tun, n) - 1] = ipRules[SlotNumber(tun, n) - 1]
        BY <1>1, <1>3, <2>1, <3>1
      <4>3. RuleSet(tun, n)'
        BY <2>1, <4>1, <4>2 DEF RuleSet
      <4> QED BY <2>1, <4>1, <4>3 DEF Marked
    <3>2. CASE n = entry
      <4>1. SlotNumber(tun, n) - 1 = idx
        BY <1>1, <1>2, <3>2
      <4>2. RuleSet(tun, n)'
        BY <1>1, <1>2, <2>1, <3>2, <4>1 DEF RuleSet
      <4>3. chain # NoChain => Marked(chain, tun, n)
        <5> SUFFICES ASSUME chain # NoChain, NEW x \in Clients, LanClient(tun, n, x)
                     PROVE  HasRule(chain, MarkRule(x, SlotNumber(tun, n)))
          BY DEF Marked
        <5>1. PICK k \in 1..Len(tun[entry].clients) : tun[entry].clients[k] = x /\ x \in LanClients
          BY <3>2 DEF LanClient
        <5>2. Len(tun[entry].clients) \in Nat
          BY <1>1, UsableFinite, EntryType, LenProperties
        <5>3. k < cl
          BY <1>1, <5>1, <5>2
        <5>4. HasRule(chain, MarkRule(tun[entry].clients[k], idx + 1))
          BY <1>1, <5>1, <5>3 DEF ClientsDone
        <5> QED BY <1>2, <3>2, <5>1, <5>4
      <4> QED BY <2>1, <4>2, <4>3 DEF Marked
    <3>3. n \in Nat
      BY <1>1, ServedSlot, UsableFinite
    <3> QED BY <1>2, <2>2, <3>1, <3>2, <3>3
  <2>3. TunnelsDone'
    BY <2>1, <2>2 DEF TunnelsDone
  <2> QED BY <2>1, <2>3 DEF Progress, ClientsDone, ExclusionsDone, AtClient
<1> QED BY <1>4, <1>5

LEMMA ProgressKept ==
    ASSUME TypeInv, Position, Progress, [Next]_vars
    PROVE  Progress'
<1> USE DEF Looping, env, kernel, locals, ghost, Goto
<1>1. CASE NextClient \/ Exclude \/ Mark
  BY <1>1, ClientProgress
<1>2. CASE DelIpRule \/ AddIpRule
  BY <1>2, RuleProgress
<1>3. CASE \/ StartApply \/ StartStop \/ Check \/ PurgeJump \/ FlushChain \/ DropChain
           \/ DelRules \/ RmHash \/ CreateChain \/ FlushOld \/ SaveHash \/ Kill
  <2>1. pc' \notin Looping
    BY <1>3 DEF StartApply, StartStop, Check, PurgeJump, FlushChain, DropChain, DelRules, RmHash,
                CreateChain, FlushOld, Created, Lost, SaveHash, Kill, Exit
  <2> QED BY <2>1 DEF Progress
<1>4. CASE ReadBasePos
  <2>1. pc' = "tunnel" /\ entry' = 1
    BY <1>4 DEF ReadBasePos, Position
  <2>2. \A n \in Served(tun)' : ~(n < 1)
    BY <1>4, ServedSlot, UsableFinite DEF ReadBasePos, TypeInv, TypeOK
  <2> QED BY <2>1, <2>2 DEF Progress, TunnelsDone, ClientsDone, ExclusionsDone, AtClient
<1>5. CASE NextTunnel
  <2>1. /\ pc = "tunnel" /\ TunnelsDone /\ UNCHANGED <<chain, tun, ipRules, faults, cl, ex, idx>>
        /\ cl = 1 /\ ex = 1 /\ tun \in Configs /\ entry \in Nat
    BY <1>5 DEF NextTunnel, Progress, Position, TypeInv, TypeOK
  <2>2. CASE entry' = entry
    <3>1. TunnelsDone'
      BY <2>1, <2>2 DEF TunnelsDone, RuleSet, Marked
    <3>2. ClientsDone' /\ ExclusionsDone'
      <4>1. tun' \in Configs /\ cl' = 1 /\ ex' = 1
        BY <2>1
      <4> QED BY <4>1 DEF ClientsDone, ExclusionsDone
    <3>3. pc' # "addIpRule"
      BY <1>5 DEF NextTunnel
    <3> QED BY <3>1, <3>2, <3>3 DEF Progress
  <2>3. CASE entry' = entry + 1
    <3>1. pc' = "tunnel" /\ entry <= Len(tun) /\ Skipped(tun[entry])
      BY <1>5, <2>1, <2>3 DEF NextTunnel
    <3>2. entry \notin Served(tun)
      <4> SUFFICES ASSUME entry \in Served(tun) PROVE FALSE
        OBVIOUS
      <4>1. /\ entry \in Usable(tun) /\ SlotNumber(tun, entry) \in 1..FieldMax
            /\ SlotNumber(tun, entry) = Before(tun, entry) + 1 /\ Before(tun, entry) \in Nat
        BY <2>1, ServedSlot, SlotIsNext, BeforeCounts
      <4>2. idx <= Before(tun, entry) /\ idx \in Nat /\ FieldMax \in Nat
        BY <2>1, FieldMaxAssumption DEF Position, Building, TypeInv, TypeOK
      <4>3. idx + 1 > FieldMax
        BY <3>1, <4>1 DEF Skipped, Usable
      <4> QED BY <4>1, <4>2, <4>3
    <3>3. \A n \in Served(tun) : n \in Nat
      BY <2>1, ServedSlot, UsableFinite
    <3>4. \A n \in Served(tun) : n < entry + 1 => n < entry
      BY <2>1, <3>2, <3>3
    <3>5. TunnelsDone'
      BY <2>1, <2>3, <3>4 DEF TunnelsDone, RuleSet, Marked
    <3> QED BY <3>1, <3>5 DEF Progress, ClientsDone, ExclusionsDone, AtClient
  <2> QED BY <1>5, <2>2, <2>3 DEF NextTunnel
<1>6. CASE SyncJump \/ InsertJump
  <2>1. /\ pc \in {"sync", "insertJump"} /\ pc' \in {"insertJump", "saveHash"}
        /\ TunnelsDone /\ UNCHANGED <<chain, tun, ipRules, faults, entry>>
    BY <1>6 DEF SyncJump, InsertJump, Progress
  <2>2. TunnelsDone'
    BY <2>1 DEF TunnelsDone, RuleSet, Marked
  <2> QED BY <2>1, <2>2 DEF Progress, ClientsDone, ExclusionsDone, AtClient
<1>7. CASE SaveConfig \/ IpSetCreated \/ Firmware \/ UNCHANGED vars
  <2>1. /\ UNCHANGED <<pc, tun, ipRules, entry, cl, ex, idx>> /\ chain' \in {chain, NoChain}
        /\ faults \subseteq faults' /\ (pc \in Looping => UNCHANGED ipsets)
    BY <1>7 DEF SaveConfig, IpSetCreated, Firmware, FirewallReload, VpnUp, VpnDown, Noted, vars
  <2> SUFFICES ASSUME pc \in Looping PROVE Progress'
    BY <2>1 DEF Progress
  <2>2. TunnelsDone /\ ClientsDone /\ ExclusionsDone
    BY DEF Progress
  <2>3. CASE chain' = NoChain
    <3>1. TunnelsDone' /\ ClientsDone' /\ ExclusionsDone'
      BY <2>1, <2>2, <2>3, DoneKept
    <3> QED BY <2>1, <3>1 DEF Progress
  <2>4. CASE chain' = chain /\ chain # NoChain
    <3>1. TunnelsDone' /\ ClientsDone' /\ ExclusionsDone'
      BY <2>1, <2>2, <2>4, DoneKept
    <3> QED BY <2>1, <3>1 DEF Progress
  <2> QED BY <2>1, <2>3, <2>4
<1> QED BY <1>1, <1>2, <1>3, <1>4, <1>5, <1>6, <1>7 DEF Next, Script

-----------------------------------------------------------------------------
(* The hash and the jump.                                                   *)

\* Only tunnel_apply's insertion puts the jump in.
LEMMA NoNewJump ==
    ASSUME TypeInv, [Next]_vars, ~(InsertJump /\ pc' = "saveHash")
    PROVE  HasRule(prerouting', TunJump) => HasRule(prerouting, TunJump)
<1> USE DEF env, kernel, locals, ghost
<1>0. prerouting \in Seq(PreroutingRules)
  BY DEF TypeInv, TypeOK
<1>1. CASE PurgeJump \/ InsertJump
  <2>1. prerouting' = prerouting \/ prerouting' = DeleteRule(prerouting, TunJump)
    BY <1>1 DEF PurgeJump, InsertJump, Goto
  <2> QED BY <1>0, <2>1, DeleteRuleKeeps
<1>2. CASE Firmware
  BY <1>2, FirmwareAddsNoJump DEF TypeInv
<1>3. CASE ~PurgeJump /\ ~InsertJump /\ ~Firmware
  <2>1. UNCHANGED prerouting
    BY <1>3 DEF Next, Script, vars, StartApply, StartStop, Check, FlushChain, DropChain, DelRules,
                RmHash, CreateChain, FlushOld, ReadBasePos, NextTunnel, NextClient, Exclude, Mark,
                DelIpRule, AddIpRule, SyncJump, SaveHash, Kill, SaveConfig, IpSetCreated
  <2> QED BY <2>1
<1> QED BY <1>1, <1>2, <1>3

LEMMA JumpLastKept ==
    ASSUME StopInv, JumpLast, [Next]_vars
    PROVE  JumpLast'
<1> USE DEF env, kernel, locals, ghost, Goto
<1>0. TypeInv /\ hash \in Configs \cup {NoHash} /\ tun \in Configs /\ NoHash \notin Configs
  BY SentinelAssumption DEF StopInv, TypeInv, TypeOK
<1>1. CASE InsertJump /\ pc' = "saveHash"
  BY <1>1 DEF JumpLast
<1>2. CASE ~(InsertJump /\ pc' = "saveHash")
  <2>1. HasRule(prerouting', TunJump) => HasRule(prerouting, TunJump)
    BY <1>0, <1>2, NoNewJump
  <2>2. CASE RmHash
    BY <2>1, <2>2 DEF JumpLast, RmHash, StopInv, Stopping
  <2>3. CASE SaveHash
    BY <1>0, <2>3 DEF JumpLast, SaveHash
  <2>4. CASE Kill
    BY <2>4 DEF JumpLast, Kill
  <2>5. CASE ~RmHash /\ ~SaveHash /\ ~Kill
    <3>1. hash' = hash /\ faults \subseteq faults' /\ (pc = "saveHash" => pc' = pc)
      BY <2>5 DEF Next, Script, Firmware, vars, StartApply, StartStop, Check, PurgeJump, FlushChain,
                  DropChain, DelRules, CreateChain, FlushOld, Created, Lost, ReadBasePos, NextTunnel,
                  NextClient, Exclude, Mark, AtClient, DelIpRule, AddIpRule, SyncJump, InsertJump,
                  SaveConfig, IpSetCreated, FirewallReload, VpnUp, VpnDown, Noted
    <3> QED BY <2>1, <3>1 DEF JumpLast
  <2> QED BY <2>2, <2>3, <2>4, <2>5
<1> QED BY <1>1, <1>2

\* After the loops every tunnel is done.
LEMMA LoopsDone ==
    ASSUME TypeInv, Position, Progress, pc = "saveHash", NEW n \in Served(tun)
    PROVE  RuleSet(tun, n) /\ (chain # NoChain => Marked(chain, tun, n))
<1>1. n < entry
  <2>1. tun \in Configs /\ entry \in Nat /\ entry > Len(tun)
    BY DEF TypeInv, TypeOK, Position
  <2> QED BY <2>1, ServedSlot, UsableFinite
<1> QED BY <1>1 DEF Progress, TunnelsDone, Looping

LEMMA CertifiedKept ==
    ASSUME StopInv, Position, Progress, Certified, [Next]_vars
    PROVE  Certified'
<1> USE DEF env, kernel, locals, ghost, Goto
<1>0. TypeInv
  BY DEF StopInv
<1>1. CASE SaveHash
  <2>1. hash' = tun /\ UNCHANGED <<chain, ipRules, faults>> /\ pc = "saveHash"
    BY <1>1 DEF SaveHash
  <2>2. \A n \in Served(tun) : RuleSet(tun, n) /\ (chain # NoChain => Marked(chain, tun, n))
    BY <1>0, <2>1, LoopsDone
  <2> QED BY <2>1, <2>2 DEF Certified, RuleSet, Marked
<1>2. CASE ~SaveHash /\ (pc \in Building \/ RmHash)
  <2>1. CASE RmHash
    BY <2>1 DEF RmHash, Certified
  <2>2. CASE ~RmHash /\ pc \in Building
    <3>1. hash = NoHash
      BY <2>2 DEF Position
    <3>2. hash' = hash
      BY <1>2, <2>2 DEF Next, Script, Firmware, vars, StartApply, StartStop, Check, PurgeJump,
                  FlushChain, DropChain, DelRules, CreateChain, FlushOld, ReadBasePos, NextTunnel,
                  NextClient, Exclude, Mark, DelIpRule, AddIpRule, SyncJump, InsertJump, Kill,
                  SaveConfig, IpSetCreated, FirewallReload, VpnUp, VpnDown, Noted
    <3> QED BY <3>1, <3>2 DEF Certified
  <2> QED BY <1>2, <2>1, <2>2
<1>3. CASE FlushChain \/ DropChain \/ DelRules
  <2>1. ~HasRule(prerouting', TunJump)
    BY <1>3 DEF FlushChain, DropChain, DelRules, StopInv, Stopping
  <2> QED BY <2>1 DEF Certified
<1>4. CASE ~SaveHash /\ ~RmHash /\ ~FlushChain /\ ~DropChain /\ ~DelRules /\ pc \notin Building
  <2>1. /\ UNCHANGED <<hash, ipRules>> /\ chain' \in {chain, NoChain}
        /\ "iprule" \in faults => "iprule" \in faults'
        /\ ~InsertJump
    BY <1>4 DEF Next, Script, Firmware, vars, Building, Looping, StartApply, StartStop, Check, PurgeJump,
                CreateChain, FlushOld, ReadBasePos, NextTunnel, NextClient, Exclude, Mark, AtClient,
                DelIpRule, AddIpRule, SyncJump, InsertJump, Kill,
                SaveConfig, IpSetCreated, FirewallReload, VpnUp, VpnDown, Noted
  <2>2. HasRule(prerouting', TunJump) => HasRule(prerouting, TunJump)
    BY <1>0, <2>1, NoNewJump
  <2> QED BY <2>1, <2>2 DEF Certified, RuleSet, Marked
<1> QED BY <1>1, <1>2, <1>3, <1>4

-----------------------------------------------------------------------------
(* The invariant.                                                           *)

RouteInv ==
    /\ StopInv /\ Position /\ OwnRules
    /\ ChainSound /\ Progress /\ Certified /\ JumpLast

LEMMA RouteInvariant == Spec => []RouteInv
<1>1. Init /\ StopInv => RouteInv
  <2> SUFFICES ASSUME Init, StopInv PROVE RouteInv
    OBVIOUS
  <2> USE DEF Init
  <2>1. Position
    BY DEF Position, Looping, Building
  <2>2. Progress /\ ChainSound /\ Certified /\ JumpLast
    BY DEF Progress, ChainSound, Certified, JumpLast, Looping, HasRule
  <2>3. OwnRules
    BY DEF OwnRules, Building, Looping
  <2> QED BY <2>1, <2>2, <2>3 DEF RouteInv
<1>2. RouteInv /\ StopInv' /\ [Next]_vars => RouteInv'
  <2> SUFFICES ASSUME RouteInv, StopInv', [Next]_vars PROVE RouteInv'
    OBVIOUS
  <2>1. TypeInv /\ TypeInv'
    BY DEF RouteInv, StopInv
  <2>2. Position' /\ ChainSound' /\ Progress'
    BY <2>1, PositionKept, ChainSoundKept, ProgressKept DEF RouteInv
  <2>3. OwnRules' /\ Certified' /\ JumpLast'
    BY OwnRulesKept, CertifiedKept, JumpLastKept DEF RouteInv
  <2> QED BY <2>2, <2>3 DEF RouteInv
<1> QED BY <1>1, <1>2, StopInvariant, PTL DEF Spec

\* A certified configuration leaves no ip rule of an older one, unless a run was
\* cut short: tunnel_stop clears the preference range, every rebuild starts at it.
THEOREM NoRuleIsOrphan == Spec => []NoOrphanIpRules
<1>1. RouteInv => NoOrphanIpRules
  BY DEF RouteInv, OwnRules, OwnedBy, NoOrphanIpRules
<1> QED BY <1>1, RouteInvariant, PTL

-----------------------------------------------------------------------------
(* What the chain does to a packet.                                         *)

\* Rule i is the one that decides about a packet.
Decides(i, h, d) ==
    /\ i \in 1..Len(chain) /\ Matches(chain[i], h, d)
    /\ \A j \in 1..(i - 1) : ~Matches(chain[j], h, d)

LEMMA FirstMatch ==
    ASSUME TypeOK, chain # NoChain, NEW h, NEW d
    PROVE  \/ /\ SlotGiven(h, d) = 0
              /\ \A i \in 1..Len(chain) : ~Matches(chain[i], h, d)
           \/ \E i : Decides(i, h, d) /\ SlotGiven(h, d) = chain[i].slot
<1> DEFINE I == {i \in 1..Len(chain) : Matches(chain[i], h, d)}
           p == IF I # {} THEN Min(I) ELSE 0
<1>1. chain \in Seq(ChainRules) /\ Len(chain) \in Nat /\ I \in SUBSET (1..Len(chain))
  BY DEF TypeOK
<1>2. SlotGiven(h, d) = IF p = 0 THEN 0 ELSE chain[p].slot
  BY DEF SlotGiven, SelectInSeq
<1>3. CASE I = {}
  BY <1>2, <1>3
<1>4. CASE I # {}
  <2>1. Min(I) \in I /\ \A y \in I : Min(I) <= y
    BY <1>1, <1>4, MinInSet
  <2> DEFINE i == Min(I)
  <2>2. SlotGiven(h, d) = chain[i].slot
    BY <1>1, <1>2, <1>4, <2>1
  <2>3. Decides(i, h, d)
    <3> HIDE DEF i
    <3>1. i \in I /\ \A y \in I : i <= y
      BY <2>1 DEF i
    <3> QED BY <1>1, <3>1 DEF Decides
  <2> QED BY <2>2, <2>3
<1> QED BY <1>3, <1>4

\* The tunnels that serve a host, the first of them.
LEMMA FirstServing ==
    ASSUME NEW c \in Configs, NEW h, ServingTunnels(c, h) # {}
    PROVE  /\ Min(ServingTunnels(c, h)) \in ServingTunnels(c, h)
           /\ \A n \in ServingTunnels(c, h) : Min(ServingTunnels(c, h)) <= n
           /\ \A n \in ServingTunnels(c, h) : n \in Served(c) /\ n \in Nat \ {0}
<1>1. ServingTunnels(c, h) \subseteq Served(c)
  BY DEF ServingTunnels
<1>2. \A n \in Served(c) : n \in 1..Len(c)
  BY ServedSlot
<1>3. Len(c) \in Nat
  BY ConfigLength
<1>4. ServingTunnels(c, h) \in SUBSET (1..Len(c))
  BY <1>1, <1>2
<1> QED BY <1>1, <1>2, <1>3, <1>4, MinInSet

\* A packet is marked for the first tunnel that serves its host, or not at all.
LEMMA SlotDecided ==
    ASSUME TypeOK, ChainSound, chain # NoChain, NEW h \in Hosts, NEW d \in Dests,
           NEW i, Decides(i, h, d)
    PROVE  /\ ServingTunnels(built, h) # {}
           /\ LET n == Min(ServingTunnels(built, h))
              IN  \/ chain[i].slot = 0 /\ Excluded(built[n], builtSets, d)
                  \/ chain[i].slot = SlotNumber(built, n) /\ ~Excluded(built[n], builtSets, d)
<1> DEFINE S == ServingTunnels(built, h)
           x == chain[i].client
<1>1. /\ built \in Configs /\ i \in 1..Len(chain) /\ Len(chain) \in Nat /\ chain[i] \in ChainRules
      /\ i \in Nat /\ x \in Clients /\ builtSets \subseteq IpSets
  <2>1. chain \in Seq(ChainRules) /\ i \in 1..Len(chain) /\ built \in Configs /\ builtSets \subseteq IpSets
    BY DEF TypeOK, Decides
  <2>2. chain[i] \in ChainRules /\ Len(chain) \in Nat /\ i \in Nat
    BY <2>1, ElementOfSeq, LenProperties
  <2> QED BY <2>1, <2>2 DEF ChainRules
<1>2. PICK n \in Served(built) : Born(chain, i, built, builtSets, n)
  BY <1>1 DEF ChainSound, AllBorn
<1>3. n \in S
  BY <1>1, <1>2 DEF Born, LanClient, ServingTunnels, Decides, Matches
<1>4. Min(S) \in S /\ Min(S) <= n /\ Min(S) \in Served(built) /\ Min(S) \in Nat /\ n \in Nat
  BY <1>1, <1>3, FirstServing
<1>5. \A j \in 1..(i - 1) : ~(h \in Covers[chain[j].client] /\ (chain[j].set = NoSet \/ chain[j].set \in SetsOf[d]))
  BY DEF Decides, Matches
<1>6. n = Min(S)
  <2> SUFFICES ASSUME Min(S) < n PROVE FALSE
    BY <1>4
  <2>1. PICK y \in Clients : LanClient(built, Min(S), y) /\ h \in Covers[y]
    <3> HIDE DEF S
    <3> DEFINE m == Min(S)
    <3> HIDE DEF m
    <3>1. m \in ServingTunnels(built, h)
      BY <1>4 DEF m, S
    <3>2. PICK k \in 1..Len(built[m].clients) :
              built[m].clients[k] \in LanClients /\ h \in Covers[built[m].clients[k]]
      BY <3>1 DEF ServingTunnels
    <3>3. built[m].clients[k] \in Clients
      BY <1>1, <3>1, <3>2, FirstServing, ServedSlot, EntryType, ElementOfSeq DEF Served
    <3> QED BY <3>2, <3>3 DEF LanClient, m
  <2>2. HasBelow(chain, i, MarkRule(y, SlotNumber(built, Min(S))))
    BY <1>2, <1>4, <2>1 DEF Born
  <2> QED BY <1>5, <2>1, <2>2 DEF HasBelow, MarkRule
<1>7. CASE chain[i].slot = 0 /\ chain[i].set \in ToSet(built[n].exclude) \cap builtSets
  <2>1. chain[i].set \in SetsOf[d]
    BY <1>1, <1>7, SentinelAssumption DEF Decides, Matches
  <2>2. Excluded(built[n], builtSets, d)
    BY <1>7, <2>1 DEF Excluded
  <2> QED BY <1>3, <1>6, <1>7, <2>2
<1>8. CASE /\ chain[i].slot = SlotNumber(built, n) /\ chain[i].set = NoSet
           /\ \A s \in ToSet(built[n].exclude) \cap builtSets : HasBelow(chain, i, ReturnRule(x, s))
  <2>1. ~Excluded(built[n], builtSets, d)
    <3> SUFFICES ASSUME NEW s \in ToSet(built[n].exclude) \cap builtSets, s \in SetsOf[d]
                 PROVE  FALSE
      BY DEF Excluded
    <3>1. HasBelow(chain, i, ReturnRule(x, s))
      BY <1>8
    <3>2. h \in Covers[x]
      BY DEF Decides, Matches
    <3> QED BY <1>5, <3>1, <3>2 DEF HasBelow, ReturnRule
  <2> QED BY <1>3, <1>6, <1>8, <2>1
<1> QED BY <1>2, <1>7, <1>8 DEF Born

\* So the chain gives a packet no slot but the one the configuration decides.
LEMMA SlotWithin ==
    ASSUME TypeOK, ChainSound, NEW h \in Hosts, NEW d \in Dests
    PROVE  LET n == Decision(built, builtSets, h, d)
           IN  SlotGiven(h, d) \in {0, IF n = 0 THEN 0 ELSE SlotNumber(built, n)}
<1>1. CASE chain = NoChain
  BY <1>1 DEF SlotGiven
<1>2. CASE chain # NoChain /\ \A i \in 1..Len(chain) : ~Matches(chain[i], h, d)
  <2>1. SlotGiven(h, d) = 0
    BY <1>2, FirstMatch DEF Decides
  <2> QED BY <2>1
<1>3. CASE chain # NoChain /\ \E i : Decides(i, h, d) /\ SlotGiven(h, d) = chain[i].slot
  <2>1. PICK i : Decides(i, h, d) /\ SlotGiven(h, d) = chain[i].slot
    BY <1>3
  <2>2. built \in Configs
    BY DEF TypeOK
  <2> DEFINE n == Min(ServingTunnels(built, h))
  <2>3. /\ ServingTunnels(built, h) # {} /\ n \in Nat \ {0}
        /\ \/ chain[i].slot = 0 /\ Excluded(built[n], builtSets, d)
           \/ chain[i].slot = SlotNumber(built, n) /\ ~Excluded(built[n], builtSets, d)
    BY <1>3, <2>1, <2>2, SlotDecided, FirstServing
  <2> QED BY <2>1, <2>3 DEF Decision
<1> QED BY <1>1, <1>2, <1>3, FirstMatch

\* A complete chain gives it exactly that slot.
LEMMA SlotExact ==
    ASSUME TypeOK, ChainSound, NEW h \in Hosts, NEW d \in Dests,
           chain # NoChain, \A n \in Served(built) : Marked(chain, built, n)
    PROVE  LET n == Decision(built, builtSets, h, d)
           IN  SlotGiven(h, d) = IF n = 0 THEN 0 ELSE SlotNumber(built, n)
<1> DEFINE S == ServingTunnels(built, h)
           m == Min(S)
<1>1. built \in Configs
  BY DEF TypeOK
<1>2. CASE S = {}
  <2>1. SlotGiven(h, d) = 0
    BY <1>2, FirstMatch, SlotDecided
  <2> QED BY <1>2, <2>1 DEF Decision
<1>3. CASE S # {}
  <2>1. m \in S /\ m \in Served(built) /\ m \in Nat \ {0}
    BY <1>1, <1>3, FirstServing
  <2>2. \E j \in 1..Len(chain) : Matches(chain[j], h, d)
    <3> HIDE DEF m, S
    <3>1. PICK k \in 1..Len(built[m].clients) :
              built[m].clients[k] \in LanClients /\ h \in Covers[built[m].clients[k]]
      BY <2>1 DEF ServingTunnels, S
    <3> DEFINE x == built[m].clients[k]
    <3>2. x \in Clients
      BY <1>1, <2>1, <3>1, ServedSlot, EntryType, ElementOfSeq
    <3>3. HasRule(chain, MarkRule(x, SlotNumber(built, m)))
      BY <2>1, <3>1, <3>2 DEF Marked, LanClient
    <3>4. PICK j \in 1..Len(chain) : chain[j] = MarkRule(x, SlotNumber(built, m))
      BY <3>3 DEF HasRule
    <3>5. Matches(chain[j], h, d)
      BY <3>1, <3>4 DEF Matches, MarkRule
    <3> QED BY <3>5
  <2>3. PICK i : Decides(i, h, d) /\ SlotGiven(h, d) = chain[i].slot
    BY <2>2, FirstMatch
  <2>4. \/ chain[i].slot = 0 /\ Excluded(built[m], builtSets, d)
        \/ chain[i].slot = SlotNumber(built, m) /\ ~Excluded(built[m], builtSets, d)
    BY <2>3, SlotDecided
  <2> HIDE DEF m
  <2>5. Decision(built, builtSets, h, d) = IF Excluded(built[m], builtSets, d) THEN 0 ELSE m
    BY <1>3 DEF Decision, m
  <2> QED BY <2>1, <2>3, <2>4, <2>5
<1> QED BY <1>2, <1>3

\* A decision is a tunnel that has a slot and an ip rule preference.
LEMMA DecisionServed ==
    ASSUME NEW c \in Configs, NEW sets, NEW h, NEW d, Decision(c, sets, h, d) # 0
    PROVE  Decision(c, sets, h, d) \in Served(c)
<1>1. ServingTunnels(c, h) # {} /\ Decision(c, sets, h, d) = Min(ServingTunnels(c, h))
  BY DEF Decision
<1> QED BY <1>1, FirstServing

\* The jump and the slot of a packet, and the rules of its tunnel.
LEMMA RouteFollows ==
    ASSUME TypeOK, NEW c \in Configs, NEW n, NEW h, NEW d, n # 0 => n \in Served(c)
    PROVE  /\ n # 0 => SlotNumber(c, n) # 0
           /\ HasRule(prerouting, TunJump) /\ RuleSet(c, n) /\ n # 0 /\ SlotGiven(h, d) = SlotNumber(c, n) =>
                \/ Route(h, d) = TableOf(c, n)
                \/ "iprule" \in faults /\ Route(h, d) = "main"
           /\ SlotGiven(h, d) = 0 \/ ~HasRule(prerouting, TunJump) => Route(h, d) = "main"
<1>1. n # 0 => SlotNumber(c, n) \in 1..FieldMax /\ c[n].table \in Tables
  <2> SUFFICES ASSUME n # 0 PROVE SlotNumber(c, n) \in 1..FieldMax /\ c[n].table \in Tables
    OBVIOUS
  <2> QED BY ServedSlot, EntryType
<1>2. n # 0 => SlotNumber(c, n) # 0
  BY <1>1, FieldMaxAssumption
<1> QED BY <1>1, <1>2, SentinelAssumption DEF Route, RuleSet, TableOf

\* However far a chain has been built, it marks no packet with a slot other than
\* its own: exclusions come before the mark, tunnels in order (tunnel_apply's loops).
THEOREM PartialChainIsSafe == Spec => []PartialChainMarksLess
<1>1. RouteInv => PartialChainMarksLess
  BY SlotWithin DEF RouteInv, StopInv, TypeInv, PartialChainMarksLess
<1> QED BY <1>1, RouteInvariant, PTL

\* What tunnel_apply takes for up-to-date - the hash, the chain, the jump - sends
\* every packet where the certified configuration wants it, kills notwithstanding.
THEOREM CertifiedMeansRouted == Spec => []CertifiedRouting
<1>1. RouteInv => CertifiedRouting
  <2> SUFFICES ASSUME RouteInv, "iprule" \notin faults, hash # NoHash, chain # NoChain,
                      HasRule(prerouting, TunJump), NEW h \in Hosts, NEW d \in Dests
               PROVE  Route(h, d) = TableOf(hash, Decision(hash, builtSets, h, d))
    BY DEF CertifiedRouting
  <2> DEFINE n == Decision(hash, builtSets, h, d)
  <2>1. TypeOK /\ ChainSound /\ built = hash /\ built \in Configs
    BY DEF RouteInv, StopInv, TypeInv, TypeOK, Position
  <2>2. \A k \in Served(hash) : Marked(chain, hash, k) /\ RuleSet(hash, k)
    BY DEF RouteInv, Certified
  <2>3. SlotGiven(h, d) = IF n = 0 THEN 0 ELSE SlotNumber(hash, n)
    BY <2>1, <2>2, SlotExact
  <2>4. n # 0 => n \in Served(hash)
    BY <2>1, DecisionServed
  <2> HIDE DEF n
  <2> QED BY <2>1, <2>2, <2>3, <2>4, RouteFollows DEF TableOf, n
<1> QED BY <1>1, RouteInvariant, PTL

\* As long as the script is never killed no packet is routed into a tunnel other
\* than its own: not in a rebuild, a stop or a reload, nor by a rule left behind.
THEOREM NoPacketMisrouted == Spec => []NeverMisrouted
<1>1. RouteInv => NeverMisrouted
  <2> SUFFICES ASSUME RouteInv, "kill" \notin faults, NEW h \in Hosts, NEW d \in Dests
               PROVE  Route(h, d) \in {"main", TableOf(built, Decision(built, builtSets, h, d))}
    BY DEF NeverMisrouted
  <2> DEFINE n == Decision(built, builtSets, h, d)
  <2>1. TypeInv /\ TypeOK /\ ChainSound /\ built \in Configs
    BY DEF RouteInv, StopInv, TypeInv, TypeOK
  <2>2. n # 0 => n \in Served(built)
    BY <2>1, DecisionServed
  <2>3. SlotGiven(h, d) \in {0, IF n = 0 THEN 0 ELSE SlotNumber(built, n)}
    BY <2>1, SlotWithin
  <2>4. CASE SlotGiven(h, d) = 0 \/ ~HasRule(prerouting, TunJump)
    <3>1. Route(h, d) = "main"
      BY <2>4 DEF Route
    <3> QED BY <3>1
  <2>5. CASE SlotGiven(h, d) # 0 /\ HasRule(prerouting, TunJump)
    <3>1. chain # NoChain
      BY <2>5 DEF SlotGiven
    <3>2. n # 0 /\ SlotGiven(h, d) = SlotNumber(built, n)
      BY <2>3, <2>5
    <3>3. RuleSet(built, n)
      <4>1. CASE hash = NoHash
        <5>1. pc = "saveHash" /\ Position /\ Progress
          BY <2>5, <4>1 DEF RouteInv, JumpLast
        <5>2. built = tun
          BY <5>1 DEF Position, Looping
        <5> QED BY <2>1, <2>2, <3>2, <5>1, <5>2, LoopsDone
      <4>2. CASE hash # NoHash
        <5>1. built = hash
          BY <4>2 DEF RouteInv, Position
        <5> QED BY <2>2, <2>5, <3>1, <3>2, <4>2, <5>1 DEF RouteInv, Certified
      <4> QED BY <4>1, <4>2
    <3> HIDE DEF n
    <3>4. Route(h, d) \in {"main", TableOf(built, n)}
      BY <2>1, <2>2, <2>5, <3>2, <3>3, RouteFollows
    <3> QED BY <3>4 DEF n
  <2> QED BY <2>4, <2>5
<1> QED BY <1>1, RouteInvariant, PTL
=============================================================================
