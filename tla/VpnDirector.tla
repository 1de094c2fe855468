----------------------------- MODULE VpnDirector -----------------------------
(****************************************************************************)
(* vpn-director.sh: the invocations of the command line tool, and how they  *)
(* share the router.  The web UI, the bot, cron, the init script, the WAN   *)
(* and firewall hooks and the administrator start it at any moment; each    *)
(* invocation loads its modules and the configuration, and only then tries  *)
(* the lock.  Inside the lock a component is cut into steps wherever a kill *)
(* can part its jump, its chain and its hash file (TunnelDirector and       *)
(* XrayTproxy have every single call).                                      *)
(*                                                                          *)
(* The lock belongs to the open file: it goes with the process, however the *)
(* process ends, and with the second acquire_lock of a restart, whose       *)
(* "exec 200>" closes the file that held it.                                *)
(****************************************************************************)
EXTENDS Netfilter, FiniteSets

CONSTANTS
    Procs,           \* process slots for invocations
    Configs,         \* contents of vpn-director.json
    EmptyConfigs,    \* those whose tunnels are {}
    BadConfigs,      \* those config.sh cannot read: a file half-written, no JSON
    Commands,        \* the commands started: records [verb, comp]
    NoOwner,         \* the lock is free
    NoConfig,        \* a chain or hash file that does not exist
    Partial,         \* a TUN_DIR chain that may lack rules, some or all
    Killable,        \* an invocation may be killed
    NetworkMayFail,  \* a country set may be impossible to build
    XrayMayFail,     \* the Xray init script or the TPROXY module may fail
    IptablesMayFail  \* a call of iptables may be refused: its position is gone, or
                     \* another iptables holds the xtables lock

Verbs == {"apply", "dryrun", "stop", "restart", "update"}
Comps == {"all", "tunnel", "xray"}
NotRun == 255
ApplyAll == [verb |-> "apply", comp |-> "all"]

ASSUME CommandsAssumption == Commands \subseteq [verb : Verbs, comp : Comps]
ASSUME ConfigsAssumption  == EmptyConfigs \subseteq Configs /\ BadConfigs \subseteq Configs
                             /\ Configs # {}
ASSUME SentinelAssumption == NoOwner \notin Procs /\ {NoConfig, Partial} \cap Configs = {}
                             /\ NoConfig # Partial
ASSUME FlagAssumption     == {Killable, NetworkMayFail, XrayMayFail, IptablesMayFail} \subseteq BOOLEAN

VARIABLES
    saved,       \* vpn-director.json
    lock,        \* who holds /var/lock/vpn-director.lock
    pc,          \* next step of each invocation, "idle" for none
    cmd,         \* its command
    cfg,         \* the configuration it has loaded
    status,      \* its exit status: 0, 1, 137 when killed, or NotRun
    prerouting,  \* mangle/PREROUTING: the two jumps
    tunnel,      \* configuration the TUN_DIR chain was built for, or Partial
    hash,        \* configuration in the hash file of Tunnel Director
    xray,        \* configuration XRAY_TPROXY and its ipsets were built for
    hook,        \* firewall-start is about to be run
    did,         \* history: what each invocation has done, and what happened to it
    last,        \* history: who changed the router last
    scars        \* history: what the present TUN_DIR chain has suffered: "cut" when a
                 \* tunnel_stop ended before it dropped the chain, killed or refused by
                 \* iptables; "refused" when the jump to it was

router == <<prerouting, tunnel, hash, xray>>
procs  == <<pc, cmd, cfg, status>>
ghost  == <<did, last, scars>>
vars   == <<saved, lock, procs, router, hook, ghost>>

Init ==
    /\ saved \in Configs
    /\ lock = NoOwner
    /\ pc = [p \in Procs |-> "idle"]
    /\ cmd = [p \in Procs |-> ApplyAll]
    /\ cfg = [p \in Procs |-> saved]
    /\ status = [p \in Procs |-> NotRun]
    /\ prerouting = <<>> /\ tunnel = NoConfig /\ hash = NoConfig /\ xray = NoConfig
    /\ hook = FALSE
    /\ did = [p \in Procs |-> {}] /\ last = NoOwner /\ scars = {}

-----------------------------------------------------------------------------
(* Control flow of an invocation.                                           *)

At(p, label) == pc[p] = label
Goto(p, label) == pc' = [pc EXCEPT ![p] = label] /\ UNCHANGED <<cmd, cfg, status>>

\* The process ends; the kernel drops its lock.
Exit(p, code) ==
    /\ pc' = [pc EXCEPT ![p] = "idle"]
    /\ status' = [status EXCEPT ![p] = code]
    /\ lock' = IF lock = p THEN NoOwner ELSE lock
    /\ UNCHANGED <<cmd, cfg>>

\* A call that changes the router, and the last one of a component.
Touch(p) == last' = p /\ UNCHANGED did
Done(p, what) == last' = p /\ did' = [did EXCEPT ![p] = @ \cup what]

\* Faulty: the lock is not asked for.
AlwaysFree == TRUE
\* flock -n succeeds.
LockFree == lock = NoOwner

\* The first step under the lock, for each verb and component.
StopStart(k)  == IF k = "tunnel" THEN "stopTunnel" ELSE "stopXray"
UnderLock(c) == CASE c.verb \in {"stop", "restart"} -> StopStart(c.comp)
                  [] c.verb = "dryrun" -> "exit"
                  [] OTHER -> "ensure"

\* cmd_apply applies Tunnel Director before Xray.
FirstApplied(k) == IF k = "xray" THEN "applyXray" ELSE "applyTunnel"
AfterTunnel(k)  == IF k = "all" THEN "applyXray" ELSE "exit"

-----------------------------------------------------------------------------
(* The steps of an invocation.                                              *)

Begin(p, c) ==
    /\ At(p, "idle")
    /\ pc' = [pc EXCEPT ![p] = "load"]
    /\ cmd' = [cmd EXCEPT ![p] = c]
    /\ status' = [status EXCEPT ![p] = NotRun]
    /\ did' = [did EXCEPT ![p] = {}]
    /\ last' = IF last = p THEN NoOwner ELSE last
    /\ UNCHANGED <<cfg, saved, lock, router, scars>>

Start(p, c) == Begin(p, c) /\ UNCHANGED hook

\* _load_modules reads the configuration, and config.sh ends the script when it
\* cannot; a restart then restarts Xray first.
Load(p) ==
    /\ At(p, "load")
    /\ \/ saved \in BadConfigs /\ Exit(p, 1)
       \/ /\ saved \notin BadConfigs
          /\ cfg' = [cfg EXCEPT ![p] = saved]
          /\ pc' = [pc EXCEPT ![p] = IF cmd[p].verb = "restart" /\ cmd[p].comp # "tunnel"
                                     THEN "restartXray" ELSE "lock"]
          /\ UNCHANGED <<cmd, status, lock>>
    /\ UNCHANGED <<saved, router, hook, ghost>>

\* tproxy_restart_process; set -e ends the script when the init script fails.
RestartXray(p) ==
    /\ At(p, "restartXray")
    /\ \/ Goto(p, "lock") /\ UNCHANGED lock
       \/ XrayMayFail /\ Exit(p, 1)
    /\ UNCHANGED <<saved, router, hook, ghost>>

\* acquire_lock: a lock held by another invocation is no error.
Lock(p) ==
    /\ At(p, "lock")
    /\ \/ LockFree /\ lock' = p /\ Goto(p, UnderLock(cmd[p]))
       \/ ~LockFree /\ Exit(p, 0)
    /\ UNCHANGED <<saved, router, hook, ghost>>

\* The acquire_lock of cmd_apply inside a restart: the file is opened again,
\* which closes the one that was locked, and locked again.
Reopen(p) ==
    /\ At(p, "reopen")
    /\ lock' = NoOwner
    /\ Goto(p, "relock")
    /\ UNCHANGED <<saved, router, hook, ghost>>

Relock(p) ==
    /\ At(p, "relock")
    /\ \/ LockFree /\ lock' = p /\ Goto(p, "ensure")
       \/ ~LockFree /\ Exit(p, 0)
    /\ UNCHANGED <<saved, router, hook, ghost>>

\* _ensure_ipsets: a set that cannot be built ends the script.
Ensure(p) ==
    /\ At(p, "ensure")
    /\ \/ Goto(p, FirstApplied(cmd[p].comp)) /\ UNCHANGED lock
       \/ NetworkMayFail /\ Exit(p, 1)
    /\ UNCHANGED <<saved, router, hook, ghost>>

-----------------------------------------------------------------------------
(* The components: TunnelDirector and XrayTproxy call by call, here cut     *)
(* wherever a kill can separate the jump, the chain and the hash file.      *)

\* purge_fw_rules, one deletion after the other, and sync_fw_rule of a jump.
Purged(c, r) ==
    LET left[n \in 0..Len(c)] == IF n = 0 THEN c ELSE DeleteRule(left[n - 1], r)
    IN  left[Len(c)]
Synced(c, r, pos) == IF InPlace(c, r, pos) THEN c ELSE InsertRule(Purged(c, r), pos, r)

\* What purge_fw_rules and sync_fw_rule leave when they pass over a refused call:
\* the deletion (the jump stays where it is), or the insertion.
Unpurged(c, r) == IF IptablesMayFail THEN {Purged(c, r), c} ELSE {Purged(c, r)}
Unsynced(c, r, pos) ==
    IF InPlace(c, r, pos) \/ ~IptablesMayFail THEN {}
    ELSE {Purged(c, r)} \cup (IF HasRule(c, r) THEN {c} ELSE {})

\* tunnel_stop, as a command ("stop") and within an apply ("old"): the jump, -F
\* and -X of the chain, and last the hash.
PurgeTunnel(p, here, next) ==
    /\ At(p, here)
    /\ prerouting' \in Unpurged(prerouting, TunJump)
    /\ Touch(p)
    /\ Goto(p, next)
    /\ UNCHANGED <<saved, lock, tunnel, hash, xray, hook, scars>>

FlushTunnel(p, here, next, gone) ==
    /\ At(p, here)
    /\ tunnel' = IF tunnel = NoConfig THEN NoConfig ELSE Partial
    /\ Touch(p)
    /\ Goto(p, IF tunnel = NoConfig THEN gone ELSE next)
    /\ UNCHANGED <<saved, lock, prerouting, hash, xray, hook, scars>>

\* -X of a chain that a reload has taken away, or that is still jumped to, ends
\* the script (set -e); the chain is cut off.
CutOff == IF tunnel = NoConfig THEN scars ELSE scars \cup {"cut"}
DropTunnel(p, here, next) ==
    /\ At(p, here)
    /\ \/ /\ tunnel # NoConfig /\ ~HasRule(prerouting, TunJump)
          /\ tunnel' = NoConfig /\ scars' = {}
          /\ Touch(p) /\ Goto(p, next) /\ UNCHANGED lock
       \/ /\ tunnel = NoConfig \/ HasRule(prerouting, TunJump) \/ IptablesMayFail
          /\ Exit(p, 1) /\ scars' = CutOff
          /\ UNCHANGED <<tunnel, did, last>>
    /\ UNCHANGED <<saved, prerouting, hash, xray, hook>>

AfterStop(p) == IF cmd[p].verb = "restart" THEN "reopen" ELSE "exit"

StopTunnel(p) ==
    \/ PurgeTunnel(p, "stopTunnel", "stopFlush")
    \/ FlushTunnel(p, "stopFlush", "stopDrop", "stopHash")
    \/ DropTunnel(p, "stopDrop", "stopHash")
    \/ /\ At(p, "stopHash")
       /\ hash' = NoConfig
       /\ Done(p, {"stopTunnel"})
       /\ Goto(p, AfterStop(p))
       /\ UNCHANGED <<saved, lock, prerouting, tunnel, xray, hook, scars>>

StopOld(p) ==
    \/ PurgeTunnel(p, "oldTunnel", "oldFlush")
    \/ FlushTunnel(p, "oldFlush", "oldDrop", "oldHash")
    \/ DropTunnel(p, "oldDrop", "oldHash")
    \/ /\ At(p, "oldHash")
       /\ hash' = NoConfig
       /\ Touch(p)
       /\ Goto(p, "build")
       /\ UNCHANGED <<saved, lock, prerouting, tunnel, xray, hook, scars>>

\* Faulty: the hash alone decides.
HashSame(c) == hash = c
UpToDate(c) == hash = c /\ tunnel # NoConfig

\* tunnel_apply: nothing to do, stop first when there is a hash, or build.
ApplyTunnel(p) ==
    /\ At(p, "applyTunnel")
    /\ \/ /\ cfg[p] \in EmptyConfigs \/ UpToDate(cfg[p])
          /\ Done(p, {"applyTunnel"}) /\ Goto(p, AfterTunnel(cmd[p].comp))
       \/ /\ cfg[p] \notin EmptyConfigs /\ ~UpToDate(cfg[p])
          /\ Goto(p, IF hash = NoConfig THEN "build" ELSE "oldTunnel")
          /\ UNCHANGED <<did, last>>
    /\ UNCHANGED <<saved, lock, router, hook, scars>>

\* The chain with its rules; until the hash is saved nobody takes it for done.  A
\* call that is refused ends the script (set -e).
Build(p) ==
    /\ At(p, "build")
    /\ \/ tunnel' = cfg[p] /\ scars' = scars \ {"cut"} /\ Goto(p, "insert") /\ UNCHANGED lock
       \/ IptablesMayFail /\ tunnel' \in {tunnel, Partial} /\ Exit(p, 1) /\ UNCHANGED scars
    /\ Touch(p)
    /\ UNCHANGED <<saved, prerouting, hash, xray, hook>>

\* The jump, at the position read before the rules were added.  After a reload
\* an append may have failed (set -e), or there was none left to make.
Insert(p) ==
    /\ At(p, "insert")
    /\ \/ /\ tunnel # NoConfig
          /\ prerouting' = Synced(prerouting, TunJump, BasePos(prerouting)) /\ scars' = {}
          /\ Touch(p) /\ Goto(p, "save") /\ UNCHANGED lock
       \/ /\ tunnel # NoConfig
          /\ prerouting' \in Unsynced(prerouting, TunJump, BasePos(prerouting))
          /\ scars' = IF HasRule(prerouting', TunJump) THEN {} ELSE {"refused"}
          /\ Touch(p) /\ Goto(p, "save") /\ UNCHANGED lock
       \/ /\ tunnel = NoConfig /\ Goto(p, "save")
          /\ UNCHANGED <<lock, prerouting, ghost>>
       \/ /\ tunnel = NoConfig /\ Exit(p, 1)
          /\ UNCHANGED <<prerouting, ghost>>
    /\ UNCHANGED <<saved, tunnel, hash, xray, hook>>

SaveHash(p) ==
    /\ At(p, "save")
    /\ hash' = cfg[p]
    /\ Done(p, {"applyTunnel"})
    /\ Goto(p, AfterTunnel(cmd[p].comp))
    /\ UNCHANGED <<saved, lock, prerouting, tunnel, xray, hook, scars>>

\* Faulty: the jump of the proxy goes behind Tunnel Director's.
XrayPosAfter == Len(prerouting) + 1
\* Where tproxy_apply puts its jump: before Tunnel Director's.
XrayPos == 1

\* tproxy_apply: the chain and its ipsets, then the jump.  Without the TPROXY
\* module it gives up, with status 0.
ApplyXray(p) ==
    /\ At(p, "applyXray")
    /\ \/ xray' = cfg[p] /\ Touch(p) /\ Goto(p, "jumpXray")
       \/ XrayMayFail /\ Goto(p, "exit") /\ UNCHANGED <<xray, did, last>>
    /\ UNCHANGED <<saved, lock, prerouting, tunnel, hash, hook, scars>>

JumpXray(p) ==
    /\ At(p, "jumpXray")
    /\ \/ /\ xray # NoConfig
          /\ prerouting' = Synced(prerouting, XrayJump, XrayPos)
          /\ Done(p, {"applyXray"})
       \/ /\ xray # NoConfig
          /\ prerouting' \in Unsynced(prerouting, XrayJump, XrayPos)
          /\ Done(p, {"applyXray", "noXrayJump"})
       \/ /\ xray = NoConfig /\ UNCHANGED prerouting
          /\ Done(p, {"applyXray"})
    /\ Goto(p, "exit")
    /\ UNCHANGED <<saved, lock, tunnel, hash, xray, hook, scars>>

\* tproxy_stop: the jump, then the chain and its ipsets.
StopXray(p) ==
    /\ At(p, "stopXray")
    /\ prerouting' \in Unpurged(prerouting, XrayJump)
    /\ Touch(p)
    /\ Goto(p, "dropXray")
    /\ UNCHANGED <<saved, lock, tunnel, hash, xray, hook, scars>>

DropXray(p) ==
    /\ At(p, "dropXray")
    /\ \/ /\ xray = NoConfig \/ ~HasRule(prerouting, XrayJump)
          /\ xray' = NoConfig /\ Done(p, {"stopXray"})
          /\ Goto(p, IF cmd[p].comp = "all" THEN "stopTunnel" ELSE AfterStop(p))
          /\ UNCHANGED lock
       \/ /\ xray = NoConfig \/ HasRule(prerouting, XrayJump) \/ IptablesMayFail
          /\ Exit(p, 1)
          /\ UNCHANGED <<xray, did, last>>
    /\ UNCHANGED <<saved, prerouting, tunnel, hash, hook, scars>>

Finish(p) ==
    /\ At(p, "exit")
    /\ Exit(p, 0)
    /\ UNCHANGED <<saved, router, hook, ghost>>

Step(p) ==
    \/ Load(p) \/ RestartXray(p) \/ Lock(p) \/ Reopen(p) \/ Relock(p) \/ Ensure(p)
    \/ StopXray(p) \/ DropXray(p) \/ StopTunnel(p)
    \/ ApplyTunnel(p) \/ StopOld(p) \/ Build(p) \/ Insert(p) \/ SaveHash(p)
    \/ ApplyXray(p) \/ JumpXray(p) \/ Finish(p)

-----------------------------------------------------------------------------
(* Around the tool.                                                         *)

\* Killed before tunnel_stop has dropped the chain, it leaves the chain and the
\* hash behind without a jump, the chain perhaps without its rules.
Cutting == {"stopFlush", "stopDrop", "oldFlush", "oldDrop"}
Kill(p) ==
    /\ Killable /\ pc[p] # "idle"
    /\ Exit(p, 137)
    /\ scars' = IF pc[p] \in Cutting THEN CutOff ELSE scars
    /\ UNCHANGED <<saved, router, hook, did, last>>

SaveConfig(c) ==
    /\ c # saved
    /\ saved' = c
    /\ UNCHANGED <<lock, procs, router, hook, ghost>>

\* The firmware throws the chains and the jumps away and runs firewall-start.
FirewallReload ==
    /\ prerouting' = <<>> /\ tunnel' = NoConfig /\ xray' = NoConfig
    /\ hook' = TRUE /\ last' = NoOwner /\ scars' = {}
    /\ did' = [p \in Procs |-> IF pc[p] = "idle" THEN did[p] ELSE did[p] \cup {"reload"}]
    /\ UNCHANGED <<saved, lock, procs, hash>>

\* firewall-start runs "vpn-director.sh apply".
Hook(p) == hook /\ Begin(p, ApplyAll) /\ hook' = FALSE

Next ==
    \/ \E p \in Procs : \/ \E c \in Commands : Start(p, c)
                        \/ Step(p) \/ Hook(p) \/ Kill(p)
    \/ \E c \in Configs : SaveConfig(c)
    \/ FirewallReload

Spec == Init /\ [][Next]_vars

\* A started process runs on, and firewall-start is run.
FairSpec == Spec /\ \A p \in Procs : WF_vars(Step(p)) /\ WF_vars(Hook(p))

-----------------------------------------------------------------------------
(* Properties.                                                              *)

\* Labels of the steps that run under the lock.
Holding == Cutting \cup
           {"stopXray", "dropXray", "stopTunnel", "stopHash", "reopen", "ensure", "applyTunnel",
            "oldTunnel", "oldHash", "build", "insert", "save", "applyXray", "jumpXray", "exit"}
Labels  == Holding \cup {"idle", "load", "restartXray", "lock", "relock"}

\* Type invariant.  Each jump is in PREROUTING at most once, whatever order the
\* invocations insert and purge them in (sync_fw_rule).
TypeOK ==
    /\ saved \in Configs /\ cfg \in [Procs -> Configs]
    /\ lock \in Procs \cup {NoOwner}
    /\ pc \in [Procs -> Labels]
    /\ cmd \in [Procs -> Commands \cup {ApplyAll}]
    /\ status \in [Procs -> {0, 1, 137, NotRun}]
    /\ {hash, xray} \subseteq Configs \cup {NoConfig}
    /\ tunnel \in Configs \cup {NoConfig, Partial}
    /\ prerouting \in {<<>>, <<TunJump>>, <<XrayJump>>,
                       <<TunJump, XrayJump>>, <<XrayJump, TunJump>>}
    /\ hook \in BOOLEAN /\ scars \subseteq {"cut", "refused"}

\* The lock is held exactly by the invocation that is at work on the router, so
\* no two of them change it at a time - also around the moment in which a
\* restart gives the lock up, and after any exit or kill.
LockDiscipline == \A p \in Procs : lock = p <=> pc[p] \in Holding

\* What a command that does all its work has done.
Applies(k) == CASE k = "all" -> {"applyTunnel", "applyXray"}
                [] k = "tunnel" -> {"applyTunnel"} [] OTHER -> {"applyXray"}
Stops(k)   == CASE k = "all" -> {"stopTunnel", "stopXray"}
                [] k = "tunnel" -> {"stopTunnel"} [] OTHER -> {"stopXray"}
Promised(c) == CASE c.verb = "dryrun" -> {}
                 [] c.verb = "stop" -> Stops(c.comp)
                 [] c.verb = "restart" -> Stops(c.comp) \cup Applies(c.comp)
                 [] OTHER -> Applies(c.comp)

\* Tunnel Director is in force: the hash and the chain are of configuration c, and
\* the jump is there.  A chain that was cut or whose jump was refused lacks just
\* that, and passes for up to date: tunnel_apply looks at the hash and for a chain.
TunnelInForce(c) ==
    /\ hash = c /\ tunnel # NoConfig
    /\ "cut" \notin scars => tunnel = c
    /\ scars = {} => HasRule(prerouting, TunJump)

\* The router as a command on all components leaves it when it runs alone.
AloneStopped == prerouting = <<>> /\ tunnel = NoConfig /\ hash = NoConfig /\ xray = NoConfig
AloneApplied(c, seen) ==
    /\ xray = c
    /\ "noXrayJump" \notin seen => HasFirst(prerouting, XrayJump)
    /\ c \notin EmptyConfigs => TunnelInForce(c)

\* Invocations are serialised: when the last one to change the router has done
\* all of its work, on all components, the router is as if it had run alone,
\* whatever was started, refused, ended half-way or killed before - unless the
\* firmware reloaded the firewall in the middle of its work.  Two scars outlive
\* an apply, and no other: a chain that a tunnel_stop left before it was dropped,
\* and one whose jump iptables refused, lack that (TunnelInForce); of the proxy
\* only the jump can be missing, when this very invocation was refused it.
SoleEffect ==
    \A p \in Procs :
        last = p /\ cmd[p].comp = "all" /\ Promised(cmd[p]) \subseteq did[p]
          /\ "reload" \notin did[p] =>
            CASE cmd[p].verb = "stop" -> AloneStopped
              [] cmd[p].verb = "dryrun" -> TRUE
              [] OTHER -> AloneApplied(cfg[p], did[p])

\* A configuration that stays saved is in force in the end, provided no reload
\* comes and no invocation is killed or fails any more and an apply of everything
\* gets the lock again and again: older configurations still on their way,
\* invocations refused because of the lock and lost hooks are made good by it, even
\* when the hash says that nothing has changed.  A scar of the chain is not
\* (TunnelInForce).
ApplyAtWork == \E p \in Procs : At(p, "ensure") /\ cmd[p] = ApplyAll
Dies(p) == pc[p] # "idle" /\ pc'[p] = "idle" /\ status'[p] # 0
Disturbed == FirewallReload \/ \E p \in Procs : Dies(p)
Heals ==
    \A c \in Configs \ (EmptyConfigs \cup BadConfigs) :
        <>[](saved = c) /\ <>[][~Disturbed]_vars /\ []<>ApplyAtWork => <>[]TunnelInForce(c)

-----------------------------------------------------------------------------
(* What the documentation promises and concurrent invocations do not keep.  *)

\* "VPN Director applied": an invocation that exits with 0 has done its work.
SuccessMeansDone ==
    \A p \in Procs : pc[p] = "idle" /\ status[p] = 0 => Promised(cmd[p]) \subseteq did[p]
=============================================================================
