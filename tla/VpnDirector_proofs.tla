-------------------------- MODULE VpnDirector_proofs --------------------------
(****************************************************************************)
(* The lock of vpn-director.sh, and what invocations leave behind that run  *)
(* under it, for any number of them, any commands and any configurations.   *)
(****************************************************************************)
EXTENDS VpnDirector, Netfilter_proofs, TLAPS

LockInv ==
    /\ lock \in Procs \cup {NoOwner}
    /\ pc \in [Procs -> Labels]
    /\ LockDiscipline

\* Where an invocation goes after it has got the lock, or after a component,
\* is still under the lock.
LEMMA BranchLabels ==
    /\ \A c : UnderLock(c) \in Holding \ Cutting
    /\ \A k : FirstApplied(k) \in Holding \ Cutting /\ AfterTunnel(k) \in Holding \ Cutting
    /\ \A p : AfterStop(p) \in Holding \ Cutting
BY DEF UnderLock, StopStart, FirstApplied, AfterTunnel, AfterStop, Holding, Cutting

\* An exit gives the lock back, whoever exits and from wherever.
LEMMA ExitKeepsLock ==
    ASSUME LockInv, NEW p \in Procs, NEW code, Exit(p, code)
    PROVE  LockInv'
<1>1. pc' \in [Procs -> Labels] /\ pc'[p] = "idle"
      /\ \A q \in Procs : q # p => pc'[q] = pc[q]
  BY DEF LockInv, Exit, Labels
<1>2. lock' \in Procs \cup {NoOwner} /\ (lock' = IF lock = p THEN NoOwner ELSE lock)
  BY DEF LockInv, Exit
<1>3. LockDiscipline'
  BY <1>1, <1>2, SentinelAssumption DEF LockInv, LockDiscipline, Holding, Cutting
<1> QED BY <1>1, <1>2, <1>3 DEF LockInv

\* A step that neither takes nor gives up the lock stays on its side of it.
LEMMA GotoKeepsLock ==
    ASSUME LockInv, NEW p \in Procs, NEW label \in Labels,
           pc' = [pc EXCEPT ![p] = label], lock' = lock,
           pc[p] \in Holding <=> label \in Holding
    PROVE  LockInv'
BY DEF LockInv, LockDiscipline

\* Taking a free lock and entering a step that needs it go together.
LEMMA TakeKeepsLock ==
    ASSUME LockInv, NEW p \in Procs, NEW label \in Holding,
           pc' = [pc EXCEPT ![p] = label], lock = NoOwner, lock' = p
    PROVE  LockInv'
<1>1. \A q \in Procs : pc[q] \notin Holding
  BY SentinelAssumption DEF LockInv, LockDiscipline
<1> QED BY <1>1 DEF LockInv, LockDiscipline, Labels

\* The steps of tunnel_stop, whoever runs it.
LEMMA StopsKeepLock ==
    ASSUME LockInv, NEW p \in Procs, NEW here \in Holding, NEW next \in Holding, NEW gone \in Holding,
           \/ PurgeTunnel(p, here, next) \/ FlushTunnel(p, here, next, gone)
           \/ DropTunnel(p, here, next)
           \/ At(p, here) /\ Goto(p, next) /\ UNCHANGED lock
    PROVE  LockInv'
<1> USE DEF At, Goto
<1>1. CASE \/ PurgeTunnel(p, here, next) \/ FlushTunnel(p, here, next, gone)
           \/ At(p, here) /\ Goto(p, next) /\ UNCHANGED lock
  BY <1>1, GotoKeepsLock DEF PurgeTunnel, FlushTunnel, Labels
<1>2. CASE DropTunnel(p, here, next)
  <2>1. CASE Exit(p, 1)
    BY <2>1, ExitKeepsLock
  <2>2. CASE Goto(p, next) /\ UNCHANGED lock
    BY <1>2, <2>2, GotoKeepsLock DEF DropTunnel, Labels
  <2> QED BY <1>2, <2>1, <2>2 DEF DropTunnel
<1> QED BY <1>1, <1>2

LEMMA StepKeepsLock ==
    ASSUME LockInv, NEW p \in Procs, Step(p)
    PROVE  LockInv'
<1> USE DEF At, Goto
<1>1. CASE Load(p)
  <2>1. (IF cmd[p].verb = "restart" /\ cmd[p].comp # "tunnel" THEN "restartXray" ELSE "lock")
           \in Labels \ Holding
    BY DEF Labels, Holding, Cutting
  <2>2. CASE saved \notin BadConfigs
    BY <1>1, <2>1, <2>2, GotoKeepsLock DEF Load, Holding, Cutting
  <2>3. CASE Exit(p, 1)
    BY <2>3, ExitKeepsLock
  <2> QED BY <1>1, <2>2, <2>3 DEF Load
<1>2. CASE RestartXray(p)
  <2>1. CASE Goto(p, "lock") /\ UNCHANGED lock
    BY <1>2, <2>1, GotoKeepsLock DEF RestartXray, Holding, Cutting, Labels
  <2>2. CASE Exit(p, 1)
    BY <2>2, ExitKeepsLock
  <2> QED BY <1>2, <2>1, <2>2 DEF RestartXray
<1>3. CASE Lock(p)
  <2>1. CASE LockFree /\ lock' = p /\ Goto(p, UnderLock(cmd[p]))
    BY <2>1, BranchLabels, TakeKeepsLock DEF LockFree
  <2>2. CASE Exit(p, 0)
    BY <2>2, ExitKeepsLock
  <2> QED BY <1>3, <2>1, <2>2 DEF Lock
<1>4. CASE Reopen(p)
  <2>1. lock = p /\ \A q \in Procs : q # p => pc[q] \notin Holding
    BY <1>4 DEF Reopen, LockInv, LockDiscipline, Holding
  <2> QED BY <1>4, <2>1, SentinelAssumption
          DEF Reopen, LockInv, LockDiscipline, Labels, Holding, Cutting
<1>5. CASE Relock(p)
  <2>1. CASE LockFree /\ lock' = p /\ Goto(p, "ensure")
    BY <2>1, TakeKeepsLock DEF LockFree, Holding
  <2>2. CASE Exit(p, 0)
    BY <2>2, ExitKeepsLock
  <2> QED BY <1>5, <2>1, <2>2 DEF Relock
<1>6. CASE Ensure(p)
  <2>1. CASE Goto(p, FirstApplied(cmd[p].comp)) /\ UNCHANGED lock
    BY <1>6, <2>1, BranchLabels, GotoKeepsLock DEF Ensure, Holding, Labels
  <2>2. CASE Exit(p, 1)
    BY <2>2, ExitKeepsLock
  <2> QED BY <1>6, <2>1, <2>2 DEF Ensure
<1>7. CASE ApplyTunnel(p) \/ SaveHash(p)
  <2>1. AfterTunnel(cmd[p].comp) \in Holding \cap Labels
    BY BranchLabels DEF Labels
  <2>2. {"applyTunnel", "save", "build", "oldTunnel"} \subseteq Holding \cap Labels
    BY DEF Labels, Holding
  <2> QED BY <1>7, <2>1, <2>2, GotoKeepsLock DEF ApplyTunnel, SaveHash
<1>8. CASE ApplyXray(p) \/ JumpXray(p) \/ StopXray(p)
  BY <1>8, GotoKeepsLock DEF ApplyXray, JumpXray, StopXray, Holding, Labels
<1>9. CASE DropXray(p)
  <2>1. CASE Exit(p, 1)
    BY <2>1, ExitKeepsLock
  <2>2. CASE Goto(p, IF cmd[p].comp = "all" THEN "stopTunnel" ELSE AfterStop(p)) /\ UNCHANGED lock
    <3>1. (IF cmd[p].comp = "all" THEN "stopTunnel" ELSE AfterStop(p)) \in Holding \cap Labels
      BY BranchLabels DEF Holding, Labels
    <3> QED BY <1>9, <2>2, <3>1, GotoKeepsLock DEF DropXray, Holding
  <2> QED BY <1>9, <2>1, <2>2 DEF DropXray
<1>10. CASE StopTunnel(p)
  <2>1. AfterStop(p) \in Holding \cap Labels
    BY BranchLabels DEF Labels
  <2> QED BY <1>10, <2>1, StopsKeepLock DEF StopTunnel, Holding, Labels, Cutting
<1>11. CASE StopOld(p)
  BY <1>11, StopsKeepLock DEF StopOld, Holding, Labels, Cutting
<1>12. CASE Build(p)
  <2>1. CASE Exit(p, 1)
    BY <2>1, ExitKeepsLock
  <2>2. CASE Goto(p, "insert") /\ UNCHANGED lock
    BY <1>12, <2>2, GotoKeepsLock DEF Build, Holding, Labels
  <2> QED BY <1>12, <2>1, <2>2 DEF Build
<1>13. CASE Insert(p)
  <2>1. CASE Exit(p, 1)
    BY <2>1, ExitKeepsLock
  <2>2. CASE Goto(p, "save") /\ UNCHANGED lock
    BY <1>13, <2>2, GotoKeepsLock DEF Insert, Holding, Labels
  <2> QED BY <1>13, <2>1, <2>2 DEF Insert
<1>14. CASE Finish(p)
  BY <1>14, ExitKeepsLock DEF Finish
<1> QED BY <1>1, <1>2, <1>3, <1>4, <1>5, <1>6, <1>7, <1>8, <1>9, <1>10, <1>11, <1>12, <1>13, <1>14
        DEF Step

LEMMA LockInvariant == Spec => []LockInv
<1>1. Init => LockInv
  BY SentinelAssumption DEF Init, LockInv, LockDiscipline, Labels, Holding, Cutting
<1>2. LockInv /\ [Next]_vars => LockInv'
  <2> SUFFICES ASSUME LockInv, [Next]_vars PROVE LockInv'
    OBVIOUS
  <2>1. ASSUME NEW p \in Procs, NEW c, Begin(p, c) PROVE LockInv'
    BY <2>1, GotoKeepsLock DEF Begin, At, Labels, Holding, Cutting
  <2>2. ASSUME NEW p \in Procs, Kill(p) PROVE LockInv'
    BY <2>2, ExitKeepsLock DEF Kill
  <2>3. CASE UNCHANGED vars
    BY <2>3 DEF LockInv, LockDiscipline, vars, procs
  <2>4. CASE (\E c \in Configs : SaveConfig(c)) \/ FirewallReload
    BY <2>4 DEF SaveConfig, FirewallReload, LockInv, LockDiscipline, procs
  <2> QED BY <2>1, <2>2, <2>3, <2>4, StepKeepsLock DEF Next, Start, Hook
<1> QED BY <1>1, <1>2, PTL DEF Spec

\* The lock is held by exactly the invocation at work on the router, whatever
\* the commands, kills and restarts.
THEOREM LockIsExclusive == Spec => []LockDiscipline
<1>1. LockInv => LockDiscipline
  BY DEF LockInv
<1> QED BY <1>1, LockInvariant, PTL

\* Hence no two invocations are ever at work on the router together: neither
\* after a kill, nor around the moment a restart gives the lock up.
THEOREM MutualExclusion ==
    Spec => [](\A p, q \in Procs : pc[p] \in Holding /\ pc[q] \in Holding => p = q)
<1>1. LockInv => \A p, q \in Procs : pc[p] \in Holding /\ pc[q] \in Holding => p = q
  BY DEF LockInv, LockDiscipline
<1> QED BY <1>1, LockInvariant, PTL

-----------------------------------------------------------------------------
(* Purging and synchronising the two jumps.                                 *)

\* Purging a chain of at most two rules is two deletions at most.
LEMMA PurgedShort ==
    ASSUME NEW c, NEW r, Len(c) \in 0..2
    PROVE  /\ Len(c) = 0 => Purged(c, r) = c
           /\ Len(c) = 1 => Purged(c, r) = DeleteRule(c, r)
           /\ Len(c) = 2 => Purged(c, r) = DeleteRule(DeleteRule(c, r), r)
<1> DEFINE F(g) == [n \in 0..Len(c) |-> IF n = 0 THEN c ELSE DeleteRule(g[n - 1], r)]
           one == DeleteRule(c, r)
           two == DeleteRule(one, r)
           w == [n \in 0..Len(c) |-> IF n = 0 THEN c ELSE IF n = 1 THEN one ELSE two]
           left == CHOOSE g : g = F(g)
<1>1. w = F(w)
  <2>1. ASSUME NEW n \in 0..Len(c)
        PROVE  w[n] = IF n = 0 THEN c ELSE DeleteRule(w[n - 1], r)
    <3>1. n = 0 \/ n = 1 \/ n = 2
      OBVIOUS
    <3> QED BY <3>1
  <2> QED BY <2>1
<1>2. left = F(left)
  <2> HIDE DEF w, F
  <2> QED BY <1>1
<1>3. Purged(c, r) = left[Len(c)]
  BY DEF Purged
<1> HIDE DEF left
<1>4. \A n \in 0..Len(c) : left[n] = IF n = 0 THEN c ELSE DeleteRule(left[n - 1], r)
  <2>1. \A n \in 0..Len(c) : F(left)[n] = IF n = 0 THEN c ELSE DeleteRule(left[n - 1], r)
    OBVIOUS
  <2> QED BY <1>2, <2>1
<1> HIDE DEF F
<1>5. left[0] = c /\ (Len(c) >= 1 => left[1] = DeleteRule(left[0], r))
      /\ (Len(c) = 2 => left[2] = DeleteRule(left[1], r))
  BY <1>4
<1>6. Len(c) = 0 => Purged(c, r) = c
  BY <1>3, <1>5
<1>7. Len(c) = 1 => Purged(c, r) = DeleteRule(c, r)
  BY <1>3, <1>5
<1>8. Len(c) = 2 => Purged(c, r) = DeleteRule(DeleteRule(c, r), r)
  BY <1>3, <1>5
<1> QED BY <1>6, <1>7, <1>8

\* Purging one jump leaves the other one as it was.
LEMMA PurgedJump ==
    ASSUME NEW c \in JumpChains, NEW j \in {TunJump, XrayJump}, NEW k \in {TunJump, XrayJump}, j # k
    PROVE  Purged(c, j) = IF HasRule(c, k) THEN <<k>> ELSE <<>>
<1>1. c \in {<<>>, <<j>>, <<k>>, <<j, k>>, <<k, j>>}
  BY DEF JumpChains
<1>2. /\ ~HasRule(<<>>, k) /\ ~HasRule(<<j>>, k)
      /\ HasRule(<<k>>, k) /\ HasRule(<<j, k>>, k) /\ HasRule(<<k, j>>, k)
  <2>1. ~HasRule(<<>>, k) /\ ~HasRule(<<j>>, k)
    BY DEF HasRule
  <2>2. <<k>>[1] = k /\ <<j, k>>[2] = k /\ <<k, j>>[1] = k
    OBVIOUS
  <2>3. 1 \in 1..Len(<<k>>) /\ 2 \in 1..Len(<<j, k>>) /\ 1 \in 1..Len(<<k, j>>)
    OBVIOUS
  <2> QED BY <2>1, <2>2, <2>3, Zenon DEF HasRule
<1>3. CASE c = <<>>
  BY <1>3, <1>2, PurgedShort
<1>4. CASE c = <<j>>
  <2>1. Len(c) = 1
    BY <1>4
  <2> QED BY <2>1, <1>4, <1>2, PurgedShort, DeletedJump
<1>5. CASE c = <<k>>
  <2>1. Len(c) = 1
    BY <1>5
  <2> QED BY <2>1, <1>5, <1>2, PurgedShort, DeletedJump
<1>6. CASE c = <<j, k>> \/ c = <<k, j>>
  <2>1. Len(c) = 2
    BY <1>6
  <2>2. Purged(c, j) = DeleteRule(DeleteRule(c, j), j)
    BY <2>1, PurgedShort
  <2> QED BY <2>2, <1>6, <1>2, DeletedJump
<1> QED BY <1>1, <1>3, <1>4, <1>5, <1>6

\* Synchronising a jump to the first place puts it there, before the other one.
LEMMA SyncedFirst ==
    ASSUME NEW c \in JumpChains, NEW j \in {TunJump, XrayJump}, NEW k \in {TunJump, XrayJump}, j # k
    PROVE  Synced(c, j, 1) = IF HasRule(c, k) THEN <<j, k>> ELSE <<j>>
<1>1. CASE InPlace(c, j, 1)
  <2>1. c \in {<<>>, <<j>>, <<k>>, <<j, k>>, <<k, j>>}
    BY DEF JumpChains
  <2>2. c # <<>> /\ c[1] = j
    <3>1. {i \in 1..Len(c) : c[i] = j} # {}
      BY <1>1 DEF InPlace, PositionOf, SelectInSeq
    <3>2. HasRule(c, j) /\ PositionOf(c, j) = 1
      BY <1>1, <3>1 DEF HasRule, InPlace
    <3>3. c \in Seq({j, k})
      <4>1. /\ <<>> \in Seq({j, k}) /\ <<j>> \in Seq({j, k}) /\ <<k>> \in Seq({j, k})
            /\ <<j, k>> \in Seq({j, k}) /\ <<k, j>> \in Seq({j, k})
        OBVIOUS
      <4> QED BY <4>1, <2>1
    <3> QED BY <3>2, <3>3, PositionOfRule
  <2>3. c = <<j>> \/ c = <<j, k>>
    BY <2>1, <2>2
  <2> QED BY <1>1, <2>3 DEF Synced, HasRule
<1>2. CASE ~InPlace(c, j, 1)
  <2> DEFINE d == IF HasRule(c, k) THEN <<k>> ELSE <<>>
  <2>1. Synced(c, j, 1) = InsertRule(d, 1, j)
    BY <1>2, PurgedJump DEF Synced
  <2>2. d \in Seq({j, k})
    <3>1. <<>> \in Seq({j, k}) /\ <<k>> \in Seq({j, k})
      OBVIOUS
    <3> QED BY <3>1
  <2>3. InsertRule(d, 1, j) = <<j>> \o d
    BY <2>2, InsertRuleFirst
  <2>4. <<j>> \o <<k>> = <<j, k>> /\ <<j>> \o <<>> = <<j>>
    <3>1. <<j>> \in Seq({j, k}) /\ <<k>> \in Seq({j, k}) /\ <<j, k>> \in Seq({j, k})
      OBVIOUS
    <3>2. /\ <<j>> \o <<k>> \in Seq({j, k}) /\ Len(<<j>> \o <<k>>) = Len(<<j>>) + Len(<<k>>)
          /\ \A i \in 1..(Len(<<j>>) + Len(<<k>>)) :
                (<<j>> \o <<k>>)[i] = IF i <= Len(<<j>>) THEN <<j>>[i] ELSE <<k>>[i - Len(<<j>>)]
      BY <3>1, ConcatProperties, Zenon
    <3> DEFINE s == <<j>> \o <<k>>
    <3>3. s \in Seq({j, k}) /\ Len(s) = 2 /\ s[1] = j /\ s[2] = k
      <4> HIDE DEF s
      <4>1. Len(<<j>>) = 1 /\ Len(<<k>>) = 1 /\ <<j>>[1] = j /\ <<k>>[1] = k
        OBVIOUS
      <4>2. /\ s \in Seq({j, k}) /\ Len(s) = 2
            /\ \A i \in 1..2 : s[i] = IF i <= 1 THEN <<j>>[i] ELSE <<k>>[i - 1]
        BY <3>2, <4>1 DEF s
      <4> QED BY <4>1, <4>2
    <3>4. s = <<j, k>>
      <4> HIDE DEF s
      <4> QED BY <3>1, <3>3, SeqEqual
    <3> QED BY <3>1, <3>4, ConcatEmptySeq
  <2> QED BY <2>1, <2>3, <2>4
<1> QED BY <1>1, <1>2

\* Without firmware marks Tunnel Director's jump goes first.
LEMMA BaseIsFirst ==
    ASSUME NEW c \in JumpChains
    PROVE  BasePos(c) = 1
<1>1. {i \in 1..Len(c) : c[i] = SysMark} = {}
  BY DEF JumpChains, SysMark, TunJump, XrayJump
<1> QED BY <1>1 DEF BasePos, SelectLastInSeq

-----------------------------------------------------------------------------
(* Serialised invocations.                                                  *)

\* What a chain and its hash file say of each other, as long as no tunnel_stop is
\* at work on them.
Kept ==
    hash # NoConfig /\ tunnel # NoConfig =>
        /\ "cut" \notin scars => tunnel = hash
        /\ scars = {} => HasRule(prerouting, TunJump)

\* A jump has a chain to go to, and the chain and the hash file belong together.
Coherent ==
    /\ HasRule(prerouting, TunJump) => tunnel # NoConfig
    /\ HasRule(prerouting, XrayJump) => xray # NoConfig
    /\ (\A p \in Procs : pc[p] \notin Cutting) => Kept

Works == {"reload", "stopXray", "stopTunnel", "applyTunnel", "applyXray", "noXrayJump"}
Typed ==
    /\ TypeOK
    /\ did \in [Procs -> SUBSET Works] /\ last \in Procs \cup {NoOwner}

\* The steps of a command, part by part.
Before      == {"load", "restartXray", "lock"}
XrayStop    == {"stopXray", "dropXray"}
TunnelStop  == {"stopTunnel", "stopFlush", "stopDrop", "stopHash"}
Between     == {"reopen", "relock", "ensure"}
TunnelApply == {"applyTunnel", "oldTunnel", "oldFlush", "oldDrop", "oldHash", "build", "insert", "save"}
XrayApply   == {"applyXray", "jumpXray"}
Busy        == Before \cup XrayStop \cup TunnelStop \cup Between \cup TunnelApply \cup XrayApply

\* What of a command is behind it, and what is still to come, at each step.
Pending(p) ==
    /\ pc[p] \in Before => did[p] \subseteq {"reload"}
    /\ pc[p] \in XrayStop => did[p] \subseteq {"reload"} /\ cmd[p].comp # "tunnel"
    /\ pc[p] \in TunnelStop => did[p] \subseteq {"reload", "stopXray"} /\ cmd[p].comp # "xray"
    /\ pc[p] \in XrayStop \cup TunnelStop => cmd[p].verb \in {"stop", "restart"}
    /\ pc[p] \in {"reopen", "relock"} => cmd[p].verb = "restart"
    /\ pc[p] \in Between \cup TunnelApply \cup XrayApply =>
          "applyXray" \notin did[p] /\ cmd[p].verb \notin {"stop", "dryrun"}
    /\ pc[p] \in TunnelApply => cmd[p].comp # "xray"
    /\ pc[p] \in XrayApply => cmd[p].comp # "tunnel"

\* How the router stands, at each step of the invocation at work.  The chain is
\* built while there is no hash: nobody takes it for done.
UnderWay(p) ==
    /\ pc[p] \in {"stopHash", "oldHash"} => tunnel = NoConfig
    /\ pc[p] \in {"build", "insert", "save"} => hash = NoConfig
    /\ pc[p] \in {"insert", "save"} => tunnel \in {cfg[p], NoConfig}
    /\ pc[p] = "save" /\ tunnel # NoConfig /\ scars = {} => HasRule(prerouting, TunJump)
    /\ pc[p] \in TunnelStop /\ cmd[p].comp = "all" => xray = NoConfig
    /\ "reload" \notin did[p] =>
          /\ pc[p] \in {"insert", "save"} => tunnel = cfg[p]
          /\ pc[p] = "jumpXray" => xray = cfg[p]
          /\ pc[p] \in XrayApply /\ cmd[p].comp = "all" /\ cfg[p] \notin EmptyConfigs =>
                hash = cfg[p] /\ tunnel # NoConfig

\* What SoleEffect says of one invocation, verb by verb.
Sole(p) ==
    last = p /\ cmd[p].comp = "all" /\ "reload" \notin did[p] =>
        /\ cmd[p].verb = "stop" /\ {"stopXray", "stopTunnel"} \subseteq did[p] => AloneStopped
        /\ cmd[p].verb \notin {"stop", "dryrun"} /\ {"applyTunnel", "applyXray"} \subseteq did[p] =>
              AloneApplied(cfg[p], did[p])

Own(p) == Pending(p) /\ UnderWay(p) /\ Sole(p)
Rest == Typed /\ Coherent /\ \A p \in Procs : Own(p)

SerialInv == LockInv /\ Rest

LEMMA SoleIsSoleEffect ==
    ASSUME Typed, \A p \in Procs : Sole(p)
    PROVE  SoleEffect
<1> SUFFICES ASSUME NEW p \in Procs, last = p, cmd[p].comp = "all",
                    Promised(cmd[p]) \subseteq did[p], "reload" \notin did[p]
             PROVE  CASE cmd[p].verb = "stop" -> AloneStopped
                      [] cmd[p].verb = "dryrun" -> TRUE
                      [] OTHER -> AloneApplied(cfg[p], did[p])
  BY DEF SoleEffect
<1>1. CASE cmd[p].verb = "stop"
  BY <1>1 DEF Sole, Promised, Stops
<1>2. CASE cmd[p].verb = "dryrun"
  BY <1>2
<1>3. CASE cmd[p].verb \notin {"stop", "dryrun"}
  <2>1. {"applyTunnel", "applyXray"} \subseteq did[p]
    BY <1>3 DEF Promised, Applies
  <2> QED BY <1>3, <2>1 DEF Sole
<1> QED BY <1>1, <1>2, <1>3

LEMMA LabelParts ==
    /\ Labels = Busy \cup {"exit", "idle"} /\ Holding \subseteq Labels
    /\ Holding = XrayStop \cup TunnelStop \cup TunnelApply \cup XrayApply \cup {"reopen", "ensure", "exit"}
    /\ Cutting \subseteq TunnelStop \cup TunnelApply
BY DEF Labels, Holding, Cutting, Busy, Before, XrayStop, TunnelStop, Between, TunnelApply, XrayApply

\* An invocation that is still busy has not done all that it promised.
LEMMA BusyIsSole ==
    ASSUME NEW p \in Procs
    PROVE  /\ Pending(p) /\ pc[p] \in Busy => Sole(p)
           /\ Pending(p)' /\ pc'[p] \in Busy => Sole(p)'
BY DEF Pending, Sole, Busy

\* What an invocation has done stands, whatever another one does meanwhile: the
\* other one changes the router only under the lock, and then it was the last.
LEMMA OthersKeepOwn ==
    ASSUME SerialInv, NEW p \in Procs, NEW q \in Procs, q # p,
           pc'[q] = pc[q], cmd'[q] = cmd[q], cfg'[q] = cfg[q], did'[q] = did[q],
           \/ UNCHANGED <<router, scars>> /\ last' \in {last, NoOwner}
           \/ UNCHANGED <<router, last>> /\ scars \subseteq scars' /\ pc[p] \in Holding
           \/ last' = p /\ pc[p] \in Holding
    PROVE  Own(q)'
<1>1. Pending(q)'
  BY DEF SerialInv, Rest, Own, Pending
<1>2. CASE UNCHANGED <<router, scars>> /\ last' \in {last, NoOwner}
  <2>1. UnderWay(q)'
    BY <1>2 DEF SerialInv, Rest, Own, UnderWay, router
  <2>2. Sole(q)'
    BY <1>2, SentinelAssumption
    DEF SerialInv, Rest, Own, Sole, AloneStopped, AloneApplied, TunnelInForce, router
  <2> QED BY <1>1, <2>1, <2>2 DEF Own
<1>3. CASE pc[p] \in Holding /\ (last' = p \/ (UNCHANGED <<router, last>> /\ scars \subseteq scars'))
  <2>1. pc[q] \notin Holding
    BY <1>3 DEF SerialInv, LockInv, LockDiscipline
  <2>2. UnderWay(q)'
    BY <2>1, LabelParts DEF UnderWay, TunnelStop, TunnelApply, XrayApply
  <2>3. Sole(q)'
    <3>1. CASE last' = p
      BY <3>1 DEF Sole
    <3>2. CASE UNCHANGED <<router, last>> /\ scars \subseteq scars'
      <4>1. Sole(q) /\ (scars' = {} => scars = {})
        BY <3>2 DEF SerialInv, Rest, Own
      <4>2. ASSUME NEW c PROVE TunnelInForce(c) => TunnelInForce(c)'
        BY <3>2, <4>1 DEF TunnelInForce, router
      <4> QED BY <3>2, <4>1, <4>2 DEF Sole, AloneStopped, AloneApplied, router
    <3> QED BY <1>3, <3>1, <3>2
  <2> QED BY <1>1, <2>2, <2>3 DEF Own
<1> QED BY <1>2, <1>3

\* While an invocation is at work, nobody else is cutting the chain off.
LEMMA AtWork ==
    ASSUME SerialInv, NEW p \in Procs, pc[p] \in Holding
    PROVE  /\ \A q \in Procs : q # p => pc[q] \notin Cutting
           /\ pc[p] \notin Cutting => Kept
BY DEF SerialInv, LockInv, LockDiscipline, Rest, Coherent, Holding

\* Where a step leads, for a command of any kind.
LEMMA CommandTyped ==
    ASSUME Typed, NEW p \in Procs
    PROVE  cmd[p] \in [verb : Verbs, comp : Comps] /\ cfg[p] \in Configs
BY CommandsAssumption DEF Typed, TypeOK, ApplyAll, Verbs, Comps

LEMMA JumpsTyped ==
    SerialInv => prerouting \in JumpChains
BY DEF SerialInv, Rest, Typed, TypeOK, JumpChains

\* A step of an invocation, going on at a label.
Moves(p, label, what) ==
    /\ pc' = [pc EXCEPT ![p] = label] /\ did' = [did EXCEPT ![p] = @ \cup what]
    /\ UNCHANGED <<cmd, cfg, saved, hook>>

\* What is left to show of such a step.
LEMMA MoveKeepsRest ==
    ASSUME SerialInv, NEW p \in Procs, NEW label \in Labels, NEW what \in SUBSET Works,
           Moves(p, label, what),
           status' \in [Procs -> {0, 1, 137, NotRun}], lock' \in Procs \cup {NoOwner},
           \/ UNCHANGED <<router, scars, last>>
           \/ last' = p /\ pc[p] \in Holding,
           prerouting' \in JumpChains, tunnel' \in Configs \cup {NoConfig, Partial},
           {hash, xray}' \subseteq Configs \cup {NoConfig}, scars' \subseteq {"cut", "refused"},
           Coherent', Pending(p)', UnderWay(p)', Sole(p)'
    PROVE  Rest'
<1> USE DEF Moves
<1>1. \A q \in Procs : q # p => pc'[q] = pc[q] /\ did'[q] = did[q]
  BY DEF SerialInv, LockInv, Rest, Typed
<1>2. did' \in [Procs -> SUBSET Works] /\ last' \in Procs \cup {NoOwner}
  BY DEF SerialInv, Rest, Typed
<1>3. Typed'
  BY <1>2 DEF SerialInv, LockInv, Rest, Typed, TypeOK, JumpChains
<1>4. ASSUME NEW q \in Procs, q # p PROVE Own(q)'
  BY <1>1, <1>4, OthersKeepOwn
<1> QED BY <1>3, <1>4 DEF Rest, Own

\* A step that leaves the router and the history alone.
Quiet == UNCHANGED <<saved, router, hook, ghost>>

LEMMA GotoKeepsRest ==
    ASSUME SerialInv, NEW p \in Procs, NEW label \in Labels \ Cutting, Goto(p, label), Quiet,
           pc[p] \notin Cutting, lock' \in Procs \cup {NoOwner}, Pending(p)', UnderWay(p)'
    PROVE  Rest'
<1> USE DEF Goto, Quiet, router, ghost
<1>1. Moves(p, label, {}) /\ pc'[p] = label
  BY DEF Moves, SerialInv, LockInv, Rest, Typed
<1>2. Coherent'
  <2>1. (\A q \in Procs : pc'[q] \notin Cutting) => \A q \in Procs : pc[q] \notin Cutting
    BY <1>1 DEF Moves, SerialInv, LockInv
  <2> QED BY <2>1 DEF SerialInv, Rest, Coherent, Kept
<1>3. Sole(p)'
  BY <1>1 DEF SerialInv, Rest, Own, Sole, AloneStopped, AloneApplied, TunnelInForce
<1>4. /\ status' \in [Procs -> {0, 1, 137, NotRun}] /\ {} \in SUBSET Works
      /\ prerouting' \in JumpChains /\ tunnel' \in Configs \cup {NoConfig, Partial}
      /\ {hash, xray}' \subseteq Configs \cup {NoConfig} /\ scars' \subseteq {"cut", "refused"}
  BY JumpsTyped DEF SerialInv, Rest, Typed, TypeOK
<1> QED BY <1>1, <1>2, <1>3, <1>4, MoveKeepsRest

\* An end of an invocation that leaves the router alone; the chain is cut off
\* when it is the end of a tunnel_stop.
LEMMA ExitKeepsRest ==
    ASSUME SerialInv, NEW p \in Procs, NEW code \in {0, 1, 137}, Exit(p, code),
           UNCHANGED <<saved, router, hook, did, last>>,
           scars' = IF pc[p] \in Cutting THEN CutOff ELSE scars
    PROVE  Rest'
<1> USE DEF Exit, router
<1>1. pc'[p] = "idle" /\ cmd' = cmd /\ cfg' = cfg /\ \A q \in Procs : q # p => pc'[q] = pc[q]
  BY DEF SerialInv, LockInv
<1>2. scars \subseteq scars' /\ scars' \subseteq {"cut", "refused"} /\ (pc[p] \notin Cutting => scars' = scars)
  BY DEF CutOff, SerialInv, Rest, Typed, TypeOK
<1>3. Typed'
  BY <1>2 DEF SerialInv, LockInv, Rest, Typed, TypeOK, Labels
<1>4. Coherent'
  <2>1. CASE pc[p] \notin Cutting
    <3>1. (\A q \in Procs : pc'[q] \notin Cutting) => \A q \in Procs : pc[q] \notin Cutting
      BY <1>1, <2>1
    <3> QED BY <1>2, <2>1, <3>1 DEF SerialInv, Rest, Coherent, Kept
  <2>2. CASE pc[p] \in Cutting
    <3>1. tunnel = NoConfig \/ "cut" \in scars'
      BY <2>2 DEF CutOff
    <3> QED BY <3>1 DEF SerialInv, Rest, Coherent, Kept
  <2> QED BY <2>1, <2>2
<1>5. ASSUME NEW q \in Procs, q # p PROVE Own(q)'
  <2>1. CASE pc[p] \in Cutting
    BY <1>1, <1>2, <1>5, <2>1, OthersKeepOwn DEF Holding
  <2>2. CASE pc[p] \notin Cutting
    BY <1>1, <1>2, <1>5, <2>2, OthersKeepOwn
  <2> QED BY <2>1, <2>2
<1>6. Pending(p)' /\ UnderWay(p)'
  BY <1>1 DEF Pending, UnderWay, Before, XrayStop, TunnelStop, Between, TunnelApply, XrayApply
<1>7. Sole(p)'
  BY <1>1, <1>2 DEF SerialInv, Rest, Own, Sole, AloneStopped, AloneApplied, TunnelInForce
<1> QED BY <1>3, <1>4, <1>5, <1>6, <1>7 DEF Rest, Own

\* The sets of labels, expanded.
LEMMA QuietStepsKeepRest ==
    ASSUME SerialInv, NEW p \in Procs,
           \/ Load(p) \/ RestartXray(p) \/ Lock(p) \/ Reopen(p) \/ Relock(p) \/ Ensure(p)
           \/ Finish(p) \/ Kill(p)
    PROVE  Rest'
<1> USE DEF At, Cutting, Before, XrayStop, TunnelStop, Between, TunnelApply, XrayApply
<1>1. /\ cmd[p] \in [verb : Verbs, comp : Comps] /\ cfg[p] \in Configs
      /\ lock \in Procs \cup {NoOwner} /\ pc \in [Procs -> Labels]
      /\ Pending(p) /\ UnderWay(p)
  BY CommandTyped DEF SerialInv, LockInv, Rest, Own
<1>2. CASE Load(p)
  <2>1. CASE Exit(p, 1)
    BY <1>2, <2>1, ExitKeepsRest DEF Load, router, ghost
  <2>2. CASE saved \notin BadConfigs
    <3> DEFINE label == IF cmd[p].verb = "restart" /\ cmd[p].comp # "tunnel"
                        THEN "restartXray" ELSE "lock"
    <3>1. /\ pc[p] = "load" /\ cfg' = [cfg EXCEPT ![p] = saved] /\ pc' = [pc EXCEPT ![p] = label]
          /\ UNCHANGED <<cmd, status, lock>> /\ Quiet
      BY <1>2, <2>2, SentinelAssumption DEF Load, Exit, Quiet
    <3>2. label \in {"restartXray", "lock"}
      OBVIOUS
    <3> HIDE DEF label
    <3>3. pc'[p] = label /\ cfg' \in [Procs -> Configs] /\ did[p] \subseteq {"reload"}
          /\ \A q \in Procs : q # p => pc'[q] = pc[q] /\ cfg'[q] = cfg[q]
      BY <3>1, <1>1 DEF SerialInv, Rest, Typed, TypeOK, Pending
    <3>4. Typed'
      BY <3>1, <3>2, <3>3
      DEF SerialInv, LockInv, Rest, Typed, TypeOK, Quiet, router, ghost, Labels
    <3>5. Coherent'
      <4>1. (\A q \in Procs : pc'[q] \notin Cutting) => \A q \in Procs : pc[q] \notin Cutting
        BY <3>1, <3>3
      <4> QED BY <3>1, <4>1 DEF SerialInv, Rest, Coherent, Kept, Quiet, router, ghost
    <3>6. ASSUME NEW q \in Procs, q # p PROVE Own(q)'
      BY <3>1, <3>3, <3>6, OthersKeepOwn DEF Quiet, router, ghost
    <3>7. Pending(p)' /\ UnderWay(p)'
      BY <3>1, <3>2, <3>3 DEF Pending, UnderWay, Quiet, ghost
    <3>8. Sole(p)'
      BY <3>2, <3>3, <3>7, BusyIsSole DEF Busy
    <3> QED BY <3>4, <3>5, <3>6, <3>7, <3>8 DEF Rest, Own
  <2> QED BY <1>2, <2>1, <2>2 DEF Load
<1>3. CASE RestartXray(p)
  <2>1. CASE Goto(p, "lock") /\ UNCHANGED lock
    <3>1. Pending(p)' /\ UnderWay(p)'
      BY <1>1, <1>3, <2>1 DEF RestartXray, Goto, Pending, UnderWay, ghost
    <3> QED BY <1>1, <1>3, <2>1, <3>1, GotoKeepsRest DEF RestartXray, Quiet, Labels
  <2>2. CASE Exit(p, 1)
    BY <1>3, <2>2, ExitKeepsRest DEF RestartXray, router, ghost
  <2> QED BY <1>3, <2>1, <2>2 DEF RestartXray
<1>4. CASE Lock(p)
  <2>1. CASE lock' = p /\ Goto(p, UnderLock(cmd[p]))
    <3>1. UnderLock(cmd[p]) \in Labels \ Cutting
      BY BranchLabels DEF Labels
    <3>2. /\ UnderLock(cmd[p]) = "stopTunnel" => cmd[p].verb \in {"stop", "restart"} /\ cmd[p].comp = "tunnel"
          /\ UnderLock(cmd[p]) = "stopXray" => cmd[p].verb \in {"stop", "restart"} /\ cmd[p].comp # "tunnel"
          /\ UnderLock(cmd[p]) = "ensure" => cmd[p].verb \notin {"stop", "dryrun"}
          /\ UnderLock(cmd[p]) \in {"stopTunnel", "stopXray", "exit", "ensure"}
      BY <1>1 DEF UnderLock, StopStart
    <3>3. Pending(p)' /\ UnderWay(p)'
      BY <1>1, <1>4, <2>1, <3>2 DEF Lock, Goto, Pending, UnderWay, ghost
    <3> QED BY <1>4, <2>1, <3>1, <3>3, GotoKeepsRest DEF Lock, Quiet
  <2>2. CASE Exit(p, 0)
    BY <1>4, <2>2, ExitKeepsRest DEF Lock, router, ghost
  <2> QED BY <1>4, <2>1, <2>2 DEF Lock
<1>5. CASE Reopen(p)
  <2>1. Pending(p)' /\ UnderWay(p)'
    BY <1>1, <1>5 DEF Reopen, Goto, Pending, UnderWay, ghost
  <2> QED BY <1>5, <2>1, GotoKeepsRest DEF Reopen, Quiet, Labels
<1>6. CASE Relock(p)
  <2>1. CASE lock' = p /\ Goto(p, "ensure")
    <3>1. Pending(p)' /\ UnderWay(p)'
      BY <1>1, <1>6, <2>1 DEF Relock, Goto, Pending, UnderWay, ghost
    <3> QED BY <1>6, <2>1, <3>1, GotoKeepsRest DEF Relock, Quiet, Labels, Holding
  <2>2. CASE Exit(p, 0)
    BY <1>6, <2>2, ExitKeepsRest DEF Relock, router, ghost
  <2> QED BY <1>6, <2>1, <2>2 DEF Relock
<1>7. CASE Ensure(p)
  <2>1. CASE Goto(p, FirstApplied(cmd[p].comp)) /\ UNCHANGED lock
    <3>1. FirstApplied(cmd[p].comp) \in Labels \ Cutting
      BY BranchLabels DEF Labels
    <3>2. \/ FirstApplied(cmd[p].comp) = "applyXray" /\ cmd[p].comp = "xray"
          \/ FirstApplied(cmd[p].comp) = "applyTunnel" /\ cmd[p].comp # "xray"
      BY DEF FirstApplied
    <3>3. Pending(p)' /\ UnderWay(p)'
      BY <1>1, <1>7, <2>1, <3>2 DEF Ensure, Goto, Pending, UnderWay, ghost
    <3> QED BY <1>1, <1>7, <2>1, <3>1, <3>3, GotoKeepsRest DEF Ensure, Quiet
  <2>2. CASE Exit(p, 1)
    BY <1>7, <2>2, ExitKeepsRest DEF Ensure, router, ghost
  <2> QED BY <1>7, <2>1, <2>2 DEF Ensure
<1>8. CASE Finish(p)
  BY <1>8, ExitKeepsRest DEF Finish, router, ghost
<1>9. CASE Kill(p)
  BY <1>9, ExitKeepsRest DEF Kill
<1> QED BY <1>2, <1>3, <1>4, <1>5, <1>6, <1>7, <1>8, <1>9

LEMMA JumpsDiffer == TunJump # XrayJump
BY DEF TunJump, XrayJump

\* Which jumps the possible chains have.
LEMMA ChainsHave ==
    /\ ~HasRule(<<>>, TunJump) /\ ~HasRule(<<>>, XrayJump)
    /\ HasRule(<<TunJump>>, TunJump) /\ ~HasRule(<<TunJump>>, XrayJump)
    /\ ~HasRule(<<XrayJump>>, TunJump) /\ HasRule(<<XrayJump>>, XrayJump)
    /\ HasRule(<<TunJump, XrayJump>>, TunJump) /\ HasRule(<<TunJump, XrayJump>>, XrayJump)
    /\ HasRule(<<XrayJump, TunJump>>, TunJump) /\ HasRule(<<XrayJump, TunJump>>, XrayJump)
<1>1. ASSUME NEW j, NEW k, j # k
      PROVE  ~HasRule(<<>>, j) /\ ~HasRule(<<j>>, k)
  BY <1>1 DEF HasRule
<1>2. ASSUME NEW j, NEW k
      PROVE  HasRule(<<j>>, j) /\ HasRule(<<j, k>>, j) /\ HasRule(<<j, k>>, k)
  <2>1. /\ 1 \in 1..Len(<<j>>) /\ 1 \in 1..Len(<<j, k>>) /\ 2 \in 1..Len(<<j, k>>)
        /\ <<j>>[1] = j /\ <<j, k>>[1] = j /\ <<j, k>>[2] = k
    OBVIOUS
  <2> QED BY <2>1, Zenon DEF HasRule
<1> QED BY <1>1, <1>2, JumpsDiffer, Zenon

\* A purge, whether a deletion was refused or not, touches no other jump.
LEMMA UnpurgedJump ==
    ASSUME NEW c \in JumpChains, NEW j \in {TunJump, XrayJump}, NEW k \in {TunJump, XrayJump}, j # k,
           NEW d \in Unpurged(c, j) \cup Unsynced(c, j, 1)
    PROVE  /\ d \in JumpChains /\ (HasRule(d, k) <=> HasRule(c, k))
           /\ HasRule(d, j) => HasRule(c, j)
<1>1. d \in {c, Purged(c, j)}
  BY DEF Unpurged, Unsynced
<1>2. Purged(c, j) \in {<<>>, <<k>>}
  BY PurgedJump
<1>3. /\ Purged(c, j) \in JumpChains /\ (HasRule(Purged(c, j), k) <=> HasRule(c, k))
      /\ ~HasRule(Purged(c, j), j)
  BY <1>2, PurgedJump, ChainsHave, JumpsDiffer DEF JumpChains
<1> QED BY <1>1, <1>3

\* Synchronised to the first place, a jump is there and first; the other stays.
LEMMA SyncedJump ==
    ASSUME NEW c \in JumpChains, NEW j \in {TunJump, XrayJump}, NEW k \in {TunJump, XrayJump}, j # k
    PROVE  /\ Synced(c, j, 1) \in JumpChains /\ HasRule(Synced(c, j, 1), j)
           /\ HasFirst(Synced(c, j, 1), j)
           /\ HasRule(Synced(c, j, 1), k) <=> HasRule(c, k)
<1>1. Synced(c, j, 1) = IF HasRule(c, k) THEN <<j, k>> ELSE <<j>>
  BY SyncedFirst
<1>2. <<j, k>>[1] = j /\ <<j>>[1] = j /\ <<j, k>> # <<>> /\ <<j>> # <<>>
  OBVIOUS
<1> QED BY <1>1, <1>2, ChainsHave, JumpsDiffer DEF JumpChains, HasFirst

-----------------------------------------------------------------------------
(* The steps of tunnel_stop.                                                *)

LEMMA RouterTyped ==
    ASSUME SerialInv
    PROVE  /\ prerouting \in JumpChains /\ tunnel \in Configs \cup {NoConfig, Partial}
           /\ {hash, xray} \subseteq Configs \cup {NoConfig} /\ scars \subseteq {"cut", "refused"}
           /\ lock \in Procs \cup {NoOwner} /\ status \in [Procs -> {0, 1, 137, NotRun}]
BY DEF SerialInv, Rest, Typed, TypeOK, JumpChains

\* A step that works on the router, as a move.
LEMMA WorkMoves ==
    ASSUME SerialInv, NEW p \in Procs, NEW label, Goto(p, label), UNCHANGED <<saved, hook>>
    PROVE  /\ pc'[p] = label /\ UNCHANGED <<cmd, cfg, status>>
           /\ Touch(p) => Moves(p, label, {}) /\ last' = p /\ did'[p] = did[p]
           /\ \A what : Done(p, what) =>
                 Moves(p, label, what) /\ last' = p /\ did'[p] = did[p] \cup what
<1>1. pc \in [Procs -> Labels] /\ did \in [Procs -> SUBSET Works]
  BY DEF SerialInv, LockInv, Rest, Typed
<1>2. [did EXCEPT ![p] = did[p] \cup {}] = did
  BY <1>1
<1> QED BY <1>1, <1>2 DEF Goto, Touch, Done, Moves

\* Only the invocation at work matters to what is said of chain and hash.
LEMMA WorkCoherent ==
    ASSUME SerialInv, NEW p \in Procs, pc[p] \in Holding, pc'[p] \in Cutting \/ Kept',
           HasRule(prerouting, TunJump)' => tunnel' # NoConfig,
           HasRule(prerouting, XrayJump)' => xray' # NoConfig
    PROVE  Coherent'
BY DEF Coherent

LEMMA PurgeTunnelKeepsRest ==
    ASSUME SerialInv, NEW p \in Procs,
           \/ PurgeTunnel(p, "stopTunnel", "stopFlush")
           \/ PurgeTunnel(p, "oldTunnel", "oldFlush")
    PROVE  Rest'
<1> DEFINE label == IF pc[p] = "stopTunnel" THEN "stopFlush" ELSE "oldFlush"
<1>1. /\ pc[p] \in {"stopTunnel", "oldTunnel"} /\ Goto(p, label) /\ Touch(p)
      /\ prerouting' \in Unpurged(prerouting, TunJump)
      /\ UNCHANGED <<saved, lock, tunnel, hash, xray, hook, scars>>
  BY DEF PurgeTunnel, At
<1>2. label \in Labels \cap Cutting /\ pc[p] \in Holding
  BY <1>1 DEF Labels, Holding, Cutting
<1>3. /\ prerouting' \in JumpChains /\ (HasRule(prerouting', XrayJump) <=> HasRule(prerouting, XrayJump))
      /\ HasRule(prerouting', TunJump) => HasRule(prerouting, TunJump)
  BY <1>1, RouterTyped, UnpurgedJump, JumpsDiffer
<1>4. /\ pc'[p] = label /\ Moves(p, label, {}) /\ last' = p /\ did'[p] = did[p]
      /\ UNCHANGED <<cmd, cfg, status>>
  BY <1>1, WorkMoves
<1>5. Coherent'
  BY <1>1, <1>2, <1>3, <1>4, WorkCoherent DEF SerialInv, Rest, Coherent
<1>6. Pending(p)' /\ UnderWay(p)'
  BY <1>1, <1>4 DEF SerialInv, Rest, Own, Pending, UnderWay, Before, XrayStop, TunnelStop, Between,
                    TunnelApply, XrayApply
<1>7. Sole(p)'
  BY <1>4, <1>6, BusyIsSole DEF Busy, TunnelStop, TunnelApply
<1> HIDE DEF label
<1> QED BY <1>1, <1>2, <1>3, <1>4, <1>5, <1>6, <1>7, RouterTyped, MoveKeepsRest

LEMMA FlushTunnelKeepsRest ==
    ASSUME SerialInv, NEW p \in Procs,
           \/ FlushTunnel(p, "stopFlush", "stopDrop", "stopHash")
           \/ FlushTunnel(p, "oldFlush", "oldDrop", "oldHash")
    PROVE  Rest'
<1> DEFINE label == CASE pc[p] = "stopFlush" /\ tunnel = NoConfig -> "stopHash"
                      [] pc[p] = "stopFlush" /\ tunnel # NoConfig -> "stopDrop"
                      [] pc[p] # "stopFlush" /\ tunnel = NoConfig -> "oldHash"
                      [] pc[p] # "stopFlush" /\ tunnel # NoConfig -> "oldDrop"
<1>1. /\ pc[p] \in {"stopFlush", "oldFlush"} /\ Goto(p, label) /\ Touch(p)
      /\ tunnel' = IF tunnel = NoConfig THEN NoConfig ELSE Partial
      /\ UNCHANGED <<saved, lock, prerouting, hash, xray, hook, scars>>
  BY DEF FlushTunnel, At
<1>2. /\ label \in {"stopHash", "stopDrop", "oldHash", "oldDrop"} /\ label \in Labels
      /\ label \in {"stopHash", "oldHash"} <=> tunnel = NoConfig
      /\ label \in {"stopHash", "stopDrop"} <=> pc[p] = "stopFlush"
      /\ pc[p] \in Holding
  BY <1>1 DEF Labels, Holding, Cutting
<1> HIDE DEF label
<1>3. /\ pc'[p] = label /\ Moves(p, label, {}) /\ last' = p /\ did'[p] = did[p]
      /\ UNCHANGED <<cmd, cfg, status>>
  BY <1>1, WorkMoves
<1>4. Coherent'
  <2>1. pc'[p] \in Cutting \/ Kept'
    BY <1>1, <1>2, <1>3 DEF Cutting, Kept
  <2> QED BY <1>1, <1>2, <2>1, WorkCoherent, SentinelAssumption DEF SerialInv, Rest, Coherent
<1>5. Pending(p)' /\ UnderWay(p)'
  BY <1>1, <1>2, <1>3 DEF SerialInv, Rest, Own, Pending, UnderWay, Before, XrayStop, TunnelStop,
                          Between, TunnelApply, XrayApply
<1>6. Sole(p)'
  BY <1>2, <1>3, <1>5, BusyIsSole DEF Busy, TunnelStop, TunnelApply
<1>7. tunnel' \in Configs \cup {NoConfig, Partial}
  BY <1>1
<1> QED BY <1>1, <1>2, <1>3, <1>4, <1>5, <1>6, <1>7, RouterTyped, MoveKeepsRest

LEMMA DropTunnelKeepsRest ==
    ASSUME SerialInv, NEW p \in Procs,
           \/ DropTunnel(p, "stopDrop", "stopHash")
           \/ DropTunnel(p, "oldDrop", "oldHash")
    PROVE  Rest'
<1> DEFINE label == IF pc[p] = "stopDrop" THEN "stopHash" ELSE "oldHash"
<1>1. /\ pc[p] \in {"stopDrop", "oldDrop"}
      /\ UNCHANGED <<saved, prerouting, hash, xray, hook>>
      /\ \/ /\ ~HasRule(prerouting, TunJump) /\ tunnel' = NoConfig /\ scars' = {}
            /\ Touch(p) /\ Goto(p, label) /\ UNCHANGED lock
         \/ Exit(p, 1) /\ scars' = CutOff /\ UNCHANGED <<tunnel, did, last>>
  BY DEF DropTunnel, At
<1>2. label \in Labels /\ label \in {"stopHash", "oldHash"} /\ pc[p] \in Holding \cap Cutting
      /\ (label = "stopHash" <=> pc[p] = "stopDrop")
  BY <1>1 DEF Labels, Holding, Cutting
<1> HIDE DEF label
<1>3. CASE Exit(p, 1) /\ scars' = CutOff /\ UNCHANGED <<tunnel, did, last>>
  BY <1>1, <1>2, <1>3, ExitKeepsRest DEF router
<1>4. CASE /\ ~HasRule(prerouting, TunJump) /\ tunnel' = NoConfig /\ scars' = {}
           /\ Touch(p) /\ Goto(p, label) /\ UNCHANGED lock
  <2>1. /\ pc'[p] = label /\ Moves(p, label, {}) /\ last' = p /\ did'[p] = did[p]
        /\ UNCHANGED <<cmd, cfg, status>>
    BY <1>1, <1>4, WorkMoves
  <2>2. Coherent'
    <3>1. Kept'
      BY <1>4 DEF Kept
    <3> QED BY <1>1, <1>2, <1>4, <3>1, WorkCoherent DEF SerialInv, Rest, Coherent
  <2>3. Pending(p)' /\ UnderWay(p)'
    BY <1>1, <1>2, <1>4, <2>1 DEF SerialInv, Rest, Own, Pending, UnderWay, Before, XrayStop,
                                  TunnelStop, Between, TunnelApply, XrayApply
  <2>4. Sole(p)'
    BY <1>2, <2>1, <2>3, BusyIsSole DEF Busy, TunnelStop, TunnelApply
  <2> QED BY <1>1, <1>2, <1>4, <2>1, <2>2, <2>3, <2>4, RouterTyped, MoveKeepsRest
<1> QED BY <1>1, <1>3, <1>4

LEMMA DropHashKeepsRest ==
    ASSUME SerialInv, NEW p \in Procs, hash' = NoConfig,
           UNCHANGED <<saved, lock, prerouting, tunnel, xray, hook, scars>>,
           \/ At(p, "stopHash") /\ Done(p, {"stopTunnel"}) /\ Goto(p, AfterStop(p))
           \/ At(p, "oldHash") /\ Touch(p) /\ Goto(p, "build")
    PROVE  Rest'
<1> DEFINE label == IF pc[p] = "stopHash" THEN AfterStop(p) ELSE "build"
           what == IF pc[p] = "stopHash" THEN {"stopTunnel"} ELSE {}
<1>1. /\ pc[p] \in {"stopHash", "oldHash"} /\ Goto(p, label)
      /\ pc[p] = "stopHash" => Done(p, {"stopTunnel"})
      /\ pc[p] = "oldHash" => Touch(p)
  BY DEF At
<1>2. /\ label \in Labels /\ pc[p] \in Holding
      /\ pc[p] = "stopHash" => label = AfterStop(p)
      /\ pc[p] = "oldHash" => label = "build"
      /\ what \in SUBSET Works /\ (pc[p] = "stopHash" => what = {"stopTunnel"})
      /\ (pc[p] = "oldHash" => what = {})
  BY <1>1, BranchLabels DEF Labels, Holding, Cutting, Works
<1> HIDE DEF label, what
<1>3. /\ pc'[p] = label /\ Moves(p, label, what) /\ last' = p /\ did'[p] = did[p] \cup what
      /\ UNCHANGED <<cmd, cfg, status>>
  BY <1>1, <1>2, WorkMoves
<1>4. tunnel = NoConfig /\ ~HasRule(prerouting, TunJump) /\ Pending(p) /\ UnderWay(p)
  BY <1>1 DEF SerialInv, Rest, Own, Coherent, UnderWay
<1>5. Coherent'
  <2>1. Kept'
    BY DEF Kept
  <2> QED BY <1>2, <2>1, WorkCoherent DEF SerialInv, Rest, Coherent
<1>6. Pending(p)' /\ UnderWay(p)'
  BY <1>1, <1>2, <1>3, <1>4 DEF AfterStop, Pending, UnderWay, Before, XrayStop, TunnelStop, Between,
                                TunnelApply, XrayApply
<1>7. Sole(p)'
  <2>1. CASE pc[p] = "oldHash"
    BY <1>2, <1>3, <1>6, <2>1, BusyIsSole DEF Busy, TunnelApply
  <2>2. CASE pc[p] = "stopHash"
    <3>1. cmd[p].comp = "all" => xray = NoConfig /\ ~HasRule(prerouting, XrayJump)
      BY <2>2, <1>4 DEF UnderWay, TunnelStop, SerialInv, Rest, Coherent
    <3>2. cmd[p].comp = "all" => prerouting = <<>>
      BY <3>1, <1>4, RouterTyped, ChainsHave DEF JumpChains
    <3>3. did'[p] \subseteq {"reload", "stopXray", "stopTunnel"}
      BY <2>2, <1>2, <1>3, <1>4 DEF Pending, TunnelStop
    <3> QED BY <1>3, <1>4, <3>1, <3>2, <3>3 DEF Sole, AloneStopped
  <2> QED BY <1>1, <2>1, <2>2
<1> QED BY <1>1, <1>2, <1>3, <1>5, <1>6, <1>7, RouterTyped, MoveKeepsRest

-----------------------------------------------------------------------------
(* The steps of tunnel_apply.                                               *)

LEMMA ApplyTunnelKeepsRest ==
    ASSUME SerialInv, NEW p \in Procs, ApplyTunnel(p)
    PROVE  Rest'
<1> DEFINE c == cfg[p]
           none == c \in EmptyConfigs \/ UpToDate(c)
<1>1. /\ pc[p] = "applyTunnel" /\ pc[p] \in Holding \ Cutting
      /\ UNCHANGED <<saved, lock, router, hook, scars>> /\ Pending(p) /\ UnderWay(p)
  BY DEF ApplyTunnel, At, Holding, Cutting, SerialInv, Rest, Own
<1>2. CASE none /\ Done(p, {"applyTunnel"}) /\ Goto(p, AfterTunnel(cmd[p].comp))
  <2> DEFINE label == AfterTunnel(cmd[p].comp)
  <2>1. /\ label \in {"applyXray", "exit"} /\ label \in Labels \ Cutting
        /\ label = "applyXray" => cmd[p].comp = "all"
    BY BranchLabels DEF AfterTunnel, Labels
  <2>2. /\ pc'[p] = label /\ Moves(p, label, {"applyTunnel"}) /\ last' = p
        /\ did'[p] = did[p] \cup {"applyTunnel"} /\ UNCHANGED <<cmd, cfg, status>>
    BY <1>1, <1>2, WorkMoves
  <2> HIDE DEF label
  <2>3. Coherent'
    <3>1. Kept'
      BY <1>1, AtWork DEF Kept, router
    <3> QED BY <1>1, <3>1, WorkCoherent DEF SerialInv, Rest, Coherent, router
  <2>4. Pending(p)' /\ UnderWay(p)'
    BY <1>1, <1>2, <2>1, <2>2 DEF Pending, UnderWay, UpToDate, router, Before, XrayStop, TunnelStop,
                                  Between, TunnelApply, XrayApply
  <2>5. Sole(p)'
    BY <1>1, <2>2 DEF Pending, Sole, TunnelApply
  <2>6. {"applyTunnel"} \in SUBSET Works /\ label \in Labels
    BY <2>1 DEF Works
  <2> QED BY <1>1, <2>2, <2>3, <2>4, <2>5, <2>6, RouterTyped, MoveKeepsRest DEF router
<1>3. CASE /\ ~none /\ Goto(p, IF hash = NoConfig THEN "build" ELSE "oldTunnel")
           /\ UNCHANGED <<did, last>>
  <2> DEFINE label == IF hash = NoConfig THEN "build" ELSE "oldTunnel"
  <2>1. label \in Labels \ Cutting /\ label \in {"build", "oldTunnel"} /\ (label = "build" => hash = NoConfig)
    BY DEF Labels, Holding, Cutting
  <2>2. Goto(p, label) /\ Quiet
    BY <1>1, <1>3 DEF Quiet, ghost
  <2> HIDE DEF label
  <2>3. pc'[p] = label /\ UNCHANGED <<cmd, cfg, did>>
    BY <1>3, <2>2 DEF Goto, SerialInv, LockInv
  <2>4. Pending(p)' /\ UnderWay(p)'
    BY <1>1, <2>1, <2>3 DEF Pending, UnderWay, router, Before, XrayStop, TunnelStop,
                            Between, TunnelApply, XrayApply
  <2> QED BY <1>1, <2>1, <2>2, <2>4, RouterTyped, GotoKeepsRest
<1> QED BY <1>2, <1>3 DEF ApplyTunnel

LEMMA BuildKeepsRest ==
    ASSUME SerialInv, NEW p \in Procs, Build(p)
    PROVE  Rest'
<1>1. /\ pc[p] = "build" /\ pc[p] \in Holding \ Cutting /\ Touch(p)
      /\ UNCHANGED <<saved, prerouting, hash, xray, hook>> /\ Pending(p) /\ UnderWay(p)
      /\ hash = NoConfig /\ cfg[p] \in Configs
  BY CommandTyped DEF Build, At, Holding, Cutting, SerialInv, Rest, Own, UnderWay
<1>2. CASE /\ tunnel' = cfg[p] /\ scars' = scars \ {"cut"} /\ Goto(p, "insert") /\ UNCHANGED lock
  <2>1. /\ pc'[p] = "insert" /\ Moves(p, "insert", {}) /\ last' = p /\ did'[p] = did[p]
        /\ UNCHANGED <<cmd, cfg, status>>
    BY <1>1, <1>2, WorkMoves
  <2>2. Coherent'
    <3>1. Kept'
      BY <1>1 DEF Kept
    <3> QED BY <1>1, <1>2, <3>1, WorkCoherent, SentinelAssumption DEF SerialInv, Rest, Coherent
  <2>3. Pending(p)' /\ UnderWay(p)'
    BY <1>1, <1>2, <2>1 DEF Pending, UnderWay, Before, XrayStop, TunnelStop, Between, TunnelApply,
                            XrayApply
  <2>4. Sole(p)'
    BY <2>1, <2>3, BusyIsSole DEF Busy, TunnelApply
  <2>5. "insert" \in Labels /\ scars' \subseteq {"cut", "refused"}
    BY <1>2, RouterTyped DEF Labels, Holding
  <2> QED BY <1>1, <1>2, <2>1, <2>2, <2>3, <2>4, <2>5, RouterTyped, MoveKeepsRest
<1>3. CASE tunnel' \in {tunnel, Partial} /\ Exit(p, 1) /\ UNCHANGED scars
  <2>1. /\ pc'[p] = "idle" /\ Moves(p, "idle", {}) /\ last' = p /\ did'[p] = did[p]
        /\ UNCHANGED <<cmd, cfg>>
    <3>1. [did EXCEPT ![p] = did[p] \cup {}] = did
      BY DEF SerialInv, Rest, Typed
    <3> QED BY <1>1, <1>3, <3>1 DEF Exit, Touch, Moves, SerialInv, LockInv
  <2>2. Coherent'
    <3>1. Kept'
      BY <1>1 DEF Kept
    <3> QED BY <1>1, <1>3, <3>1, WorkCoherent, SentinelAssumption DEF SerialInv, Rest, Coherent
  <2>3. Pending(p)' /\ UnderWay(p)'
    BY <2>1 DEF Pending, UnderWay, Before, XrayStop, TunnelStop, Between, TunnelApply, XrayApply
  <2>4. Sole(p)'
    BY <1>1, <2>1 DEF Sole, Pending, TunnelApply
  <2>5. /\ "idle" \in Labels /\ tunnel' \in Configs \cup {NoConfig, Partial}
        /\ status' \in [Procs -> {0, 1, 137, NotRun}] /\ lock' \in Procs \cup {NoOwner}
    BY <1>3, RouterTyped DEF Labels, Exit
  <2> QED BY <1>1, <1>3, <2>1, <2>2, <2>3, <2>4, <2>5, RouterTyped, MoveKeepsRest
<1> QED BY <1>2, <1>3 DEF Build

LEMMA InsertKeepsRest ==
    ASSUME SerialInv, NEW p \in Procs, Insert(p)
    PROVE  Rest'
<1>1. /\ pc[p] = "insert" /\ pc[p] \in Holding \ Cutting
      /\ UNCHANGED <<saved, tunnel, hash, xray, hook>> /\ Pending(p) /\ UnderWay(p)
      /\ hash = NoConfig /\ BasePos(prerouting) = 1
  BY RouterTyped, BaseIsFirst DEF Insert, At, Holding, Cutting, SerialInv, Rest, Own, UnderWay
<1>2. CASE tunnel = NoConfig /\ Exit(p, 1) /\ UNCHANGED <<prerouting, ghost>>
  BY <1>1, <1>2, ExitKeepsRest DEF router, ghost
<1>3. CASE tunnel = NoConfig /\ Goto(p, "save") /\ UNCHANGED <<lock, prerouting, ghost>>
  <2>1. Quiet /\ pc'[p] = "save" /\ UNCHANGED <<cmd, cfg, did>>
    BY <1>1, <1>3 DEF Quiet, router, ghost, Goto, SerialInv, LockInv
  <2>2. Pending(p)' /\ UnderWay(p)'
    BY <1>1, <1>3, <2>1 DEF Pending, UnderWay, Before, XrayStop, TunnelStop, Between, TunnelApply,
                            XrayApply
  <2> QED BY <1>1, <1>3, <2>1, <2>2, RouterTyped, GotoKeepsRest DEF Labels, Holding, Cutting
<1>4. CASE /\ tunnel # NoConfig /\ Touch(p) /\ Goto(p, "save") /\ UNCHANGED lock
           /\ \/ prerouting' = Synced(prerouting, TunJump, 1) /\ scars' = {}
              \/ /\ prerouting' \in Unsynced(prerouting, TunJump, 1)
                 /\ scars' = IF HasRule(prerouting', TunJump) THEN {} ELSE {"refused"}
  <2>1. /\ pc'[p] = "save" /\ Moves(p, "save", {}) /\ last' = p /\ did'[p] = did[p]
        /\ UNCHANGED <<cmd, cfg, status>>
    BY <1>1, <1>4, WorkMoves
  <2>2. /\ prerouting' \in JumpChains /\ (HasRule(prerouting', XrayJump) <=> HasRule(prerouting, XrayJump))
        /\ scars' = {} => HasRule(prerouting', TunJump)
        /\ scars' \subseteq {"cut", "refused"}
    BY <1>4, RouterTyped, SyncedJump, UnpurgedJump, JumpsDiffer
  <2>3. Coherent'
    <3>1. Kept'
      BY <1>1 DEF Kept
    <3> QED BY <1>1, <1>4, <2>2, <3>1, WorkCoherent DEF SerialInv, Rest, Coherent
  <2>4. Pending(p)' /\ UnderWay(p)'
    BY <1>1, <2>1, <2>2 DEF Pending, UnderWay, Before, XrayStop, TunnelStop, Between, TunnelApply,
                            XrayApply
  <2>5. Sole(p)'
    BY <2>1, <2>4, BusyIsSole DEF Busy, TunnelApply
  <2>6. "save" \in Labels
    BY DEF Labels, Holding
  <2> QED BY <1>1, <1>4, <2>1, <2>2, <2>3, <2>4, <2>5, <2>6, RouterTyped, MoveKeepsRest
<1> QED BY <1>1, <1>2, <1>3, <1>4 DEF Insert

LEMMA SaveHashKeepsRest ==
    ASSUME SerialInv, NEW p \in Procs, SaveHash(p)
    PROVE  Rest'
<1> DEFINE label == AfterTunnel(cmd[p].comp)
<1>1. /\ pc[p] = "save" /\ pc[p] \in Holding \ Cutting /\ Done(p, {"applyTunnel"}) /\ Goto(p, label)
      /\ hash' = cfg[p] /\ UNCHANGED <<saved, lock, prerouting, tunnel, xray, hook, scars>>
      /\ Pending(p) /\ UnderWay(p) /\ cfg[p] \in Configs
  BY CommandTyped DEF SaveHash, At, Holding, Cutting, SerialInv, Rest, Own
<1>2. /\ label \in {"applyXray", "exit"} /\ label \in Labels
      /\ label = "applyXray" => cmd[p].comp = "all"
  BY BranchLabels DEF AfterTunnel, Labels
<1>3. /\ pc'[p] = label /\ Moves(p, label, {"applyTunnel"}) /\ last' = p
      /\ did'[p] = did[p] \cup {"applyTunnel"} /\ UNCHANGED <<cmd, cfg, status>>
  BY <1>1, WorkMoves
<1> HIDE DEF label
<1>4. Coherent'
  <2>1. Kept'
    BY <1>1 DEF Kept, UnderWay
  <2> QED BY <1>1, <2>1, WorkCoherent DEF SerialInv, Rest, Coherent
<1>5. Pending(p)' /\ UnderWay(p)'
  BY <1>1, <1>2, <1>3, SentinelAssumption
  DEF Pending, UnderWay, Before, XrayStop, TunnelStop, Between, TunnelApply, XrayApply
<1>6. Sole(p)'
  BY <1>1, <1>3 DEF Pending, Sole, TunnelApply
<1>7. {"applyTunnel"} \in SUBSET Works /\ {hash, xray}' \subseteq Configs \cup {NoConfig}
  BY <1>1, RouterTyped DEF Works
<1> QED BY <1>1, <1>2, <1>3, <1>4, <1>5, <1>6, <1>7, RouterTyped, MoveKeepsRest

-----------------------------------------------------------------------------
(* The steps of the proxy.                                                  *)

LEMMA ApplyXrayKeepsRest ==
    ASSUME SerialInv, NEW p \in Procs, ApplyXray(p)
    PROVE  Rest'
<1>1. /\ pc[p] = "applyXray" /\ pc[p] \in Holding \ Cutting /\ Pending(p) /\ UnderWay(p)
      /\ UNCHANGED <<saved, lock, prerouting, tunnel, hash, hook, scars>> /\ cfg[p] \in Configs
  BY CommandTyped DEF ApplyXray, At, Holding, Cutting, SerialInv, Rest, Own
<1>2. CASE Goto(p, "exit") /\ UNCHANGED <<xray, did, last>>
  <2>1. Quiet /\ pc'[p] = "exit"
    BY <1>1, <1>2 DEF Quiet, router, ghost, Goto, SerialInv, LockInv
  <2>2. Pending(p)' /\ UnderWay(p)'
    BY <2>1 DEF Pending, UnderWay, Before, XrayStop, TunnelStop, Between, TunnelApply, XrayApply
  <2> QED BY <1>1, <1>2, <2>1, <2>2, RouterTyped, GotoKeepsRest DEF Labels, Holding, Cutting
<1>3. CASE xray' = cfg[p] /\ Touch(p) /\ Goto(p, "jumpXray")
  <2>1. /\ pc'[p] = "jumpXray" /\ Moves(p, "jumpXray", {}) /\ last' = p /\ did'[p] = did[p]
        /\ UNCHANGED <<cmd, cfg, status>>
    BY <1>1, <1>3, WorkMoves
  <2>2. Coherent'
    <3>1. Kept'
      BY <1>1, AtWork DEF Kept
    <3> QED BY <1>1, <1>3, <3>1, WorkCoherent, SentinelAssumption DEF SerialInv, Rest, Coherent
  <2>3. Pending(p)' /\ UnderWay(p)'
    BY <1>1, <1>3, <2>1 DEF Pending, UnderWay, Before, XrayStop, TunnelStop, Between, TunnelApply,
                            XrayApply
  <2>4. Sole(p)'
    BY <2>1, <2>3, BusyIsSole DEF Busy, XrayApply
  <2>5. "jumpXray" \in Labels /\ {hash, xray}' \subseteq Configs \cup {NoConfig}
    BY <1>1, <1>3, RouterTyped DEF Labels, Holding
  <2> QED BY <1>1, <2>1, <2>2, <2>3, <2>4, <2>5, RouterTyped, MoveKeepsRest
<1> QED BY <1>2, <1>3 DEF ApplyXray

LEMMA JumpXrayKeepsRest ==
    ASSUME SerialInv, NEW p \in Procs, JumpXray(p)
    PROVE  Rest'
<1> DEFINE what == did'[p] \ did[p]
<1>1. /\ pc[p] = "jumpXray" /\ pc[p] \in Holding \ Cutting /\ Pending(p) /\ UnderWay(p)
      /\ Goto(p, "exit") /\ UNCHANGED <<saved, lock, tunnel, hash, xray, hook, scars>>
  BY DEF JumpXray, At, Holding, Cutting, SerialInv, Rest, Own
<1>2. PICK did2 \in {{"applyXray"}, {"applyXray", "noXrayJump"}} :
        /\ Done(p, did2)
        /\ \/ xray # NoConfig /\ prerouting' = Synced(prerouting, XrayJump, 1)
           \/ /\ xray # NoConfig /\ prerouting' \in Unsynced(prerouting, XrayJump, 1)
              /\ did2 = {"applyXray", "noXrayJump"}
           \/ xray = NoConfig /\ UNCHANGED prerouting
  BY DEF JumpXray, XrayPos
<1>3. /\ pc'[p] = "exit" /\ Moves(p, "exit", did2) /\ last' = p
      /\ did'[p] = did[p] \cup did2 /\ UNCHANGED <<cmd, cfg, status>>
  BY <1>1, <1>2, WorkMoves
<1>4. /\ prerouting' \in JumpChains /\ (HasRule(prerouting', TunJump) <=> HasRule(prerouting, TunJump))
      /\ HasRule(prerouting', XrayJump) => xray # NoConfig
      /\ xray # NoConfig /\ "noXrayJump" \notin did2 => HasFirst(prerouting', XrayJump)
  BY <1>2, RouterTyped, SyncedJump, UnpurgedJump, JumpsDiffer DEF SerialInv, Rest, Coherent
<1>5. Kept
  BY <1>1, AtWork
<1>6. Kept' /\ Coherent'
  <2>1. Kept'
    BY <1>1, <1>4, <1>5 DEF Kept
  <2> QED BY <1>1, <1>4, <2>1, WorkCoherent DEF SerialInv, Rest, Coherent
<1>7. Pending(p)' /\ UnderWay(p)'
  BY <1>3 DEF Pending, UnderWay, Before, XrayStop, TunnelStop, Between, TunnelApply, XrayApply
<1>8. Sole(p)'
  <2>1. ASSUME cmd[p].comp = "all", "reload" \notin did'[p]
        PROVE  AloneApplied(cfg[p], did[p] \cup did2)'
    <3>1. xray = cfg[p] /\ cfg[p] \in Configs /\ xray # NoConfig
      BY <1>1, <1>3, <2>1, CommandTyped, SentinelAssumption DEF UnderWay, SerialInv, Rest
    <3>2. cfg[p] \notin EmptyConfigs => hash = cfg[p] /\ tunnel # NoConfig
      BY <1>1, <1>3, <2>1 DEF UnderWay, XrayApply
    <3>3. cfg[p] \notin EmptyConfigs => TunnelInForce(cfg[p])'
      BY <1>1, <1>3, <1>6, <3>1, <3>2, SentinelAssumption DEF Kept, TunnelInForce
    <3> QED BY <1>1, <1>3, <1>4, <3>1, <3>3 DEF AloneApplied
  <2>2. cmd[p].verb # "stop"
    BY <1>1 DEF Pending, XrayApply
  <2> QED BY <1>3, <2>1, <2>2 DEF Sole, AloneApplied, TunnelInForce
<1>9. "exit" \in Labels /\ did2 \in SUBSET Works
  BY DEF Labels, Holding, Works
<1> QED BY <1>1, <1>3, <1>4, <1>6, <1>7, <1>8, <1>9, RouterTyped, MoveKeepsRest

LEMMA StopXrayKeepsRest ==
    ASSUME SerialInv, NEW p \in Procs, StopXray(p)
    PROVE  Rest'
<1>1. /\ pc[p] = "stopXray" /\ pc[p] \in Holding \ Cutting /\ Pending(p) /\ UnderWay(p)
      /\ prerouting' \in Unpurged(prerouting, XrayJump) /\ Touch(p) /\ Goto(p, "dropXray")
      /\ UNCHANGED <<saved, lock, tunnel, hash, xray, hook, scars>>
  BY DEF StopXray, At, Holding, Cutting, SerialInv, Rest, Own
<1>2. /\ pc'[p] = "dropXray" /\ Moves(p, "dropXray", {}) /\ last' = p /\ did'[p] = did[p]
      /\ UNCHANGED <<cmd, cfg, status>>
  BY <1>1, WorkMoves
<1>3. /\ prerouting' \in JumpChains /\ (HasRule(prerouting', TunJump) <=> HasRule(prerouting, TunJump))
      /\ HasRule(prerouting', XrayJump) => HasRule(prerouting, XrayJump)
  BY <1>1, RouterTyped, UnpurgedJump, JumpsDiffer
<1>4. Coherent'
  <2>1. Kept'
    BY <1>1, <1>3, AtWork DEF Kept
  <2> QED BY <1>1, <1>3, <2>1, WorkCoherent DEF SerialInv, Rest, Coherent
<1>5. Pending(p)' /\ UnderWay(p)'
  BY <1>1, <1>2 DEF Pending, UnderWay, Before, XrayStop, TunnelStop, Between, TunnelApply, XrayApply
<1>6. Sole(p)'
  BY <1>2, <1>5, BusyIsSole DEF Busy, XrayStop
<1>7. "dropXray" \in Labels
  BY DEF Labels, Holding
<1> QED BY <1>1, <1>2, <1>3, <1>4, <1>5, <1>6, <1>7, RouterTyped, MoveKeepsRest

LEMMA DropXrayKeepsRest ==
    ASSUME SerialInv, NEW p \in Procs, DropXray(p)
    PROVE  Rest'
<1> DEFINE label == IF cmd[p].comp = "all" THEN "stopTunnel" ELSE AfterStop(p)
<1>1. /\ pc[p] = "dropXray" /\ pc[p] \in Holding \ Cutting /\ Pending(p) /\ UnderWay(p)
      /\ UNCHANGED <<saved, prerouting, tunnel, hash, hook, scars>>
  BY DEF DropXray, At, Holding, Cutting, SerialInv, Rest, Own
<1>2. CASE Exit(p, 1) /\ UNCHANGED <<xray, did, last>>
  BY <1>1, <1>2, ExitKeepsRest DEF router
<1>3. CASE /\ xray = NoConfig \/ ~HasRule(prerouting, XrayJump)
           /\ xray' = NoConfig /\ Done(p, {"stopXray"}) /\ Goto(p, label) /\ UNCHANGED lock
  <2>1. /\ label \in {"stopTunnel", "reopen", "exit"} /\ label \in Labels
        /\ label = "stopTunnel" <=> cmd[p].comp = "all"
        /\ label = "reopen" => cmd[p].verb = "restart"
    BY DEF AfterStop, Labels, Holding
  <2>2. /\ pc'[p] = label /\ Moves(p, label, {"stopXray"}) /\ last' = p
        /\ did'[p] = did[p] \cup {"stopXray"} /\ UNCHANGED <<cmd, cfg, status>>
    BY <1>1, <1>3, WorkMoves
  <2> HIDE DEF label
  <2>3. ~HasRule(prerouting, XrayJump)
    BY <1>3 DEF SerialInv, Rest, Coherent
  <2>4. Coherent'
    <3>1. Kept'
      BY <1>1, AtWork DEF Kept
    <3> QED BY <1>1, <2>3, <3>1, WorkCoherent DEF SerialInv, Rest, Coherent
  <2>5. Pending(p)' /\ UnderWay(p)'
    BY <1>1, <1>3, <2>1, <2>2 DEF Pending, UnderWay, Before, XrayStop, TunnelStop, Between,
                                  TunnelApply, XrayApply
  <2>6. Sole(p)'
    BY <1>1, <2>2 DEF Sole, Pending, XrayStop
  <2>7. {"stopXray"} \in SUBSET Works /\ {hash, xray}' \subseteq Configs \cup {NoConfig}
    BY <1>1, <1>3, RouterTyped DEF Works
  <2> QED BY <1>1, <1>3, <2>1, <2>2, <2>4, <2>5, <2>6, <2>7, RouterTyped, MoveKeepsRest
<1> QED BY <1>2, <1>3 DEF DropXray

LEMMA SerialInvariant == Spec => []SerialInv
<1>1. Init => SerialInv
  <2> SUFFICES ASSUME Init PROVE SerialInv
    OBVIOUS
  <2> USE DEF Init
  <2>1. LockInv
    BY SentinelAssumption DEF LockInv, LockDiscipline, Labels, Holding, Cutting
  <2>2. Typed
    BY DEF Typed, TypeOK, Labels
  <2>3. Coherent
    BY ChainsHave DEF Coherent, Kept
  <2>4. \A p \in Procs : Own(p)
    BY SentinelAssumption DEF Own, Pending, UnderWay, Sole, Before, XrayStop, TunnelStop, Between,
                              TunnelApply, XrayApply
  <2> QED BY <2>1, <2>2, <2>3, <2>4 DEF SerialInv, Rest
<1>2. SerialInv /\ LockInv' /\ [Next]_vars => SerialInv'
  <2> SUFFICES ASSUME SerialInv, [Next]_vars PROVE Rest'
    BY DEF SerialInv
  <2>1. ASSUME NEW p \in Procs, Step(p) PROVE Rest'
    <3>1. CASE \/ Load(p) \/ RestartXray(p) \/ Lock(p) \/ Reopen(p) \/ Relock(p) \/ Ensure(p) \/ Finish(p)
      BY <3>1, QuietStepsKeepRest
    <3>2. CASE StopTunnel(p)
      BY <3>2, PurgeTunnelKeepsRest, FlushTunnelKeepsRest, DropTunnelKeepsRest, DropHashKeepsRest
      DEF StopTunnel
    <3>3. CASE StopOld(p)
      BY <3>3, PurgeTunnelKeepsRest, FlushTunnelKeepsRest, DropTunnelKeepsRest, DropHashKeepsRest
      DEF StopOld
    <3>4. CASE ApplyTunnel(p) \/ Build(p) \/ Insert(p) \/ SaveHash(p)
      BY <3>4, ApplyTunnelKeepsRest, BuildKeepsRest, InsertKeepsRest, SaveHashKeepsRest
    <3>5. CASE ApplyXray(p) \/ JumpXray(p) \/ StopXray(p) \/ DropXray(p)
      BY <3>5, ApplyXrayKeepsRest, JumpXrayKeepsRest, StopXrayKeepsRest, DropXrayKeepsRest
    <3> QED BY <2>1, <3>1, <3>2, <3>3, <3>4, <3>5 DEF Step
  <2>2. ASSUME NEW p \in Procs, Kill(p) PROVE Rest'
    BY <2>2, QuietStepsKeepRest
  <2>3. ASSUME NEW p \in Procs, NEW c \in Commands \cup {ApplyAll}, Begin(p, c), hook' \in BOOLEAN
        PROVE  Rest'
    <3> USE <2>3 DEF Begin, At, router
    <3>1. /\ pc'[p] = "load" /\ did'[p] = {} /\ cmd'[p] = c /\ last' # p /\ last' \in {last, NoOwner}
          /\ \A q \in Procs : q # p => pc'[q] = pc[q] /\ cmd'[q] = cmd[q] /\ did'[q] = did[q]
      BY SentinelAssumption DEF SerialInv, LockInv, Rest, Typed, TypeOK
    <3>2. Typed'
      <4>1. did' \in [Procs -> SUBSET Works] /\ last' \in Procs \cup {NoOwner}
        BY DEF SerialInv, Rest, Typed
      <4> QED BY <4>1 DEF SerialInv, LockInv, Rest, Typed, TypeOK, Labels
    <3>3. Coherent'
      <4>1. (\A q \in Procs : pc'[q] \notin Cutting) => \A q \in Procs : pc[q] \notin Cutting
        BY <3>1 DEF Cutting
      <4> QED BY <4>1 DEF SerialInv, Rest, Coherent, Kept
    <3>4. ASSUME NEW q \in Procs, q # p PROVE Own(q)'
      BY <3>1, <3>4, OthersKeepOwn
    <3>5. Own(p)'
      BY <3>1 DEF Own, Pending, UnderWay, Sole, Before, XrayStop, TunnelStop, Between,
                  TunnelApply, XrayApply
    <3> QED BY <3>2, <3>3, <3>4, <3>5 DEF Rest
  <2>4. ASSUME NEW c \in Configs, SaveConfig(c) PROVE Rest'
    <3> USE <2>4 DEF SaveConfig, procs, router, ghost
    <3>1. Typed' /\ Coherent'
      BY DEF SerialInv, LockInv, Rest, Typed, TypeOK, Coherent, Kept
    <3>2. \A q \in Procs : Own(q)'
      BY DEF SerialInv, Rest, Own, Pending, UnderWay, Sole, AloneStopped, AloneApplied, TunnelInForce
    <3> QED BY <3>1, <3>2 DEF Rest
  <2>5. CASE FirewallReload
    <3> USE <2>5 DEF FirewallReload, procs
    <3>1. \A q \in Procs : /\ did'[q] = IF pc[q] = "idle" THEN did[q] ELSE did[q] \cup {"reload"}
                           /\ last' # q
      BY SentinelAssumption
    <3>2. Typed'
      <4>1. did' \in [Procs -> SUBSET Works]
        BY DEF SerialInv, Rest, Typed, Works
      <4> QED BY <4>1 DEF SerialInv, LockInv, Rest, Typed, TypeOK
    <3>3. Coherent'
      BY ChainsHave DEF SerialInv, Rest, Coherent, Kept
    <3>4. ASSUME NEW q \in Procs PROVE Own(q)'
      <4>1. Pending(q)'
        BY <3>1 DEF SerialInv, Rest, Own, Pending
      <4>2. UnderWay(q)'
        BY <3>1 DEF SerialInv, Rest, Own, UnderWay, TunnelStop, XrayApply
      <4>3. Sole(q)'
        BY <3>1 DEF Sole
      <4> QED BY <4>1, <4>2, <4>3 DEF Own
    <3> QED BY <3>2, <3>3, <3>4 DEF Rest
  <2>6. CASE UNCHANGED vars
    <3> USE <2>6 DEF vars, procs, router, ghost
    <3>1. Typed' /\ Coherent'
      BY DEF SerialInv, LockInv, Rest, Typed, TypeOK, Coherent, Kept
    <3>2. \A q \in Procs : Own(q)'
      BY DEF SerialInv, Rest, Own, Pending, UnderWay, Sole, AloneStopped, AloneApplied, TunnelInForce
    <3> QED BY <3>1, <3>2 DEF Rest
  <2>7. ASSUME NEW p \in Procs, NEW c \in Commands, Start(p, c) PROVE Rest'
    BY <2>7, <2>3 DEF Start, SerialInv, Rest, Typed, TypeOK
  <2>8. ASSUME NEW p \in Procs, Hook(p) PROVE Rest'
    BY <2>8, <2>3 DEF Hook
  <2> QED BY <2>1, <2>2, <2>4, <2>5, <2>6, <2>7, <2>8 DEF Next
<1> QED BY <1>1, <1>2, LockInvariant, PTL DEF Spec

\* Each jump of the tool is in PREROUTING at most once, and every variable has
\* its type, whatever order any number of invocations insert and purge in.
THEOREM TypeCorrect == Spec => []TypeOK
<1>1. SerialInv => TypeOK
  BY DEF SerialInv, Rest, Typed
<1> QED BY <1>1, SerialInvariant, PTL

\* Serialisation: when the last invocation to change the router has done all its
\* work on all components, the router is as if it had run alone, whatever any
\* number of others did, were refused or were killed in before, between any two
\* steps of a stop or an apply - unless the firmware reloaded the firewall in the
\* middle of its work.  A chain cut off by a stop that died, and one whose jump was
\* refused, are the two things an apply does not make good, and the only ones.
THEOREM SerialEffect == Spec => []SoleEffect
<1>1. SerialInv => SoleEffect
  BY SoleIsSoleEffect DEF SerialInv, Rest, Own
<1> QED BY <1>1, SerialInvariant, PTL
=============================================================================
