# VPN Director: TLA+ models, checks and proofs

VPN Director routes the traffic of chosen LAN hosts of an Asuswrt-Merlin router
through VPN tunnels or a transparent Xray proxy. A command line tool written in
bash (`router/opt/vpn-director`) edits netfilter chains, ipsets, ip rules and
routes; a Telegram bot and a web UI written in Go (`server/`) edit the
configuration and call the tool; the bot also updates the installation and tells
its users of new releases. This directory models that system in TLA+, checks the
models with TLC and proves theorems about them with TLAPS.

Paths of shell files are relative to `router/opt/vpn-director`, those of Go files
to `server/internal`, unless they begin at the root of the repository.

## Contents

1. Inventory of the system
2. Plan: what is done and what is next
3. The modules and how they correspond to the code
4. The runs, their bounds and what they show
5. Fairness
6. What is proved
7. Where code and documentation disagree, and what else the models showed
8. What is only checked, and what is not modelled

## 1. Inventory

| Component | State | Operations | Interacts with |
|---|---|---|---|
| Command line tool (`vpn-director.sh`, `lib/common.sh`) | lock file, the configuration as loaded | apply, stop, restart, update, dry run; status | calls the components below; started by hooks, init script, cron, bot, web UI, terminal |
| Tunnel Director (`lib/tunnel.sh`) | chain `TUN_DIR`, its jump in `mangle/PREROUTING`, one ip rule per tunnel, hash file in `/tmp` | `tunnel_apply`, `tunnel_stop` | firewall helpers, country sets, firmware |
| Xray proxy (`lib/tproxy.sh`) | chain `XRAY_TPROXY`, its jump, two ipsets, ip rule, route | `tproxy_apply`, `tproxy_stop`, restart of the process | the same |
| Firewall helpers (`lib/firewall.sh`) | none | create, delete, find, purge, ensure, sync | iptables |
| Country sets (`lib/ipset.sh`) | kernel ipsets, dump files | ensure, update, restore from dump, download, build and swap | network, disk |
| Configuration for the scripts (`lib/config.sh`) | read-only variables | load at start, filter paused clients | `vpn-director.json` |
| Configuration store (`vpnconfig`, `service`) | `vpn-director.json`, `servers.json`, `xray/config.json` | load, change, save | bot, web UI, scripts |
| Web API (`webapi`) | one mutex for operations | clients, exclusions, servers, import, scripts | store, tool, authentication |
| Authentication (`auth`, `webapi`) | failed logins per address, signing secret, cookie | login, logout, check of each request, clean-up | shadow file, store (the secret is in the configuration) |
| Bot's process (`bot`, `telegram`) | offset, channel of updates, connection | start with retries, fetch, handle one by one, end | Telegram, proxy |
| Bot's dialogues (`wizard`, `handler`) | a wizard session, an exclusion session, a pending address per chat; old keyboards in the chat | commands, buttons, texts | store, tool |
| Self-update (`updater`, `startup`) | lock, downloaded files, notification file, installed files | download, write script, run it, notify after restart | GitHub, init scripts, monit |
| Update notices (`updatechecker`, `chatstore`) | per user: chat, active, versions told; `chats.json` | record, periodic check, send, mark | GitHub, Telegram |
| Subscription import, front end (`web/`), installation, e-mail | none that matters here | | |

What is hard, and what makes each component correct:

* **Rules are built call by call while packets pass through them**, and the
  firmware rebuilds the firewall, or brings a VPN client up or down, between any
  two calls. Correct: a packet goes where the configuration sends it or, for a
  moment, directly; never into the tunnel of somebody else, never to the proxy
  unless its sender is a client, never marked without a route for the mark.
* **A script may be killed between any two calls, and a call may fail on its own
  and be passed over.** Correct: what the hash certifies is in force whenever the
  next apply would take it for "up-to-date", but for the cases named in section 7;
  what is lost costs no more than it stands for; a stop that reaches its end has
  removed everything, whatever it found.
* **Many processes start the tool at any time.** Correct: they are serialised;
  each leaves what it would leave alone; the saved configuration is in force in
  the end.
* **The configuration is shared by concurrent requests and by two programs that
  know nothing of each other**, and saved by truncating it first. Correct: on the
  file the whole web UI acts as one client, an import changes its two files as
  one, everybody is answered.
* **Messages of a chat keep their buttons for ever**, and texts are offered to
  every dialogue. Correct: one dialogue listens, what is applied is what the
  summary has said (with exceptions, section 7), what one dialogue of a chat has
  saved is not taken back by another.
* **An update replaces the program that runs it**, passing from a goroutine to a
  script that outlives it. Correct: one at a time, the bot and the scripts it calls of
  one release, the bot comes back, and says what is true of them.
* **Notices are sent at intervals while users write, block and leave.** Correct:
  once per user and release, nobody forgotten by a failing write, nobody left out whom
  no notice was refused to, everybody told in the end.
* **Answers get lost.** Correct: no message of the bot is delivered twice by its
  own fallback, no message to it is passed over, the bot never gives up.
* **Logins interleave with clock, clean-up and restarts.** Correct: a bound on
  wrong passwords, no lockout for other reasons, sessions that last.

`PROJECT.json` lists every such hazard at its line with the properties about it.

## 2. Plan

Done:

1. `Netfilter`: chains and the helpers that edit them, one operator per kernel call.
2. `TunnelDirector`, `TunnelRouting`: `lib/tunnel.sh` call by call with the
   firmware; the rules evaluated on packets against a decision taken from the
   configuration alone.
3. `VpnDirector`: the tool, the lock and the interplay of invocations.
4. `XrayTproxy`: `lib/tproxy.sh` call by call.
5. `TwoWriters`, an abstract specification, and `ConfigStore`, which implements it.
6. `BotDialogues`, `BotConnection`: the bot.
7. `SelfUpdate`, `UpdateNotices`, `WebAuth`.
8. `*_proofs`: type correctness of every component, every safety and action property
   the runs check, and the refinement of 5.

Next:

* `RouterIntent`, an abstract specification of the router - a configuration
  installed or lost as a whole - that `TunnelDirector` implements when the
  script is not killed and no call fails. It would make the steps by which
  `VpnDirector` applies and stops tunnels a theorem of the detailed module.
* `IpsetCache`: `lib/ipset.sh` with dumps, failing downloads, build and swap.
* Pure functions: version order, pagination, parsing of links, validation of
  addresses, sizes of ipsets.

## 3. Modules and code

### Netfilter

A chain is a sequence of rules in the order the kernel tries them; `NoChain` is a
chain that does not exist. Every operator is one kernel call or one read of
`lib/firewall.sh`; a helper that makes several calls (`sync_fw_rule` deletes what
matches, then inserts) is spelled out in the modules that run it. `InsertRule`
refuses an index past the end, as iptables does, which is what makes the position
computed by `_tunnel_get_prerouting_base_pos` a hazard.

### TunnelDirector and TunnelRouting

`pc` is the next call of the script. `StartApply` and `StartStop` begin an
invocation, `Check` is `tunnel_apply` up to the decision (no tunnels; up to date;
stop first; build), `PurgeJump` to `RmHash` are `tunnel_stop`, `CreateChain` to
`SaveHash` the rebuild. The nested loops over tunnels, clients and exclusions are
`NextTunnel`, `NextClient`, `Exclude`, `Mark`; `entry`, `cl` and `ex` are their
positions, `idx` is `tunnel_idx`, and in `tunnel_stop` the loop counter. Where
`set -e` ends the script because the chain has gone, the action has the disjunct
`Lost`. `Kill`, `SaveConfig`, `IpSetCreated` and the firmware's `FirewallReload`,
`VpnUp` and `VpnDown` surround it.

Configurations are sequences of entries, since the order of the keys in the file
decides (`keys_unsorted`). Paused clients are already removed, by `lib/config.sh`.
The hash is modelled by the configuration it is the SHA-256 of, so collisions are
left out. An entry whose value is no object is passed over; `clients` that are no
array cannot get this far, as `lib/config.sh` ends the script.

History variables, which no guard reads: `built` and `builtSets` say what the
chain was last created for; `faults` says whether the script was ever killed, whether an
`ip rule add` ever failed, whether `set -e` ever ended it (`Lost`), and whether the
firmware took a mark rule away between the moment the script read the position of the
jump and the one it inserts it (`Positioned`, "shifted"). Properties that such faults
really break are stated for behaviours without them, within the one run that has all faults.

`TunnelRouting` evaluates the rules as the kernel does: `Route(h, d)` is the
table a packet is looked up in. `Decision` is the reference: the first served
tunnel that has a LAN client entry for the host, unless it excludes the destination.

### XrayTproxy

The same for `lib/tproxy.sh`: `Start` reads the configuration, which may be any of
`Configs` each time; `Check` (module, required sets), `SetupRoute`, `SetupRule`, the
ipsets flushed and filled entry by entry, chain created or flushed, rules appended
one by one, jump put at position 1 (`SyncJump`, `PurgeOld`, `InsertJump` are the
calls of `sync_fw_rule`); then `tproxy_stop`. One rule stands for the seven that
skip local ranges. A packet is a host, a destination and a protocol. Excluded
addresses that do not parse are left out of the lists, as
`_tproxy_setup_bypass_ipset` leaves them out.

Any single call of iptables, and any single `ipset add`, may fail on its own
(`Fails`): iptables runs without `-w` and is refused while another process holds the
xtables lock. Inside `_tproxy_setup_iptables`, the condition of an `if`, such a
failure is passed over, and so is the loss of the chain to a reload; a refused
`ipset add` costs a warning; `delete_fw_chain` ends the script. The history
variables say what is owed in spite of that: `due` are the rules asked of the chain
less those whose own call failed, `refused` the entries whose own `ipset add`
failed, `filled` the configuration the clients were last filled in from, `flushed`
that the chain was empty when its rules were last added. The properties are stated
in terms of them, so that a lost rule or entry may cost what it stands for and no
more: without the rule of `lib/tproxy.sh:330` every host is proxied, and with it
only clients are, whichever other call has failed.

### VpnDirector

`Procs` are slots for invocations, each with a command, the configuration it has
loaded and an exit status. The steps follow the script: `Load` (which ends the
invocation when the file cannot be read), `RestartXray`, `Lock`, `Ensure`, the
components, `Finish`; `Reopen` and `Relock` are the second `acquire_lock` of a
restart, whose `exec 200>` closes the file that was locked. Inside the lock a
component is cut wherever a kill, a reload or a refused call can part its jump, its
chain and its hash file: `tunnel_stop` into the purge of the jump (`PurgeTunnel`),
`-F` and `-X` of the chain (`FlushTunnel`, `DropTunnel`) and the removal of the
hash, as a command (`StopTunnel`) and within an apply (`StopOld`); `tunnel_apply`
into the decision (`ApplyTunnel`), the chain with its rules (`Build`), the jump
(`Insert`) and the hash (`SaveHash`); the proxy into chain and jump (`ApplyXray`,
`JumpXray`), jump and chain (`StopXray`, `DropXray`). Within these the calls, and
what packets meet between them, are the subject of the two modules above.
`IptablesMayFail` lets a call be refused: ignored where the helpers ignore it,
the end of the script where `set -e` sees it. `tunnel`, `hash` and `xray` hold the
configuration a component was last built for; `Partial` is a chain that may lack rules.

`did`, `last` and `scars` are history. `scars` is what the present chain has suffered
and no later apply makes good: "cut", when a `tunnel_stop` ended after it may have
purged the jump or flushed the chain and before it dropped it; "refused", when the
insertion of the jump was. The next apply finds hash and chain and calls them up to
date (`lib/tunnel.sh:283`). `SoleEffect` and `Heals` except just these, and say that
there is no other way to end up without the rules.

### TwoWriters and ConfigStore

`TwoWriters` is what the configuration file promises to be: each of two clients,
the web UI and the bot, holds at most one copy of it at a time; it loads a copy,
and then the file loses its contents and gets those of the copy changed by one
operation, or a mixture if the other has written meanwhile. A client may also
drop its copy.

`ConfigStore` has any number of requests of the web UI, with the goroutines'
interleaving, and the bot. `pc` is the next step of each; `First` and `After` give
the order in which the handlers make their calls, one step each:
`Lock` (`Deps.OpMutex`), `ReadList` (`LoadServers`), `Generate`
(`GenerateConfig`), `Load` (`LoadVPNConfig`), `Save` and `Write` (the two effects
of `os.WriteFile`), `SaveList` and `WriteList` (the same of `servers.json`),
`Script`, `End` (the answer and the deferred `Unlock`). What an operation makes of
a configuration is `Updated`: clients added, paused, resumed and removed,
exclusions, the choice of a server, an import, the wizard. A copy is cleared as it
is written, since nothing reads it afterwards. `Kill` ends the web UI with all
its requests, or the bot. A configuration has the fields the operations change,
each a set; a file is a configuration, `Empty` or `Mixed`.

The refinement mapping takes `copy[r]` of the request that holds one for the
web UI's copy. It holds because every operation on the file, from its load to its
save, lies within the mutex; that is what the mutants of the run take away.

### BotDialogues

The three dialogues of one chat. Sessions are the variables `wizard`, `exclude`
and `adding` (`addState` of `/clients`); `board` is the keyboard shown last. Each
command, button and text is one action, as the bot handles one update to its end.
Any button may be pressed at any time, since messages keep theirs: `disturbed`
records that one was not on the last keyboard. Another chat of the same bot, which
has sessions of its own, the web UI and the scripts change the files at any time:
`others` records which part of the configuration was changed from outside of this
chat since the dialogue began. The wizard's buttons are told apart by `Handled`, the
step of the session, as `wizard/handler.go` does, with apply and cancel accepted at
any step. Apply reads the list of servers again and looks the chosen index up in it,
saves the default country if none was chosen, and the excluded addresses. `opened`,
`shown` and `applied` are history: what `/exclude` was opened on, the summary above
the last keyboard, what was just applied and from which list.
A text is taken by all three dialogues in the order of `bot/router.go`
(`ClientsText`, `ExcludeText`, `WizardText`).

### BotConnection

The bot's process: `Start`, `Connect`, `GiveUp`, `Retry` are the loop of `server/cmd/bot/main.go`
and `bot.New`; `RoundTrip` is the transport with proxy and fallback, by the number of
times a request reaches Telegram and whether its answer comes back. `Poll` and
`Push` are the library's goroutine, modelled from its use and marked external;
`Take`, `Answer`, `Stop` the loop of `Run`. `Weather` changes the two ways to
Telegram at any time; `Signal` and `Kill` are the init script.

### SelfUpdate

`Command`, `Check`, `CreateLock` are `/update`; `Download`, `Run`, `Clean`,
`GiveUp` its goroutine; the remaining steps of an update are those of
`update_script.sh.tmpl`, in its order. One record per update holds its place, so
that it is plain which steps are lost with the bot (`WithoutGoroutines`).
`Notify` and `RemoveUpdateDir` are `startup/notify.go`. `Files` is the list of the
updater (`updater/downloader.go:25-43` and the bot), `LeftOut` what `install.sh`
installs besides: the web UI and its init script. Releases appear and are
withdrawn; scripts fail at any step; `Crash`, `Restart` and `Reboot` are the
surroundings. A lock is a process number, `Torn` when the creator ended before it
wrote one. Process numbers are not reused. `failed` and `meddled` are history: a
script was cut off; a bot was started by somebody else while a script was at work,
in time for the script to kill it or too late.

### UpdateNotices

`users` is the store in memory, `file` is `chats.json`; every operation of
`chatstore` is one step, under its mutex, and ends in `Save`, which writes a
temporary file and renames it, or fails and leaves the file behind the memory.
`Message` is the recording of a chat; `Check`, `Skip`, `Send`, `SendBlocked`,
`SendFails`, `Mark`, `MarkInactive`, `EndCheck` are a pass of the checker, which
takes its list of users, with the chats known then, at its beginning. `Block` and
`Unblock` are the users', who need not write to unblock the bot. `Restart`
loads the file, or cannot read it and starts with nobody, as `chatstore.New` does
with any error. `told`, `again`, `unmarked`, `unread`, `refused` and `stranded` are history.

### WebAuth

`Login`, `Verify`, `Fail`, `Error`, `Enter` are the stages of one `POST
/api/login`, each a step because the mutex of the limiter is held for `allow` and
`record` only, and the shadow file is read in between. `Authorized` is the
middleware. `Cleanup` is the limiter's goroutine; `Start`, `Stop`, `Exit` the
server, with the secret generated or read. `BotRead` and `BotSave` are the other
program that writes the file the secret is in. Times are ages, which `Tick`
advances up to the point where no comparison tells them apart. `wrong` is history: the
ages of the last wrong passwords of each address, newest first, one more of them
(`Remembered`) than `Throttled` allows within a lockout; a place not used yet is `Old`.

## 4. Runs and bounds

| Run | Kind | Shows | Distinct states |
|---|---|---|---|
| `tunnel` | pass | `TypeOK`, `CertifiedRouting`, `PartialChainMarksLess`, `StopLeavesNothing`, `NeverMisrouted`, `NoOrphanIpRules`, `Converges` (liveness) | 420 k |
| `xray_rebuild` | pass | `NeverProxiesOthers`, `MarkedIsRouted`, `AppliedExactly`, `StopRemovesAll` | 2.2 M |
| `vpn_serial` | pass | `LockDiscipline`, `SoleEffect` | 9.0 M |
| `vpn_heals` | pass | `Heals` (liveness) | 1.0 M |
| `store_shared` | pass | `TypeOK`, `ActsAsTwoWriters` (refinement), `UnreadableWhy`, `ImportIsWhole`, `EveryoneAnswered` (liveness) | 404 k |
| `dialogues` | pass | `OneUnlessOld`, `NothingTakenBack`, `ConfirmedFirst`, `AddsOnce` | 1.8 M |
| `self_update` | pass | `HoldsLock`, `SameRelease`, `NeverDowngrades`, `ToldWhatIs`, `BringsBotBack` (liveness) | 436 k |
| `update_notices` | pass | `NotifiedOnce`, `InactiveWasRefused`, `NobodyForgotten`, `EventuallyTold` (liveness) | 207 k |
| `web_auth` | pass | `NoUndueLockout`, `Throttled`, `StaysLoggedIn`, `Forgotten` (liveness) | 786 k |
| `bot_connection` | pass | `DeliveredOnce`, `NeverGivesUp`, `NothingSkipped`, `Served` (liveness) | 450 k |
| `vpn_success`, `dialogues_old` | violation | section 7 | |

`TypeOK` is a property of a run where it carries more than types (`tunnel`,
`store_shared`); in the other modules it documents the types and holds under the
same configurations. Each component has a theorem about it (section 6).

*Tunnel Director.* Two slots (`FieldMax = 2`) where the code has 255: enough for
one tunnel to shadow another, for one to take the slot of another after a change,
and for one too many. The four configurations are no tunnels; a host and a network
that contains it in two tunnels, the first with an exclusion; the tunnels and the
exclusion swapped; and one with every way to be passed over and more tunnels than
slots. One country set, present or not. Two hosts and two destinations make every
match differ. At most `MaxSysMarks = 1` firmware mark rules are in PREROUTING at
once: one is enough to shift the position of the jump and to make it too large.
Misrouting is claimed for behaviours without kills because a killed stop really
leaves ip rules that a later configuration reuses; after kills, `CertifiedRouting`
says what holds still.

*Proxy.* Two hosts; one destination of each kind (local, server, VPN
endpoint, in an excluded country, elsewhere); configurations that differ in
clients, bypassed addresses and sets, one with no clients. `MaxFailures = 1` call of
each invocation fails on its own; since a flush that fails leaves the old chain to
the next invocation, failures of several come together. The proofs are for any number.

*Tool.* Two invocations at a time, which is what every race found needs; process slots are
reused, so any number run one after the other. Processes are symmetric and `vpn_serial`
uses that; `vpn_heals` does not. `vpn_serial` has one usable configuration, one without
tunnels and one that cannot be read; `stop`, `restart` and `apply` of everything and an
`apply` of the tunnels alone; and every way to fail. `vpn_heals` has two
usable configurations and applies of everything, which may be killed or be refused a
call; country sets and the Xray process do not fail there, since a failing
invocation is excepted from some point on anyway.

*Store.* Two requests and the bot, one client, one tunnel, two lists of servers of
different length, so that an index is valid for one of them only. The operations
of the run differ in the files they touch and in their order; the ones left out
(resume, the exclusions, the bot's pause, ...) make the same calls as one that is
in. `MaxOps = 3` operations begin: one of each actor, or two of one around one of
another; a violation of the refinement takes two. It ends after them, so deadlock
is not checked there.

*Dialogues.* One address that can be a client, one that can only be excluded, two
routes, one of them a tunnel, one country; one server, or two with that one in
second place (`ServerLists`), so that an index means another server or none after an
import (a list without servers and one that cannot be loaded come to the same); one client and two excluded addresses per list (`MaxClients`, `MaxIPs`): two,
so that a position on an old keyboard can mean another address. No bound on the
number of steps.

*Self-update.* Three releases, so that an update can be overtaken and withdrawn;
two files, a script and the bot, copied in that order, and one of the web UI that is
not; two updates begun
(`MaxUpdates`), which may overlap, and four processes of the bot (`MaxStarts`).
A bot may be started at any time by monit, which the script could not turn off, or
by hand; `meddled` records it, and each property says what such a start breaks:
one that is killed by the script after all breaks nothing but the hold of the lock.

*Notices.* A user whom `allowed_users` may list and who writes from a chat of his own or from
a group, and a stranger in the same group; three releases, `Limit = 1` version
remembered (10 in the code), so that forgetting happens; three starts (`MaxRuns`),
each of which may find the file unreadable; any chat blocked and unblocked at any time.

*Logins.* One address - addresses do not influence each other -, two requests in
flight, `MaxAttempts`, `Window`, `Lockout` and `Lifetime` of 2, two starts. Every
deadline is passed and not passed. With two requests some wrong bounds for `Throttled`
cannot be told from the right one (section 7); the proof is for any number.

*Connection.* All four ways to be configured and all tokens, a user and a
stranger, three messages, a channel of one (`Buffer`, 100 in the code) that fills up, two
answers per command, two starts.

Deadlock is checked except where operations, messages, starts or processes are
bounded and the system may come to its end (`store_shared`, `self_update`,
`update_notices`, `web_auth`, `bot_connection`).

## 5. Fairness

* `Converges`: weak fairness of the script's own steps and strong fairness of
  `StartApply`: the init script enters a nightly `update` into the cron table and
  the hooks run `apply` on every event, so an apply comes again and again whenever
  none is running. It is claimed for a configuration with tunnels that stays saved,
  with nobody stopping the director, after the last reload and the last kill. The
  jump is claimed only if the script was never killed and no firmware mark rule went
  between reading its position and inserting it: otherwise it may be lost for good
  (section 7).
* `Heals`: weak fairness of each invocation's steps and of the hook. That an
  apply of all components gets the lock again and again is a premise of the
  formula: the lock is tried, not waited for. So is that from some point on no
  invocation dies and no reload comes; a chain that bears a scar by then lacks what
  the scar says and nothing else. Its run has no `stop` commands, after which the
  director is meant to stay stopped.
* `EveryoneAnswered`: weak fairness of each handler, since goroutines run on and every call
  ends, and strong fairness of `Lock`: `sync.Mutex` hands itself to who has waited
  longest after a millisecond (its starvation mode).
* `BringsBotBack`: weak fairness of goroutine, script and start-up, and of monit
  when it watches the bot; a script that fails, and the bound on processes, are
  excepted in the formula.
* `EventuallyTold`: weak fairness of the checker (its ticker fires), strong
  fairness of reaching Telegram for each user: a notice is tried at each check, and not
  for ever in vain. A user who stops being due - writes from elsewhere, blocks the
  bot, is removed from the list - need not be told.
* `Forgotten`: the clock, the clean-up and the handlers; nothing is assumed of those who log in.
* `Served`: the goroutines, and strong fairness of connecting and polling: both are
  repeated without end, and `[]<>Reachable` is a premise.

Safety properties use no fairness. Nothing is assumed of the firmware or of users.

## 6. What is proved

Every safety and action property a passing run checks is a theorem, and so is the
refinement. The theorems hold for all values of the constants that satisfy the named
assumptions of the modules:

* configurations are sequences of entries over the given tables, clients and sets,
  and a list of servers is a sequence of servers (`ListAssumption`);
* the operations of the store have a kind the handlers implement and the fields the
  handlers have decoded and validated before they begin (`InputAssumption`);
* the files of the updater's list are named and none of them is one left out
  (`FileAssumption`);
* the limiter locks an address out after two wrong passwords at least, and for no longer
  than its window (`LimiterAssumption`; `webapi/router.go:33` has five, half a minute
  and a minute), and finitely many logins are in flight;
* the words a user types are addresses or not, and no address is one of the sentinels
  (`TextAssumption`); the code chosen at first is one on the keyboard, and the tunnels
  are among the routes (`ChoiceAssumption`);
* sentinels are not values (`None`, `NoChain`, `Torn`, ...; `JobAssumption`,
  `RecordAssumption` and `KeyboardAssumption` are of this kind), flags are Booleans, bounds are numbers.

Bounds of the runs are constants too: nothing is assumed of `MaxStarts`, `MaxUpdates`,
`MaxOps`, `MaxFailures` or `FieldMax` but that they are numbers.

| Theorem | States | Carried by |
|---|---|---|
| `TunnelDirector_proofs!TypeCorrect` | `Spec => []TypeOK` | `TypeInv` |
| `TunnelDirector_proofs!StopIsComplete` | `Spec => []StopLeavesNothing` | `StopInv` |
| `TunnelDirector_proofs!NoRuleIsOrphan` | `Spec => []NoOrphanIpRules` | `RouteInv` |
| `TunnelDirector_proofs!PartialChainIsSafe` | `Spec => []PartialChainMarksLess` | `RouteInv` |
| `TunnelDirector_proofs!CertifiedMeansRouted` | `Spec => []CertifiedRouting` | `RouteInv` |
| `TunnelDirector_proofs!NoPacketMisrouted` | `Spec => []NeverMisrouted` | `RouteInv` |
| `XrayTproxy_proofs!ProxiedIsRouted` | `Spec => []MarkedIsRouted` | `Routing` |
| `XrayTproxy_proofs!StopIsComplete` | `Spec => []StopRemovesAll` | `Routing` |
| `XrayTproxy_proofs!TypeCorrect` | `Spec => []TypeOK` | `Content` |
| `XrayTproxy_proofs!OnlyClientsProxied` | `Spec => []NeverProxiesOthers` | `Content`, `Routing`, `Ordered` |
| `XrayTproxy_proofs!AppliedIsExact` | `Spec => []AppliedExactly` | the same and `Complete` |
| `VpnDirector_proofs!LockIsExclusive` | `Spec => []LockDiscipline` | `LockInv` |
| `VpnDirector_proofs!MutualExclusion` | two invocations at work are the same | `LockInv` |
| `VpnDirector_proofs!TypeCorrect` | `Spec => []TypeOK` | `SerialInv` |
| `VpnDirector_proofs!SerialEffect` | `Spec => []SoleEffect` | `SerialInv` |
| `ConfigStore_proofs!OneRequestAtWork` | at most one request works on the files | `StoreInv` |
| `ConfigStore_proofs!ActsAsTwo` | `Spec => ActsAsTwoWriters` (refinement) | `StoreInv` |
| `ConfigStore_proofs!TypeCorrect` | `Spec => []TypeOK` | `FilesInv` |
| `ConfigStore_proofs!UnreadableExplained` | `Spec => []UnreadableWhy` | `FilesInv` |
| `ConfigStore_proofs!ImportsAreWhole` | `Spec => []ImportIsWhole` | `FilesInv` |
| `Bot_proofs!ConnectionTypeCorrect` | `ConnectionSpec => []ConnectionTypeOK` | `Updates` |
| `Bot_proofs!NoneIsSkipped` | `ConnectionSpec => []NothingSkipped` | `Updates` |
| `Bot_proofs!NoneIsDoubled` | `ConnectionSpec => []DeliveredOnce` | inductive |
| `Bot_proofs!NetworkEndsNothing` | `ConnectionSpec => []NeverGivesUp` | inductive |
| `Bot_proofs!DialoguesTypeCorrect` | `DialoguesSpec => []DialoguesTypeOK` | inductive |
| `Bot_proofs!OneDialogueListens` | `DialoguesSpec => []OneUnlessOld` | `DialoguesInv` |
| `Bot_proofs!ExcludeTakesNothingBack` | `DialoguesSpec => []NothingTakenBack` | `DialoguesInv` |
| `Bot_proofs!SummaryComesFirst` | `DialoguesSpec => []ConfirmedFirst` | `DialoguesInv` |
| `Bot_proofs!ClientIsAddedOnce` | `DialoguesSpec => AddsOnce` | `DialoguesInv` |
| `Bot_proofs!NoticesTypeCorrect` | `NoticesSpec => []NoticesTypeOK` | `NoticesInv` |
| `Bot_proofs!ToldOnce` | `NoticesSpec => []NotifiedOnce` | `NoticesInv` |
| `Bot_proofs!OnlyRefusedAreLeftOut` | `NoticesSpec => []InactiveWasRefused` | `NoticesInv` |
| `Bot_proofs!UsersStay` | `NoticesSpec => NobodyForgotten` | `NoticesInv` |
| `SelfUpdate_proofs!TypeCorrect` | `Spec => []TypeOK` | `UpdateInv` |
| `SelfUpdate_proofs!LockIsHeld` | `Spec => []HoldsLock` | `UpdateInv` |
| `SelfUpdate_proofs!OneRelease` | `Spec => []SameRelease` | `UpdateInv` |
| `SelfUpdate_proofs!NoneDowngrades` | `Spec => NeverDowngrades` | `UpdateInv` |
| `SelfUpdate_proofs!ToldIsTrue` | `Spec => ToldWhatIs` | `UpdateInv` |
| `WebAuth_proofs!TypeCorrect` | `Spec => []TypeOK` | `Inv` |
| `WebAuth_proofs!LockoutIsDue` | `Spec => []NoUndueLockout` | `Inv` |
| `WebAuth_proofs!LoginsAreThrottled` | `Spec => []Throttled` | `Inv` |
| `WebAuth_proofs!LoginLasts` | `Spec => []StaysLoggedIn` | `Inv` |

TLC has checked each of these invariants on the configuration of the component's
run. What they add to the properties, and why it is needed:

*Tunnel Director.* `TypeInv` adds `Control`: positions are within the lists wherever
the code indexes them, and `idx` is a slot. `StopInv` adds `Stopping`: for each call
of `tunnel_stop`, what the earlier ones have removed is still gone; below `idx` no
preference is used; nothing outside the script adds to it. The routing properties
relate rules to a decision taken from the configuration, and no step knows the
decision. `RouteInv` says it in terms of the loops. `Position`: `idx` is the number of
usable tunnels passed, so that a tunnel's slot is the same wherever it is computed;
chain and sets are those of `built`. `ChainSound`: every rule in the chain, however it got
there, was appended by a served tunnel after the marks of all tunnels before it and,
for a mark, after the exclusions of its client; a rule kept by `ensure_fw_rule` is
therefore in place. `PartialChainMarksLess` follows from this alone: the first rule
that matches belongs to the tunnel decided. `Progress`: what the loops have passed is in the
chain and among the ip rules; at their end it becomes `Certified`, from which
`CertifiedRouting` follows. `OwnRules`: ip rules are those of the configuration
certified or being built, which needs that no run was cut short; `JumpLast`: without
a kill nothing is marked before the rules are complete, which `NeverMisrouted` needs,
since slots are reused.

*Proxy.* `Routing` is `Delivery` - the jump exists only with ip rule, route and chain,
which are there from the call that sets them up until after the jump is purged - and
`Removal`, which is as `Stopping`. `Content` has `Filled`: the sets hold exactly the
part of the lists read so far, less what was refused. `Ordered`: in any chain, with
whatever rules lost, a rule that proxies comes after all skipping rules that are due
(`Ranked`); this holds through a chain that could not be flushed because such a
chain owes only what its old and its new configuration have in common. It carries
`NeverProxiesOthers`. `Complete`: a flushed chain has what is due, as far as the list
has been read, and nothing else; with it `AppliedExactly` follows.

*Tool.* `LockInv` adds the range of `lock` and `pc`; one lemma each for exits, for steps
on one side of the lock and for taking it. `SoleEffect` speaks of the end of an
invocation. `SerialInv` says what is true on the way. `Coherent`: a jump has a chain to
go to, and a chain and a hash that are both there are of one configuration, with the
jump, unless there is a scar or a `tunnel_stop` is at work on them - which is what makes
an apply that finds both right to do nothing. `Pending` says what each step has behind
it and has still to do; `UnderWay` that a chain is built while there is no hash, so that
a kill in the middle leaves nothing an apply would trust, and that the component done
first stays as the command left it until the second is done, which the lock makes so;
`Sole` is the property, verb by verb.

*Store.* The refinement needs three things of each actor (`Local`): a request past the
mutex holds it (`Guarded`); a copy is held from the load to the write and nowhere
else, by the bot also while the wizard reads the list of servers (`Holds`); the
list an operation writes from is one it could have read (`Chosen`). `Others`
shows that a step of one actor leaves this alone for the others. Then at most one
request holds a copy, so that `WebCopyIs` identifies it with the abstract one;
`Load` is `Loads`; `Save` is `Truncates` or `Drops`; `Write` is `Saves` with the
operation at work as witness, or `Drops`; `End` and `Kill` drop or stutter.
`FilesInv` adds the types, for which `UpdatedTyped` shows that each of the operations
makes a configuration of a configuration; `Quiet`, that a web UI which is alone has
truncated the file it writes; and `Imported`, that an import has its own list on disk
between the two writes, and that otherwise list and configuration agree unless a
request is midway.

*Connection.* `Updates` adds `Memoryless`, a process that does not run has no memory, and
`Contiguous`, the updates of a batch are the next after all that is known; without it a
batch could leave out one that the next offset makes Telegram forget.

*Dialogues.* `DialoguesInv` says what a user who keeps to the last message can rely on.
`OneSession`: wizard and `/exclude` are never in session together, which needs no
condition, since each command ends the other's session whatever fails after it.
`Foremost`: undisturbed, the last keyboard is one of the session there is, and then no
address is waited for; with `ShownBy`, which dialogue a keyboard's buttons belong to, an
undisturbed button finds its own dialogue in session and no other, and `OneUnlessOld`
follows. `SummaryTrue`: when the keyboard that applies is the last one, there is a summary
above it, which says what the session holds, whatever old buttons were pressed since:
in the step of the confirmation no other button changes anything. `ConfirmedFirst` is
what that says of the step that applies. `Routeless`: the
address that waits for a route had none when it was typed and, unless others have
changed the clients, has none now. The types
need lemmas about lists: taking an element out, or adding one that is not there, keeps
them short and free of duplicates (`WithoutIsList`, `AppendIsList`).

*Self-update.* `UpdateInv` places each update. `Lone`: as long as no bot was started too
late there is one update at most, and `Place` says for each of its steps whether the
bot is up and whose number is in the lock. `Numbers`: process numbers grow, so that a lock is
recognised as stale for the right reason. `Owned`: a lock in force belongs to an
update. `Releases` says which files are of which release: `Fetched` those downloaded,
`Copies` those installed, of which the first `next - 1` of the list are new during the
copying; `UpToDate`, `Even` and `Noted` relate them to the running bot and to the notification.

*Notices.* `Remembers`: whoever was told of a version has that version or a later one
in the record, or its mark is pending, or is in `unmarked`; since the version a check
tells is the latest of all (`ToldPast`), forgetting the oldest does no harm, and
`LastHeld` shows that the newest is never the one forgotten, for every limit. `InHand`:
a check has each user once, and all of them are recorded. `ChatsAgree`: the chat a check goes
by is the one the store knows, and one it found blocked has its refusal in `refused`, but
for the users in `stranded`. `Kept`: memory has everybody the disk has, as long as the
disk could be read.

*Logins.* `Counted` relates the entry of an address to the ages of its wrong passwords, and
to `n`, the requests of the address in flight. `Ordered`: newest first. `Began`: the failure
that began the entry is as old as the entry says, so that the failures counted are the
newest ones; and the one `MaxAttempts + R - 2` places further back, with `R` the number of
requests, is as old as a lockout - without an entry, the one `MaxAttempts - 1` back. `Locked`:
an entry that is not locked has counted less than `MaxAttempts`; the lock was set by the
newest failure and within the window of the first; and what it has counted plus `n` stays below
`MaxAttempts + R`, because nobody is let in while it holds. Without `n` this would not be
inductive: a request that was let in before the lock may be counted at any time after
it. `CountedAgain` is the step that matters, a failure: it is counted, it locks, or it begins
the next entry, and then the old one becomes the past that `Began` speaks of.
`NoUndueLockout` follows from the failures `1` to `MaxAttempts` lying within the window,
`Throttled` from the two parts of `Began`, the counted and those before. `Session` says
where the secret of a cookie is while `kept` holds.

`Netfilter_proofs` holds the lemmas about chains the router's theorems rest on: a
deletion keeps the other rules and adds none, an insertion adds at most the
inserted one, a position found is one of the rule, the base position is one
iptables accepts. The least and greatest element of a set of positions, which the
community modules define by `CHOOSE`, are shown to exist from the
well-foundedness of strict inclusion between finite sets.

## 7. Where code and documentation disagree, and what else the models showed

Two disagreements are runs that TLC must find violated; `PROJECT.json` quotes the lines:

1. `vpn_success`: "VPN Director applied" (`wizard/apply.go:169`) is said when the
   lock was held and nothing was done, because `acquire_lock` then exits with 0.
2. `dialogues_old`: "only one will have active state" (`bot/router.go:149-150`) is
   not so after a button of an older message: `clients:add` makes `/clients` listen
   while the wizard or `/exclude` does.

Others follow from the models and have no run of their own. In the scripts:

* "Rules are applied and up-to-date" (`lib/tunnel.sh:284`) is said when hash and
  chain are there; the jump and the rules are not looked at. A stop that is killed
  after it has purged the jump (`:222`), or flushed the chain, and before the chain is
  dropped leaves both behind. And iptables may refuse the
  jump (`:421`): the position was read before the chain was built (`:300`) and a
  firmware rule has gone since, or the xtables lock was taken; the refusal is passed over
  and the hash saved. In both cases every later apply reports success and does
  nothing, until the configuration changes, the firewall is reloaded or a stop
  runs. These are the `scars` of `VpnDirector`, and "kill" and "shifted" in
  `Converges`; nothing else parts the three.
* An apply without tunnels returns at once (`lib/tunnel.sh:258`) and leaves the old
  rules in force, although it is to "apply rules from config" (`:247`).
* An exclusion whose set is missing when the chain is built is skipped
  (`lib/tunnel.sh:390`); the hash is saved, so no later apply adds it.
* "Skip traffic to bypass destinations" (`lib/tproxy.sh:333`) does not hold while
  the set is flushed and refilled (`:262`) under the old chain.
* "position 1 = before Tunnel Director" (`lib/tproxy.sh:385`) is undone by
  `apply tunnel` (`lib/tunnel.sh:421`).
* "Restart (stop + apply)" (`vpn-director.sh:90`) may be a stop only: the lock is
  given up in between (`:265`).
* A rebuild that `set -e` ends because a firewall reload took its chain
  (`lib/tunnel.sh:401`) has added ip rules and saved no hash. The next apply stops the old
  configuration first only if there is a hash, so it builds on top of them: with
  fewer tunnels the ip rules of the others stay, under a hash that certifies the new
  configuration, until a stop. Their marks are given to no packet, and the next
  configuration that uses the slots replaces them, so nothing is misrouted
  (`NoPacketMisrouted` needs no exception for it). `NoOrphanIpRules` is stated for
  behaviours without such an end; the proof of it is where this came to light.
* `--force` ("ignore hash checks", `vpn-director.sh:94`) reaches the country sets only.
* A single rule of the proxy that cannot be appended, or a single address that cannot
  be added to an ipset, is passed over, and "applied successfully" follows
  (`lib/tproxy.sh:557`). Without the rule of `:330` every host of the LAN is proxied.
  `AppliedExactly` says what is missing then, and that nothing else is.
* The configuration is read before the lock is taken, so an apply may put back a
  configuration older than the one in force. `Heals` says that a later apply makes
  that good.

In the programs:

* Web UI and bot save over each other's changes: that is what `TwoWriters` allows
  and no more. The bot can do so over a `jwt_secret` the web UI has just generated;
  all sessions then end when the web UI is next started (`kept` in `WebAuth`).
* While the configuration is being written, an import of the other program finds it
  unreadable and saves the servers in the default directory (`DataDirOrDefault`,
  `service/config.go:52`), where they are not looked for afterwards.
* A selected server is chosen by its index in a list read before the mutex is
  taken; `Results` of `TwoWriters` allows any list for that reason.
* Removing a client takes it from the first route only, and resumes it there and
  elsewhere (`handler/clients.go:219`).
* The wizard's apply is accepted at any step. After "No servers found"
  (`wizard/server.go:31`) the session stays, so an old Apply saves a
  configuration without clients.
* The wizard saves what its summary does not say. Without a country the summary shows
  "none" (`wizard/confirm.go:52`) and apply saves `ru` (`wizard/apply.go:81-83`); the
  excluded addresses are saved and not shown; the server is looked up by its index
  in the list as it is then (`wizard/apply.go:152`), which after an import is
  another server than the one named, or none. `ConfirmedFirst` says that this is all.
* "Done" of `/exclude` writes the whole list the session began with
  (`handler/exclude.go:161`): what another chat of the bot, or the web UI, has saved
  in the meantime is lost, and nobody is told. `NothingTakenBack` holds for the
  dialogues of one chat only.
* Removing an excluded address goes by its position: on an old keyboard that may be
  another address.
* The lock of an update holds the number of the bot's process, not of the script's:
  a bot that is started while the script runs takes the lock for stale, and a second
  update may empty the directory the first one copies from (`CopyMissing`). A script
  that fails leaves the bot down, and monit not watching it.
* The updater's list of files and the installer's are to be kept in sync
  (`updater/downloader.go:23`, `install.sh:135`) and are not: after `/update` the
  web UI's binary and `S98vpn-director-webui` are of the old release, and "Update
  complete" is said. In the model they are `LeftOut`.
* `chatstore.New` takes any error of reading `chats.json` for a missing file
  (`chatstore/store.go:47-50`) and starts empty; the next message saves a file with
  one user, and the others get no notices until they write again (`unread`).
* A user who has blocked the bot and lets it in again without writing stays inactive
  (`chatstore/store.go:100`, `updatechecker/checker.go:145-147`): he gets no notice,
  though he could be reached. `InactiveWasRefused` says that a refusal is needed for it.
* A user may be marked inactive although he has just written: the check learns that
  the bot is blocked, he unblocks it and writes, and the mark follows (`stranded`).
  A notice whose answer is lost is sent again (`unmarked`).
* A login that was let through before a lockout and fails when the window is
  over begins a new entry, which ends the lockout early. With `R` logins at a time, up to
  `2(MaxAttempts - 1) + 2(R - 1)` wrong passwords are therefore answered within the time of
  one lockout. `2 MaxAttempts - 1 + (R - 1)` is the same number for the two requests
  of the run and seems right, but with three TLC exceeds it; the proof shows that
  the larger number is not exceeded by any.
* Updates the bot has fetched and not handled are lost with its process, if their
  successor has been asked for (`cut`).

## 8. Only checked, and not modelled

Only model-checked: all liveness (`Converges`, `Heals`, `EveryoneAnswered`, `BringsBotBack`,
`EventuallyTold`, `Forgotten`, `Served`), since TLAPS cannot reason about fairness and `ENABLED`.

Not modelled:

* the inside of `lib/ipset.sh`: the other modules take from it that a set is there,
  appears under the lock or cannot be built;
* the decoding of links and subscriptions, formatting and paging of messages, hash
  functions, signatures: pure functions of text;
* handlers that only read (`/status`, `/logs`, `/ip`, `/servers`, their web
  counterparts) and the web UI's development mode; they change nothing;
* waiting times: `shell.Run` has no time limit, which shows as a step that may be
  taken arbitrarily late; a request of the bot to Telegram has none either
  (`bot/bot.go:62`), and one that hangs for ever would stop what `Served` promises;
* failures of calls that only read, and of `ip`, `ipset create`, `flush` and `destroy`
  other than because the thing is there already or missing; a single refused call of
  iptables inside `TunnelDirector` (in `VpnDirector` and `XrayTproxy` they are refused);
* children of a killed script: they inherit descriptor 200 and may hold the lock, and
  change the router, for as long as their last call takes;
* releases withdrawn while notices of them are sent (`SelfUpdate` has withdrawals, for
  which it matters);
* the end of the bot with status 1 when its log cannot be opened (`server/cmd/bot/main.go:63-67`),
  and a token Telegram answers with 404, which is retried like an outage;
* the inside of Telegram, GitHub, monit and the bot library, beyond what the code
  sees of them; reuse of process numbers;
* hash collisions; a kill between the truncation and the writing of the hash file,
  which leaves an empty file that the next apply takes for an old hash; IPv6
  variants of the firewall helpers, which nothing calls;
* the front end, the installation scripts and the sending of e-mail.
