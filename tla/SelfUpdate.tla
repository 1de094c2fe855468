------------------------------ MODULE SelfUpdate ------------------------------
(****************************************************************************)
(* /update: the bot downloads a release into a directory under /tmp and     *)
(* starts a script that stops the bot, copies the files over the installed  *)
(* ones and starts the bot again.  A lock file with the number of the bot's *)
(* process keeps a second update away.                                      *)
(*                                                                          *)
(* An update passes from a goroutine of the bot to the script: it is one    *)
(* record with a program counter, lost with the bot as long as it is the    *)
(* goroutine's.  The script is read by the shell as a whole here.           *)
(*                                                                          *)
(* The updater has a list of the files it fetches.  install.sh installs     *)
(* more: these stay of the release that was installed by hand.              *)
(****************************************************************************)
EXTENDS Naturals, Sequences, FiniteSets

CONSTANTS
    Newest,    \* versions are 1..Newest
    Files,     \* sequence of the files the updater fetches, in the order they are copied
    Binary,    \* the one that is the bot
    LeftOut,   \* what install.sh installs besides: the web UI and its init script
    Monit,     \* monit is installed and watches the bot
    MayFail,   \* steps of the script may fail, the router may be restarted
    MaxUpdates, \* bound: updates begun
    MaxStarts, \* bound: processes of the bot
    None

Versions == 1..Newest
Names    == {Files[i] : i \in DOMAIN Files}
AllFiles == Names \cup LeftOut
Pids     == 1..MaxStarts
Updates  == 1..MaxUpdates
Torn     == 0 \* a lock file without a number

ASSUME FileAssumption  == Binary \in Names /\ Files \in Seq(Names) /\ Names \cap LeftOut = {}
ASSUME NoneAssumption  == None \notin Versions \cup Pids \cup {Torn}
ASSUME BoundAssumption == {Newest, MaxUpdates, MaxStarts} \subseteq Nat \ {0}
                          /\ {Monit, MayFail} \subseteq BOOLEAN

VARIABLES
    latest,    \* the latest release on GitHub
    installed, \* version of each installed file
    bot,       \* the bot: its state, process and version
    starts,    \* processes of the bot so far
    found,     \* version the handler of /update has found, Torn before that, or None
    lock,      \* the lock file
    files,     \* version of each downloaded file, or None
    update,    \* updates under way, or None
    asked,     \* updates begun so far
    notify,    \* notify.json: versions, or None
    watched,   \* monit restarts the bot
    failed,    \* history: a script has failed, or was cut off
    meddled    \* history: the bot was started while a script was at work: "back" if it
               \* was still to be killed, "late" if not, or if it began another update

vars    == <<latest, installed, bot, starts, asked, found, lock, files, update, notify,
             watched, failed, meddled>>
disk    == <<installed, lock, files, notify>>
ghost   == <<failed, meddled>>
counts  == <<starts, asked>>

Down   == [at |-> "down"]
Up     == bot.at # "down"
IsPid  == Up /\ lock = bot.pid
InBot     == {"download", "run", "clean", "release"}
BotDown   == {"kill", "copy", "notify", "unlock", "monitor"}
Early     == {"unmonitor", "stop", "kill"}
InScript  == {"unmonitor", "stop"} \cup BotDown \cup {"start"}
Jobs      == [at : InBot \cup InScript, from : Versions, to : Versions, next : DOMAIN Files]
ASSUME JobAssumption == None \notin Jobs

At(u, l)  == update[u] # None /\ update[u].at = l
Running(L) == {u \in Updates : update[u] # None /\ update[u].at \in L}

Goto(u, l) == update' = [update EXCEPT ![u].at = l]
Done(u)    == update' = [update EXCEPT ![u] = None]
NoFiles    == [f \in Names |-> None]

\* What is lost with the bot: the handler and the goroutine.
WithoutGoroutines == [u \in Updates |-> IF u \in Running(InBot) THEN None ELSE update[u]]

Init ==
    /\ latest = 1
    /\ installed = [f \in AllFiles |-> 1]
    /\ bot = [at |-> "running", pid |-> 1, version |-> 1] /\ starts = 1
    /\ found = None /\ lock = None /\ files = NoFiles
    /\ update = [u \in Updates |-> None] /\ asked = 0
    /\ notify = None /\ watched = Monit
    /\ failed = FALSE /\ meddled = "no"

\* Releases are published, and withdrawn.
Release ==
    /\ latest' \in Versions
    /\ UNCHANGED <<bot, counts, found, disk, update, watched, ghost>>

-----------------------------------------------------------------------------
(* The command.  The bot handles one message at a time.                     *)

\* IsUpdateInProgress: a lock without a number or of a process that is gone is
\* stale.  The number may have been given to some other process.
LockIsStale == lock # None /\ ~IsPid

Command ==
    /\ bot.at = "running" /\ found = None
    /\ \/ lock = None /\ found' = Torn /\ UNCHANGED lock
       \/ LockIsStale /\ lock' = None /\ found' = Torn
       \/ lock \in Pids /\ UNCHANGED <<lock, found>>
    /\ UNCHANGED <<latest, installed, bot, counts, files, update, notify, watched, ghost>>

\* Faulty: any other version will do.
Different(v, w) == v # w

ShouldUpdate(v, w) == v < w

\* GetLatestRelease may fail, and takes its time.
Check ==
    /\ found = Torn
    /\ found' \in {None} \cup (IF ShouldUpdate(bot.version, latest) THEN {latest} ELSE {})
    /\ UNCHANGED <<latest, bot, counts, disk, update, watched, ghost>>

\* The goroutine is started; an older file of the same name would be an error.
CreateLock ==
    /\ found \in Versions
    /\ \/ /\ lock = None /\ asked < MaxUpdates /\ asked' = asked + 1
          /\ update' = [update EXCEPT ![asked'] = [at |-> "download", from |-> bot.version,
                                                   to |-> found, next |-> 1]]
          /\ lock' = bot.pid
          /\ meddled' = IF meddled = "back" /\ Running(InScript) # {} THEN "late" ELSE meddled
       \/ UNCHANGED <<lock, update, asked, meddled>>
    /\ found' = None
    /\ UNCHANGED <<latest, installed, bot, starts, files, notify, watched, failed>>

\* The process ends after the file was created and before its number was written.
CrashInLock ==
    /\ found \in Versions /\ lock = None
    /\ lock' = Torn
    /\ bot' = Down /\ found' = None /\ update' = WithoutGoroutines
    /\ UNCHANGED <<latest, installed, counts, files, notify, watched, ghost>>

-----------------------------------------------------------------------------
(* The goroutine.                                                           *)

\* Faulty: a file that cannot be fetched is passed over.
DownloadAnything(u) ==
    /\ At(u, "download")
    /\ LET i == update[u].next IN
       \/ /\ files' = [(IF i = 1 THEN NoFiles ELSE files) EXCEPT ![Files[i]] = update[u].to]
          /\ update' = IF i < Len(Files) THEN [update EXCEPT ![u].next = @ + 1]
                                         ELSE [update EXCEPT ![u].at = "run"]
       \/ Goto(u, "run") /\ UNCHANGED files
    /\ UNCHANGED <<latest, installed, bot, counts, found, lock, notify, watched, ghost>>

\* Faulty: half a file is as good as a whole one.
DownloadHalf(u) ==
    /\ At(u, "download")
    /\ files' = [files EXCEPT ![Files[update[u].next]] = Torn]
    /\ Goto(u, "run")
    /\ UNCHANGED <<latest, installed, bot, counts, found, lock, notify, watched, ghost>>

\* DownloadRelease empties the directory and fetches one file after the other.
Download(u) ==
    /\ At(u, "download")
    /\ LET i == update[u].next IN
       \/ /\ files' = [(IF i = 1 THEN NoFiles ELSE files) EXCEPT ![Files[i]] = update[u].to]
          /\ update' = IF i < Len(Files) THEN [update EXCEPT ![u].next = @ + 1]
                                         ELSE [update EXCEPT ![u].at = "run"]
       \/ Goto(u, "clean") /\ UNCHANGED files
    /\ UNCHANGED <<latest, installed, bot, counts, found, lock, notify, watched, ghost>>

\* RunUpdateScript: written and started in a session of its own, or not.
Run(u) ==
    /\ At(u, "run")
    /\ \/ update' = [update EXCEPT ![u].at = "unmonitor", ![u].next = 1]
       \/ Goto(u, "clean")
    /\ UNCHANGED <<latest, bot, counts, found, disk, watched, ghost>>

Clean(u) ==
    /\ At(u, "clean")
    /\ files' = NoFiles /\ Goto(u, "release")
    /\ UNCHANGED <<latest, installed, bot, counts, found, lock, notify, watched, ghost>>

\* Faulty: the lock stays.
GiveUpLocked(u) ==
    /\ At(u, "release")
    /\ Done(u)
    /\ UNCHANGED <<latest, installed, bot, counts, found, lock, files, notify, watched, ghost>>

GiveUp(u) ==
    /\ At(u, "release")
    /\ lock' = None /\ Done(u)
    /\ UNCHANGED <<latest, installed, bot, counts, found, files, notify, watched, ghost>>

-----------------------------------------------------------------------------
(* The script (set -e: it ends where a step fails).                         *)

Fail(u) ==
    /\ MayFail /\ u \in Running(InScript)
    /\ Done(u) /\ failed' = TRUE
    /\ UNCHANGED <<latest, bot, counts, found, disk, watched, meddled>>

\* monit may be missing, or fail: the script goes on.
Unmonitor(u) ==
    /\ At(u, "unmonitor")
    /\ watched' \in {FALSE, watched}
    /\ Goto(u, "stop")
    /\ UNCHANGED <<latest, bot, counts, found, disk, ghost>>

\* Faulty: the bot is not there any more, or so it is hoped.
NotStopped(u, l) ==
    /\ Goto(u, l)
    /\ UNCHANGED <<latest, bot, counts, found, disk, watched, ghost>>

Stopped(u, l) ==
    /\ bot' = Down /\ found' = None
    /\ update' = [WithoutGoroutines EXCEPT ![u].at = l]
    /\ UNCHANGED <<latest, counts, disk, watched, ghost>>

\* The init script has stopped the bot; one that is back already is killed.
Stop(u) == At(u, "stop") /\ Stopped(u, "kill")
Kill(u) == At(u, "kill") /\ Stopped(u, "copy")

Copy(u) ==
    /\ At(u, "copy")
    /\ LET f == Files[update[u].next] IN
       /\ files[f] # None
       /\ installed' = [installed EXCEPT ![f] = files[f]]
    /\ update' = IF update[u].next < Len(Files) THEN [update EXCEPT ![u].next = @ + 1]
                                                ELSE [update EXCEPT ![u].at = "notify"]
    /\ UNCHANGED <<latest, bot, counts, found, lock, files, notify, watched, ghost>>

\* cp fails if there is nothing to copy.
CopyMissing(u) ==
    /\ At(u, "copy") /\ files[Files[update[u].next]] = None
    /\ Done(u) /\ failed' = TRUE
    /\ UNCHANGED <<latest, bot, counts, found, disk, watched, meddled>>

WriteNotify(u) ==
    /\ At(u, "notify")
    /\ notify' = <<update[u].from, update[u].to>>
    /\ Goto(u, "unlock")
    /\ UNCHANGED <<latest, installed, bot, counts, found, lock, files, watched, ghost>>

Unlock(u) ==
    /\ At(u, "unlock")
    /\ lock' = None /\ Goto(u, "monitor")
    /\ UNCHANGED <<latest, installed, bot, counts, found, files, notify, watched, ghost>>

Monitor(u) ==
    /\ At(u, "monitor")
    /\ watched' \in {Monit, watched}
    /\ Goto(u, "start")
    /\ UNCHANGED <<latest, bot, counts, found, disk, ghost>>

NewBot ==
    /\ starts < MaxStarts /\ starts' = starts + 1
    /\ bot' = [at |-> "starting", pid |-> starts + 1, version |-> installed[Binary]]

\* Faulty: the script ends without starting the bot.
StartNothing(u) ==
    /\ At(u, "start") /\ Done(u)
    /\ UNCHANGED <<latest, bot, counts, found, disk, watched, ghost>>

Start(u) ==
    /\ At(u, "start")
    /\ IF Up THEN UNCHANGED <<bot, starts>> ELSE NewBot
    /\ Done(u)
    /\ UNCHANGED <<latest, asked, found, disk, watched, ghost>>

-----------------------------------------------------------------------------
(* The bot starts and ends.                                                 *)

\* Started by monit or by hand, at any time.
Restart ==
    /\ ~Up /\ NewBot
    /\ meddled' = IF Running(InScript \ Early) # {} THEN "late"
                  ELSE IF Running(Early) # {} /\ meddled = "no" THEN "back" ELSE meddled
    /\ UNCHANGED <<latest, asked, found, disk, update, watched, failed>>
MonitRestart == watched /\ Restart

Crash ==
    /\ Up
    /\ bot' = Down /\ found' = None /\ update' = WithoutGoroutines
    /\ UNCHANGED <<latest, counts, disk, watched, ghost>>

\* /tmp is gone; what was copied stays.
Reboot ==
    /\ MayFail
    /\ bot' = Down /\ found' = None
    /\ lock' = None /\ files' = NoFiles /\ notify' = None
    /\ update' = [u \in Updates |-> None]
    /\ watched' = Monit
    /\ failed' = (failed \/ Running(InScript) # {})
    /\ UNCHANGED <<latest, installed, counts, meddled>>

\* CheckAndSendNotify, before the first message is fetched.  What cannot be sent is
\* kept for the next start; after it was sent, the whole directory is removed.
Notify ==
    /\ bot.at = "starting"
    /\ \E at \in {"running"} \cup (IF notify = None THEN {} ELSE {"told"}) :
          bot' = [bot EXCEPT !.at = at]
    /\ UNCHANGED <<latest, counts, found, disk, update, watched, ghost>>

RemoveUpdateDir ==
    /\ bot.at = "told"
    /\ bot' = [bot EXCEPT !.at = "running"]
    /\ \/ lock' = None /\ files' = NoFiles /\ notify' = None
       \/ UNCHANGED <<lock, files, notify>>
    /\ UNCHANGED <<latest, installed, counts, found, update, watched, ghost>>

Script(u) == \/ Unmonitor(u) \/ Stop(u) \/ Kill(u) \/ Copy(u) \/ CopyMissing(u)
             \/ WriteNotify(u) \/ Unlock(u) \/ Monitor(u) \/ Start(u)
Goroutine(u) == Download(u) \/ Run(u) \/ Clean(u) \/ GiveUp(u)
Startup == Notify \/ RemoveUpdateDir

Next == \/ Release \/ Command \/ Check \/ CreateLock \/ CrashInLock
        \/ \E u \in Updates : Goroutine(u) \/ Script(u) \/ Fail(u)
        \/ Restart \/ Crash \/ Reboot \/ Startup

Spec == Init /\ [][Next]_vars

\* Programs run on; monit restarts a bot it watches.
Fairness == /\ \A u \in Updates : WF_vars(Goroutine(u)) /\ WF_vars(Script(u))
            /\ WF_vars(Startup) /\ WF_vars(Check) /\ WF_vars(CreateLock)
            /\ WF_vars(MonitRestart)
FairSpec == Spec /\ Fairness

-----------------------------------------------------------------------------
(* Properties.                                                              *)

TypeOK ==
    /\ latest \in Versions
    /\ installed \in [AllFiles -> Versions]
    /\ bot = Down \/ bot \in [at : {"starting", "told", "running"}, pid : Pids, version : Versions]
    /\ starts \in 0..MaxStarts /\ asked \in 0..MaxUpdates
    /\ found \in Versions \cup {Torn, None}
    /\ lock \in Pids \cup {Torn, None}
    /\ files \in [Names -> Versions \cup {None}]
    /\ update \in [Updates -> {None} \cup Jobs]
    /\ notify \in {None} \cup (Versions \X Versions)
    /\ {watched, failed} \subseteq BOOLEAN /\ meddled \in {"no", "back", "late"}

Undisturbed == ~failed /\ meddled # "late"

\* There is one update at a time, and the lock file is there until it has copied
\* everything or cleaned up, although the process whose number is in it is stopped
\* half-way; unless another bot is started in between, to which the lock is that of
\* a process that is gone.  A running bot whose lock it is does have an update under
\* way, unless the script has failed.
Working == Running((InBot \cup InScript) \ {"monitor", "start"})
HoldsLock ==
    /\ meddled = "no" => /\ \A u, w \in Working : u = w
                         /\ Working # {} => lock \in Pids
    /\ Undisturbed /\ IsPid => Working # {}

\* A running bot is of the same release as every file of the updater's list, which
\* has the scripts it calls, also when it was back before the script had done with
\* stopping it; unless an update was cut off, or a bot was started by somebody else
\* after that or began another update.  The list lacks what install.sh has besides.
SameRelease ==
    Up /\ Undisturbed => \A f \in AllFiles \ LeftOut : installed[f] = bot.version

\* No sequence of releases, withdrawals, updates and restarts brings an older file
\* back, with the same exception.
NeverDowngrades ==
    [][Undisturbed => \A f \in AllFiles : installed'[f] >= installed[f]]_vars

\* "Update complete: a -> b" is said when every file of the updater's list is of
\* release b.  It is said although the files left out of the list are not.
ToldWhatIs ==
    [][bot.at = "starting" /\ bot'.at = "told" /\ Undisturbed
          => \A f \in AllFiles \ LeftOut : installed[f] = notify[2]]_vars

\* A script that has begun ends with the bot running, whatever happens to the bot in
\* between, unless one of its own steps fails.
BringsBotBack ==
    \A u \in Updates : u \in Running(InScript) ~> (update[u] = None /\ Up) \/ failed \/ starts = MaxStarts
=============================================================================
