--------------------------- MODULE SelfUpdate_proofs ---------------------------
(****************************************************************************)
(* Theorems about /update, for any sequence of files, any number of         *)
(* versions, updates and processes of the bot.                              *)
(*                                                                          *)
(* UpdateInv carries them: as long as no bot was started too late, there    *)
(* is at most one update, and where it is says whose the lock file is,      *)
(* whether the bot is up, and which files are of which release.             *)
(****************************************************************************)
EXTENDS SelfUpdate, TLAPS

Active(u) == update[u] # None
Copied    == {"notify", "unlock", "monitor", "start"}

\* The goroutine runs in the bot that has the lock.  The script copies while there is
\* no bot; before that the bot is the one that began the update, or a later one.
Place(u) ==
    /\ update[u].at \in InBot => bot.at = "running" /\ lock = bot.pid
    /\ update[u].at \in {"copy"} \cup Copied => ~Up
    /\ meddled = "no" =>
          /\ update[u].at \notin {"monitor", "start"} => lock \in Pids
          /\ update[u].at \in Early /\ Up =>
                bot.at = "running" /\ lock = bot.pid /\ update[u].at # "kill"

Lone == meddled # "late" =>
            /\ \A u, w \in Updates : Active(u) /\ Active(w) => u = w
            /\ \A u \in Updates : Active(u) => Place(u)

Handler == /\ found # None => bot.at = "running"
           /\ found \in Versions => bot.version < found

\* Numbers of processes are not used again.
Numbers == /\ Up => bot.pid = starts
           /\ lock \in Pids => lock <= starts

Owned == Undisturbed /\ IsPid => \E u \in Updates : Active(u)

\* The files downloaded and installed on the way of an update.
Fetched(u) ==
    update[u].at \in {"run"} \cup InScript \/ (update[u].at = "download" /\ update[u].next > 1)
       => \A f \in Names : files[f] \in {None, update[u].to}
Copies(u) ==
    /\ update[u].from < update[u].to
    /\ update[u].at \in InBot \cup Early => \A f \in Names : installed[f] = update[u].from
    /\ update[u].at \in Early => update[u].next = 1
    /\ update[u].at = "copy" =>
          /\ \A f \in Names : installed[f] \in {update[u].from, update[u].to}
          /\ \A i \in 1..(update[u].next - 1) : installed[Files[i]] = update[u].to
    /\ update[u].at \in Copied => \A f \in Names : installed[f] = update[u].to

Busy(L)  == \E u \in Updates : Active(u) /\ update[u].at \in L
UpToDate == Up => \A f \in Names : installed[f] = bot.version
Even     == ~Busy({"copy"}) => \A f \in Names : installed[f] = installed[Binary]
Noted    == notify # None /\ ~Busy({"copy", "notify"}) => \A f \in Names : installed[f] = notify[2]
Releases ==
    Undisturbed => /\ \A u \in Updates : Active(u) => Fetched(u) /\ Copies(u)
                   /\ UpToDate /\ Even /\ Noted

UpdateInv == TypeOK /\ Lone /\ Handler /\ Numbers /\ Owned /\ Releases

-----------------------------------------------------------------------------
(* What single steps do.                                                    *)

Bots == [at : {"starting", "told", "running"}, pid : Pids, version : Versions]

LEMMA UpIsBot == ASSUME TypeOK, Up  PROVE bot \in Bots
BY DEF TypeOK, Up, Down, Bots

LEMMA ActiveIsJob ==
    ASSUME TypeOK, NEW u \in Updates
    PROVE  Active(u) <=> update[u] \in Jobs
BY JobAssumption DEF TypeOK, Active

\* A step of an update that moves it on.
LEMMA Moved ==
    ASSUME TypeOK, NEW u \in Updates, Active(u), NEW l \in InBot \cup InScript, Goto(u, l)
    PROVE  /\ update'[u] \in Jobs /\ update'[u].at = l
           /\ update'[u].from = update[u].from /\ update'[u].to = update[u].to
           /\ update'[u].next = update[u].next
           /\ \A w \in Updates \ {u} : update'[w] = update[w]
           /\ update' \in [Updates -> {None} \cup Jobs]
<1>1. update[u] \in Jobs /\ update \in [Updates -> {None} \cup Jobs]
  BY ActiveIsJob DEF TypeOK
<1>2. update' = [update EXCEPT ![u] = [update[u] EXCEPT !.at = l]]
  BY DEF Goto
<1>3. [update[u] EXCEPT !.at = l] \in Jobs
  BY <1>1 DEF Jobs
<1> QED
  BY <1>1, <1>2, <1>3 DEF Jobs

\* One that ends it.
LEMMA Ended ==
    ASSUME TypeOK, NEW u \in Updates, Done(u)
    PROVE  /\ update'[u] = None /\ \A w \in Updates \ {u} : update'[w] = update[w]
           /\ update' \in [Updates -> {None} \cup Jobs]
BY DEF TypeOK, Done

\* One that stops the bot, with its goroutines.
LEMMA Halted ==
    ASSUME TypeOK
    PROVE  /\ WithoutGoroutines \in [Updates -> {None} \cup Jobs]
           /\ \A u \in Updates : /\ WithoutGoroutines[u] \in {None, update[u]}
                                 /\ Active(u) /\ update[u].at \notin InBot
                                       => WithoutGoroutines[u] = update[u]
                                 /\ Active(u) /\ update[u].at \in InBot
                                       => WithoutGoroutines[u] = None
<1>1. update \in [Updates -> {None} \cup Jobs]
  BY DEF TypeOK
<1>2. \A u \in Updates : WithoutGoroutines[u] = IF Active(u) /\ update[u].at \in InBot THEN None ELSE update[u]
  BY DEF WithoutGoroutines, Running, Active
<1>3. WithoutGoroutines \in [Updates -> {None} \cup Jobs]
  BY <1>1 DEF WithoutGoroutines
<1> QED
  BY <1>2, <1>3

LEMMA HaltedBy ==
    ASSUME TypeOK, NEW u \in Updates, Active(u), update[u].at \in InScript,
           NEW l \in InBot \cup InScript,
           update' = [WithoutGoroutines EXCEPT ![u].at = l]
    PROVE  /\ update'[u] \in Jobs /\ update'[u].at = l
           /\ update'[u].from = update[u].from /\ update'[u].to = update[u].to
           /\ update'[u].next = update[u].next
           /\ \A w \in Updates \ {u} : update'[w] \in {None, update[w]}
           /\ update' \in [Updates -> {None} \cup Jobs]
<1>1. update[u] \in Jobs /\ WithoutGoroutines \in [Updates -> {None} \cup Jobs]
  BY ActiveIsJob, Halted
<1>2. WithoutGoroutines[u] = update[u]
  BY Halted DEF InBot, InScript, BotDown
<1>3. update' = [WithoutGoroutines EXCEPT ![u] = [update[u] EXCEPT !.at = l]]
  BY <1>2
<1>4. [update[u] EXCEPT !.at = l] \in Jobs
  BY <1>1 DEF Jobs
<1>5. \A w \in Updates : WithoutGoroutines[w] \in {None, update[w]}
  BY Halted
<1> HIDE DEF WithoutGoroutines
<1> QED
  BY <1>1, <1>3, <1>4, <1>5 DEF Jobs

\* Every file in its turn: the update to the next one, or on to what follows.
LEMMA NextFile ==
    ASSUME TypeOK, NEW u \in Updates, Active(u), NEW l \in InBot \cup InScript,
           update' = IF update[u].next < Len(Files) THEN [update EXCEPT ![u].next = @ + 1]
                                                    ELSE [update EXCEPT ![u].at = l]
    PROVE  /\ update'[u] \in Jobs
           /\ update'[u].from = update[u].from /\ update'[u].to = update[u].to
           /\ update[u].next \in 1..Len(Files)
           /\ update[u].next < Len(Files) => /\ update'[u].at = update[u].at
                                             /\ update'[u].next = update[u].next + 1
           /\ update[u].next = Len(Files) => update'[u].at = l
           /\ \A w \in Updates \ {u} : update'[w] = update[w]
           /\ update' \in [Updates -> {None} \cup Jobs]
<1>1. update[u] \in Jobs /\ update \in [Updates -> {None} \cup Jobs]
  BY ActiveIsJob DEF TypeOK
<1>2. update[u].next \in 1..Len(Files) /\ Len(Files) \in Nat /\ DOMAIN Files = 1..Len(Files)
  BY <1>1, FileAssumption DEF Jobs
<1>3. CASE update[u].next < Len(Files)
  <2>1. update' = [update EXCEPT ![u] = [update[u] EXCEPT !.next = update[u].next + 1]]
    BY <1>3
  <2>2. [update[u] EXCEPT !.next = update[u].next + 1] \in Jobs
    BY <1>1, <1>2, <1>3 DEF Jobs
  <2> QED
    BY <1>1, <1>2, <1>3, <2>1, <2>2 DEF Jobs
<1>4. CASE ~(update[u].next < Len(Files))
  <2>1. Goto(u, l) /\ update[u].next = Len(Files)
    BY <1>2, <1>4 DEF Goto
  <2> QED
    BY <1>2, <2>1, Moved
<1> QED
  BY <1>3, <1>4

LEMMA NewBotIs ==
    ASSUME TypeOK, NewBot
    PROVE  /\ bot' \in Bots /\ bot'.at = "starting" /\ bot'.pid = starts + 1
           /\ bot'.version = installed[Binary] /\ starts' = starts + 1 /\ starts' \in 0..MaxStarts
<1>1. starts \in 0..MaxStarts /\ starts < MaxStarts /\ MaxStarts \in Nat
  BY BoundAssumption DEF TypeOK, NewBot
<1>2. starts + 1 \in Pids /\ starts + 1 \in 0..MaxStarts
  BY <1>1 DEF Pids
<1>3. installed[Binary] \in Versions
  BY FileAssumption DEF TypeOK, AllFiles
<1> QED
  BY <1>2, <1>3 DEF NewBot, Bots

\* The bot goes down, comes up anew, or moves on.
LEMMA BotMoves ==
    ASSUME TypeOK, Handler, [Next]_vars
    PROVE  /\ bot' = Down \/ bot' \in Bots
           /\ starts' \in 0..MaxStarts
<1>1. CASE (\E u \in Updates : Start(u)) \/ Restart
  <2>1. NewBot \/ UNCHANGED <<bot, starts>>
    BY <1>1 DEF Start, Restart
  <2> QED
    BY <2>1, NewBotIs DEF TypeOK, Bots
<1>2. CASE Notify \/ RemoveUpdateDir
  <2>1. starts' = starts /\ Up /\ \E at \in {"running", "told"} : bot' = [bot EXCEPT !.at = at]
    BY <1>2 DEF Notify, RemoveUpdateDir, counts, Up
  <2>2. bot \in Bots
    BY <2>1, UpIsBot
  <2> QED
    BY <2>1, <2>2 DEF Bots, TypeOK
<1>3. CASE CrashInLock \/ (\E u \in Updates : Stop(u) \/ Kill(u)) \/ Crash \/ Reboot
  <2>1. starts' = starts /\ bot' = Down
    BY <1>3 DEF CrashInLock, Stop, Kill, Stopped, Crash, Reboot, counts
  <2> QED
    BY <2>1 DEF TypeOK
<1>4. CASE ~((\E u \in Updates : Start(u) \/ Stop(u) \/ Kill(u)) \/ Restart \/ Notify \/ RemoveUpdateDir
             \/ CrashInLock \/ Crash \/ Reboot)
  <2>1. bot' = bot /\ starts' = starts
    BY <1>4 DEF Next, vars, counts, Release, Command, Check, CreateLock, Goroutine, Download, Run, Clean,
          GiveUp, Script, Unmonitor, Copy, CopyMissing, WriteNotify, Unlock, Monitor, Fail, Startup
  <2> QED
    BY <2>1 DEF TypeOK, Bots
<1> QED
  BY <1>1, <1>2, <1>3, <1>4

\* The updates stay jobs: what becomes of them at each step.
LEMMA UpdatesMove ==
    ASSUME TypeOK, Handler, [Next]_vars
    PROVE  update' \in [Updates -> {None} \cup Jobs]
<1>1. update \in [Updates -> {None} \cup Jobs]
  BY DEF TypeOK
<1>2. CASE CreateLock
  <2>1. CASE update' = update
    BY <1>1, <2>1
  <2>2. CASE update' # update
    <3>1. /\ found \in Versions
          /\ update' = [update EXCEPT ![asked + 1] = [at |-> "download", from |-> bot.version,
                                                      to |-> found, next |-> 1]]
      BY <1>2, <2>2 DEF CreateLock
    <3>2. bot.version \in Versions
      <4>1. found # None
        BY <3>1, NoneAssumption
      <4>2. bot \in Bots
        BY <4>1, UpIsBot DEF Handler, Up
      <4> QED
        BY <4>2 DEF Bots
    <3>3. 1 \in DOMAIN Files
      BY FileAssumption DEF Names
    <3>4. [at |-> "download", from |-> bot.version, to |-> found, next |-> 1] \in Jobs
      BY <3>1, <3>2, <3>3 DEF Jobs, InBot
    <3> QED
      BY <1>1, <3>1, <3>4
  <2> QED
    BY <2>1, <2>2
<1>3. ASSUME NEW u \in Updates, Download(u) \/ Copy(u)  PROVE update' \in [Updates -> {None} \cup Jobs]
  <2>1. Active(u)
    BY <1>3 DEF Download, Copy, At, Active
  <2>2. CASE Goto(u, "clean")
    BY <2>1, <2>2, Moved DEF InBot
  <2>3. CASE ~Goto(u, "clean")
    <3>1. PICK l \in {"run", "notify"} :
             update' = IF update[u].next < Len(Files) THEN [update EXCEPT ![u].next = @ + 1]
                                                      ELSE [update EXCEPT ![u].at = l]
      BY <1>3, <2>3 DEF Download, Copy
    <3> QED
      BY <2>1, <3>1, NextFile DEF InBot, InScript, BotDown
  <2> QED
    BY <2>2, <2>3
<1>4. ASSUME NEW u \in Updates, Run(u)  PROVE update' \in [Updates -> {None} \cup Jobs]
  <2>1. Active(u)
    BY <1>4 DEF Run, At, Active
  <2>2. CASE Goto(u, "clean")
    BY <2>1, <2>2, Moved DEF InBot
  <2>3. CASE update' = [update EXCEPT ![u].at = "unmonitor", ![u].next = 1]
    <3>1. update' = [update EXCEPT ![u] = [update[u] EXCEPT !.at = "unmonitor", !.next = 1]]
      BY <1>1, <2>3
    <3>2. [update[u] EXCEPT !.at = "unmonitor", !.next = 1] \in Jobs
      <4>1. 1 \in DOMAIN Files
        BY FileAssumption DEF Names
      <4> QED
        BY <2>1, <4>1, ActiveIsJob DEF Jobs, InScript
    <3> QED
      BY <1>1, <3>1, <3>2
  <2> QED
    BY <1>4, <2>2, <2>3 DEF Run
<1>5. ASSUME NEW u \in Updates, Clean(u) \/ Unmonitor(u) \/ WriteNotify(u) \/ Unlock(u) \/ Monitor(u)
      PROVE  update' \in [Updates -> {None} \cup Jobs]
  <2>1. PICK l \in {"release", "stop", "unlock", "monitor", "start"} : Active(u) /\ Goto(u, l)
    BY <1>5 DEF Clean, Unmonitor, WriteNotify, Unlock, Monitor, At, Active
  <2> QED
    BY <2>1, Moved DEF InBot, InScript, BotDown
<1>6. ASSUME NEW u \in Updates, Stop(u) \/ Kill(u)  PROVE update' \in [Updates -> {None} \cup Jobs]
  <2>1. PICK l \in {"kill", "copy"} : update' = [WithoutGoroutines EXCEPT ![u].at = l]
    BY <1>6 DEF Stop, Kill, Stopped
  <2>2. Active(u) /\ update[u].at \in InScript
    BY <1>6 DEF Stop, Kill, At, Active, InScript, BotDown
  <2> QED
    BY <2>1, <2>2, HaltedBy DEF InScript, BotDown
<1>7. ASSUME NEW u \in Updates, GiveUp(u) \/ Fail(u) \/ CopyMissing(u) \/ Start(u)
      PROVE  update' \in [Updates -> {None} \cup Jobs]
  BY <1>7, Ended DEF GiveUp, Fail, CopyMissing, Start
<1>8. CASE CrashInLock \/ Crash
  BY <1>8, Halted DEF CrashInLock, Crash
<1>9. CASE Reboot
  BY <1>9 DEF Reboot
<1>10. CASE Release \/ Command \/ Check \/ Restart \/ Startup \/ UNCHANGED vars
  BY <1>1, <1>10 DEF Release, Command, Check, Restart, Startup, Notify, RemoveUpdateDir, vars
<1> QED
  BY <1>2, <1>3, <1>4, <1>5, <1>6, <1>7, <1>8, <1>9, <1>10 DEF Next, Goroutine, Script

LEMMA TypesKeep ==
    ASSUME TypeOK, Handler, [Next]_vars
    PROVE  TypeOK'
<1>1. latest' \in Versions
  BY DEF TypeOK, Next, vars, Release, Command, Check, CreateLock, CrashInLock, Goroutine, Download, Run,
        Clean, GiveUp, Script, Unmonitor, Stop, Kill, Stopped, Copy, CopyMissing, WriteNotify, Unlock,
        Monitor, Start, Fail, Restart, Crash, Reboot, Startup, Notify, RemoveUpdateDir
<1>2. installed' \in [AllFiles -> Versions]
  <2>1. ASSUME NEW u \in Updates, Copy(u)  PROVE installed' \in [AllFiles -> Versions]
    <3>1. update[u] \in Jobs
      BY <2>1, ActiveIsJob DEF Copy, At, Active
    <3>2. Files[update[u].next] \in Names
      BY <3>1 DEF Jobs, Names
    <3>3. files[Files[update[u].next]] \in Versions
      BY <2>1, <3>2 DEF TypeOK, Copy
    <3>4. installed' = [installed EXCEPT ![Files[update[u].next]] = files[Files[update[u].next]]]
      BY <2>1 DEF Copy
    <3> QED
      BY <3>2, <3>3, <3>4 DEF TypeOK, AllFiles
  <2>2. CASE ~\E u \in Updates : Copy(u)
    <3>1. installed' = installed
      BY <2>2 DEF Next, vars, disk, Release, Command, Check, CreateLock, CrashInLock, Goroutine, Download,
            Run, Clean, GiveUp, Script, Unmonitor, Stop, Kill, Stopped, CopyMissing, WriteNotify, Unlock,
            Monitor, Start, Fail, Restart, Crash, Reboot, Startup, Notify, RemoveUpdateDir
    <3> QED
      BY <3>1 DEF TypeOK
  <2> QED
    BY <2>1, <2>2
<1>3. asked' \in 0..MaxUpdates
  <2>1. asked' = asked \/ (asked < MaxUpdates /\ asked' = asked + 1)
    BY DEF Next, vars, counts, Release, Command, Check, CreateLock, CrashInLock, Goroutine, Download, Run,
          Clean, GiveUp, Script, Unmonitor, Stop, Kill, Stopped, Copy, CopyMissing, WriteNotify, Unlock,
          Monitor, Start, Fail, Restart, Crash, Reboot, Startup, Notify, RemoveUpdateDir
  <2> QED
    BY <2>1, BoundAssumption DEF TypeOK
<1>4. found' \in Versions \cup {Torn, None}
  <2>1. found' \in {found, Torn, None, latest}
    BY DEF Next, vars, Release, Command, Check, CreateLock, CrashInLock, Goroutine, Download, Run,
          Clean, GiveUp, Script, Unmonitor, Stop, Kill, Stopped, Copy, CopyMissing, WriteNotify, Unlock,
          Monitor, Start, Fail, Restart, Crash, Reboot, Startup, Notify, RemoveUpdateDir
  <2> QED
    BY <2>1 DEF TypeOK
<1>5. lock' \in Pids \cup {Torn, None}
  <2>1. CASE CreateLock
    <3>1. found # None
      BY <2>1, NoneAssumption DEF CreateLock
    <3>2. bot.pid \in Pids
      BY <3>1, UpIsBot DEF Handler, Up, Bots
    <3> QED
      BY <2>1, <3>2 DEF CreateLock, TypeOK
  <2>2. CASE ~CreateLock
    <3>1. lock' \in {lock, Torn, None}
      BY <2>2 DEF Next, vars, disk, Release, Command, Check, CrashInLock, Goroutine, Download, Run,
          Clean, GiveUp, Script, Unmonitor, Stop, Kill, Stopped, Copy, CopyMissing, WriteNotify, Unlock,
          Monitor, Start, Fail, Restart, Crash, Reboot, Startup, Notify, RemoveUpdateDir
    <3> QED
      BY <3>1 DEF TypeOK
  <2> QED
    BY <2>1, <2>2
<1>6. files' \in [Names -> Versions \cup {None}]
  <2>1. ASSUME NEW u \in Updates, Download(u)  PROVE files' \in [Names -> Versions \cup {None}]
    <3>1. update[u] \in Jobs
      BY <2>1, ActiveIsJob DEF Download, At, Active
    <3>2. Files[update[u].next] \in Names /\ update[u].to \in Versions
      BY <3>1 DEF Jobs, Names
    <3>3. NoFiles \in [Names -> Versions \cup {None}]
      BY DEF NoFiles
    <3>4. \/ files' = files
          \/ files' = [NoFiles EXCEPT ![Files[update[u].next]] = update[u].to]
          \/ files' = [files EXCEPT ![Files[update[u].next]] = update[u].to]
      BY <2>1 DEF Download
    <3> QED
      BY <3>2, <3>3, <3>4 DEF TypeOK
  <2>2. CASE ~\E u \in Updates : Download(u)
    <3>1. files' \in {files, NoFiles}
      BY <2>2 DEF Next, vars, disk, Release, Command, Check, CreateLock, CrashInLock, Goroutine, Run,
          Clean, GiveUp, Script, Unmonitor, Stop, Kill, Stopped, Copy, CopyMissing, WriteNotify, Unlock,
          Monitor, Start, Fail, Restart, Crash, Reboot, Startup, Notify, RemoveUpdateDir
    <3> QED
      BY <3>1 DEF TypeOK, NoFiles
  <2> QED
    BY <2>1, <2>2
<1>7. notify' \in {None} \cup (Versions \X Versions)
  <2>1. ASSUME NEW u \in Updates, WriteNotify(u)  PROVE notify' \in Versions \X Versions
    <3>1. update[u] \in Jobs
      BY <2>1, ActiveIsJob DEF WriteNotify, At, Active
    <3> QED
      BY <2>1, <3>1 DEF WriteNotify, Jobs
  <2>2. CASE ~\E u \in Updates : WriteNotify(u)
    <3>1. notify' \in {notify, None}
      BY <2>2 DEF Next, vars, disk, Release, Command, Check, CreateLock, CrashInLock, Goroutine, Download,
          Run, Clean, GiveUp, Script, Unmonitor, Stop, Kill, Stopped, Copy, CopyMissing, Unlock,
          Monitor, Start, Fail, Restart, Crash, Reboot, Startup, Notify, RemoveUpdateDir
    <3> QED
      BY <3>1 DEF TypeOK
  <2> QED
    BY <2>1, <2>2
<1>8. watched' \in BOOLEAN
  <2>1. watched' \in {watched, FALSE, Monit}
    BY DEF Next, vars, Release, Command, Check, CreateLock, CrashInLock, Goroutine, Download, Run,
          Clean, GiveUp, Script, Unmonitor, Stop, Kill, Stopped, Copy, CopyMissing, WriteNotify, Unlock,
          Monitor, Start, Fail, Restart, Crash, Reboot, Startup, Notify, RemoveUpdateDir
  <2> QED
    BY <2>1, BoundAssumption DEF TypeOK
<1>9. failed' \in BOOLEAN
  <2>1. failed \in BOOLEAN
    BY DEF TypeOK
  <2>2. CASE Reboot
    BY <2>1, <2>2 DEF Reboot
  <2>3. CASE ~Reboot
    <3>1. failed' = failed \/ failed' = TRUE
      BY <2>3 DEF Next, vars, ghost, Release, Command, Check, CreateLock, CrashInLock, Goroutine, Download,
          Run, Clean, GiveUp, Script, Unmonitor, Stop, Kill, Stopped, Copy, CopyMissing, WriteNotify, Unlock,
          Monitor, Start, Fail, Restart, Crash, Startup, Notify, RemoveUpdateDir
    <3> QED
      BY <2>1, <3>1
  <2> QED
    BY <2>2, <2>3
<1>10. meddled' \in {"no", "back", "late"}
  <2>1. meddled' \in {meddled, "back", "late"}
    BY DEF Next, vars, ghost, Release, Command, Check, CreateLock, CrashInLock, Goroutine, Download,
          Run, Clean, GiveUp, Script, Unmonitor, Stop, Kill, Stopped, Copy, CopyMissing, WriteNotify, Unlock,
          Monitor, Start, Fail, Restart, Crash, Reboot, Startup, Notify, RemoveUpdateDir
  <2> QED
    BY <2>1 DEF TypeOK
<1> QED
  BY <1>1, <1>2, <1>3, <1>4, <1>5, <1>6, <1>7, <1>8, <1>9, <1>10, BotMoves, UpdatesMove DEF TypeOK, Bots

-----------------------------------------------------------------------------
(* The handler of /update, and the numbers of processes.                    *)

LEMMA HandlerKeeps ==
    ASSUME TypeOK, Handler, [Next]_vars
    PROVE  Handler'
<1>1. CASE found' = None
  BY <1>1, NoneAssumption DEF Handler
<1>2. CASE found' = found /\ bot' = bot
  BY <1>2 DEF Handler
<1>3. CASE Command
  <2>1. bot' = bot /\ bot.at = "running" /\ found' \in {found, Torn}
    BY <1>3 DEF Command
  <2>2. Torn \notin Versions
    BY DEF Torn, Versions
  <2> QED
    BY <2>1, <2>2 DEF Handler
<1>4. CASE Check
  <2>1. bot' = bot /\ found # None /\ (found' = None \/ (found' = latest /\ bot.version < latest))
    BY <1>4, NoneAssumption DEF Check, ShouldUpdate
  <2> QED
    BY <1>1, <2>1 DEF Handler
<1>5. CASE (\E u \in Updates : Start(u)) \/ Restart \/ Startup
  <2>1. found' = found /\ (bot' = bot \/ bot.at # "running")
    BY <1>5 DEF Start, Restart, Startup, Notify, RemoveUpdateDir, Up
  <2> QED
    BY <1>1, <1>2, <2>1 DEF Handler
<1>6. CASE ~((\E u \in Updates : Start(u)) \/ Restart \/ Startup \/ Check \/ Command)
  <2>1. found' = None \/ (found' = found /\ bot' = bot)
    BY <1>6 DEF Next, vars, Release, CreateLock, CrashInLock, Goroutine, Download, Run, Clean, GiveUp,
          Script, Unmonitor, Stop, Kill, Stopped, Copy, CopyMissing, WriteNotify, Unlock, Monitor, Fail,
          Crash, Reboot
  <2> QED
    BY <1>1, <1>2, <2>1
<1> QED
  BY <1>3, <1>4, <1>5, <1>6

LEMMA NumbersKeep ==
    ASSUME TypeOK, Handler, Numbers, [Next]_vars
    PROVE  Numbers'
<1>1. starts \in Nat /\ lock \in Pids \cup {Torn, None}
  BY DEF TypeOK
<1>2. CASE (\E u \in Updates : Start(u)) \/ Restart
  <2>1. lock' = lock /\ (NewBot \/ UNCHANGED <<bot, starts>>)
    BY <1>2 DEF Start, Restart, disk
  <2>2. CASE NewBot
    <3>1. bot'.pid = starts + 1 /\ starts' = starts + 1
      BY <2>2, NewBotIs
    <3>2. lock \in Pids => lock <= starts + 1
      BY <1>1 DEF Numbers, Pids
    <3> QED
      BY <2>1, <3>1, <3>2 DEF Numbers, Up
  <2>3. CASE UNCHANGED <<bot, starts>>
    BY <2>1, <2>3 DEF Numbers, Up
  <2> QED
    BY <2>1, <2>2, <2>3
<1>3. CASE Notify \/ RemoveUpdateDir
  <2>1. /\ starts' = starts /\ Up /\ \E at \in {"running", "told"} : bot' = [bot EXCEPT !.at = at]
        /\ lock' \in {lock, None}
    BY <1>3 DEF Notify, RemoveUpdateDir, counts, disk, Up
  <2>2. bot'.pid = bot.pid
    BY <2>1, UpIsBot DEF Bots
  <2> QED
    BY <2>1, <2>2, NoneAssumption DEF Numbers
<1>4. CASE CrashInLock \/ (\E u \in Updates : Stop(u) \/ Kill(u)) \/ Crash \/ Reboot
  <2>1. starts' = starts /\ bot' = Down /\ lock' \in {lock, Torn, None}
    BY <1>4 DEF CrashInLock, Stop, Kill, Stopped, Crash, Reboot, counts, disk
  <2>2. ~Up' /\ Torn \notin Pids
    BY <2>1 DEF Up, Down, Torn, Pids
  <2> QED
    BY <2>1, <2>2, NoneAssumption DEF Numbers
<1>5. CASE CreateLock
  <2>1. bot' = bot /\ starts' = starts /\ lock' \in {lock, bot.pid} /\ Up
    BY <1>5, NoneAssumption DEF CreateLock, Handler, Up
  <2> QED
    BY <1>1, <2>1 DEF Numbers, Up
<1>6. CASE ~((\E u \in Updates : Start(u) \/ Stop(u) \/ Kill(u)) \/ Restart \/ Notify \/ RemoveUpdateDir
             \/ CrashInLock \/ Crash \/ Reboot \/ CreateLock)
  <2>1. bot' = bot /\ starts' = starts /\ lock' \in {lock, None}
    BY <1>6 DEF Next, vars, counts, disk, Release, Command, Check, Goroutine, Download, Run, Clean,
          GiveUp, Script, Unmonitor, Copy, CopyMissing, WriteNotify, Unlock, Monitor, Fail, Startup
  <2> QED
    BY <2>1, NoneAssumption DEF Numbers, Up
<1> QED
  BY <1>2, <1>3, <1>4, <1>5, <1>6

\* What has gone wrong once stays noted.
LEMMA HistoryKeeps ==
    ASSUME TypeOK, [Next]_vars
    PROVE  /\ meddled' # "late" => meddled # "late"
           /\ meddled' = "no" => meddled = "no"
           /\ failed => failed'
<1>1. meddled' # "late" => meddled # "late"
  BY DEF TypeOK, Next, vars, ghost, Release, Command, Check, CreateLock, CrashInLock, Goroutine, Download,
        Run, Clean, GiveUp, Script, Unmonitor, Stop, Kill, Stopped, Copy, CopyMissing, WriteNotify, Unlock,
        Monitor, Start, Fail, Restart, Crash, Reboot, Startup, Notify, RemoveUpdateDir
<1>2. meddled' = "no" => meddled = "no"
  BY DEF TypeOK, Next, vars, ghost, Release, Command, Check, CreateLock, CrashInLock, Goroutine, Download,
        Run, Clean, GiveUp, Script, Unmonitor, Stop, Kill, Stopped, Copy, CopyMissing, WriteNotify, Unlock,
        Monitor, Start, Fail, Restart, Crash, Reboot, Startup, Notify, RemoveUpdateDir
<1>3. failed => failed'
  BY DEF TypeOK, Next, vars, ghost, Release, Command, Check, CreateLock, CrashInLock, Goroutine, Download,
        Run, Clean, GiveUp, Script, Unmonitor, Stop, Kill, Stopped, Copy, CopyMissing, WriteNotify, Unlock,
        Monitor, Start, Fail, Restart, Crash, Reboot, Startup, Notify, RemoveUpdateDir
<1> QED
  BY <1>1, <1>2, <1>3

-----------------------------------------------------------------------------
(* A step of the only update.                                               *)

LEMMA InitInv == Init => UpdateInv
<1> SUFFICES ASSUME Init  PROVE UpdateInv
  OBVIOUS
<1>1. 1 \in Versions /\ 1 \in Pids /\ {0, 1} \subseteq 0..MaxStarts /\ 0 \in 0..MaxUpdates
  BY BoundAssumption DEF Versions, Pids
<1>2. ~\E u \in Updates : Active(u)
  BY DEF Init, Active
<1>3. TypeOK
  <2>1. installed \in [AllFiles -> Versions] /\ files \in [Names -> Versions \cup {None}]
    BY <1>1 DEF Init, NoFiles
  <2>2. bot \in Bots /\ starts \in 0..MaxStarts /\ asked \in 0..MaxUpdates /\ latest \in Versions
    BY <1>1 DEF Init, Bots
  <2>3. watched \in BOOLEAN /\ failed \in BOOLEAN
    BY BoundAssumption DEF Init
  <2>4. found \in Versions \cup {Torn, None} /\ lock \in Pids \cup {Torn, None}
    BY DEF Init
  <2>5. update \in [Updates -> {None} \cup Jobs] /\ notify \in {None} \cup (Versions \X Versions)
    BY DEF Init
  <2>6. meddled \in {"no", "back", "late"}
    BY DEF Init
  <2> QED
    BY <2>1, <2>2, <2>3, <2>4, <2>5, <2>6 DEF TypeOK, Bots
<1>4. Handler /\ Numbers
  BY NoneAssumption DEF Init, Handler, Numbers, Up
<1>5. Lone
  BY <1>2 DEF Lone
<1>6. Owned
  <2>1. lock # bot.pid
    BY <1>1, NoneAssumption DEF Init
  <2> QED
    BY <2>1 DEF Owned, IsPid
<1>7. Releases
  BY <1>2, FileAssumption DEF Init, Releases, UpToDate, Even, Noted, AllFiles
<1> QED
  BY <1>3, <1>4, <1>5, <1>6, <1>7 DEF UpdateInv

\* What is known of an update, unless a bot was started too late.
LEMMA Known ==
    ASSUME UpdateInv, NEW u \in Updates, Active(u), meddled # "late"
    PROVE  /\ update[u] \in Jobs /\ Place(u)
           /\ \A w \in Updates : Active(w) => w = u
           /\ Busy({"copy"}) <=> update[u].at = "copy"
           /\ Busy({"copy", "notify"}) <=> update[u].at \in {"copy", "notify"}
           /\ ~failed => Fetched(u) /\ Copies(u) /\ UpToDate /\ Even /\ Noted
<1>1. update[u] \in Jobs
  BY ActiveIsJob DEF UpdateInv
<1>2. Place(u) /\ \A w \in Updates : Active(w) => w = u
  BY DEF UpdateInv, Lone
<1>3. ~failed => Fetched(u) /\ Copies(u) /\ UpToDate /\ Even /\ Noted
  BY DEF UpdateInv, Releases, Undisturbed
<1> QED
  BY <1>1, <1>2, <1>3 DEF Busy

\* What is left to show of a step of an update that goes on.
LEMMA GoesOn ==
    ASSUME UpdateInv, NEW u \in Updates, Active(u), update'[u] \in Jobs,
           \A w \in Updates \ {u} : update'[w] \in {None, update[w]},
           meddled' = meddled, failed' = failed,
           meddled # "late" => Place(u)',
           Undisturbed => Fetched(u)' /\ Copies(u)' /\ UpToDate' /\ Noted'
    PROVE  Lone' /\ Owned' /\ Releases'
<1>1. Active(u)'
  BY JobAssumption DEF Active
<1>2. meddled # "late" => \A w \in Updates : Active(w)' => w = u
  BY Known DEF Active
<1>3. Lone'
  BY <1>2 DEF Lone
<1>4. Owned'
  BY <1>1 DEF Owned
<1>5. Releases'
  <2> SUFFICES ASSUME Undisturbed  PROVE Even' /\ \A w \in Updates : Active(w)' => Fetched(w)' /\ Copies(w)'
    BY DEF Releases, Undisturbed
  <2>1. \A w \in Updates : Active(w)' => Fetched(w)' /\ Copies(w)'
    BY <1>2 DEF Undisturbed
  <2>2. Even'
    <3> SUFFICES ASSUME update'[u].at # "copy"  PROVE \A f \in Names : installed'[f] = installed'[Binary]
      BY <1>1 DEF Even, Busy
    <3>1. update'[u].at \in InBot \cup Early \cup Copied
      BY DEF Jobs, InBot, InScript, BotDown, Early, Copied
    <3>2. \/ \A f \in Names : installed'[f] = update'[u].from
          \/ \A f \in Names : installed'[f] = update'[u].to
      BY <3>1 DEF Copies
    <3> QED
      BY <3>2, FileAssumption
  <2> QED
    BY <2>1, <2>2
<1> QED
  BY <1>3, <1>4, <1>5

\* The steps of the goroutine, but for the end.
LEMMA DownloadKeeps ==
    ASSUME UpdateInv, NEW u \in Updates, Download(u)
    PROVE  Lone' /\ Owned' /\ Releases'
<1> DEFINE n == update[u].next
<1>1. /\ Active(u) /\ update[u].at = "download"
      /\ installed' = installed /\ bot' = bot /\ lock' = lock /\ notify' = notify
      /\ meddled' = meddled /\ failed' = failed
  BY DEF Download, At, Active, ghost
<1>2. TypeOK /\ update[u] \in Jobs
  BY <1>1, ActiveIsJob DEF UpdateInv
<1>3. /\ update'[u] \in Jobs /\ update'[u].at \in {"download", "run", "clean"}
      /\ update'[u].from = update[u].from /\ update'[u].to = update[u].to
      /\ \A w \in Updates \ {u} : update'[w] = update[w]
  <2>1. CASE Goto(u, "clean")
    BY <1>1, <1>2, <2>1, Moved DEF InBot
  <2>2. CASE ~Goto(u, "clean")
    <3>1. update' = IF n < Len(Files) THEN [update EXCEPT ![u].next = @ + 1]
                                      ELSE [update EXCEPT ![u].at = "run"]
      BY <2>2 DEF Download
    <3>2. n < Len(Files) \/ n = Len(Files)
      BY <1>2, FileAssumption DEF Jobs
    <3> QED
      BY <1>1, <1>2, <3>1, <3>2, NextFile DEF InBot
  <2> QED
    BY <2>1, <2>2
<1>4. meddled # "late" => Place(u)'
  <2> SUFFICES ASSUME meddled # "late"  PROVE Place(u)'
    OBVIOUS
  <2>1. Place(u)
    BY <1>1, Known
  <2> QED
    BY <1>1, <1>3, <2>1 DEF Place, InBot, Copied, Early, BotDown, Up
<1>5. Undisturbed => Fetched(u)' /\ Copies(u)' /\ UpToDate' /\ Noted'
  <2> SUFFICES ASSUME Undisturbed  PROVE Fetched(u)' /\ Copies(u)' /\ UpToDate' /\ Noted'
    OBVIOUS
  <2>1. /\ Fetched(u) /\ Copies(u) /\ UpToDate /\ Noted
        /\ Busy({"copy", "notify"}) <=> update[u].at \in {"copy", "notify"}
    BY <1>1, Known DEF Undisturbed
  <2>2. UpToDate' /\ Noted'
    BY <1>1, <2>1 DEF UpToDate, Noted, Up
  <2>3. Copies(u)'
    BY <1>1, <1>3, <2>1 DEF Copies, InBot, Copied, Early
  <2>4. Fetched(u)'
    <3>1. CASE update'[u].at = "clean"
      BY <3>1 DEF Fetched, InScript, BotDown
    <3>2. CASE update'[u].at # "clean"
      <4>1. files' = [(IF n = 1 THEN NoFiles ELSE files) EXCEPT ![Files[n]] = update[u].to]
        <5>1. ~Goto(u, "clean")
          BY <1>1, <1>2, <3>2, Moved DEF InBot
        <5> QED
          BY <5>1 DEF Download
      <4>2. n = 1 \/ \A f \in Names : files[f] \in {None, update[u].to}
        <5>1. n \in Nat /\ n >= 1
          BY <1>2, FileAssumption DEF Jobs
        <5> QED
          BY <1>1, <2>1, <5>1 DEF Fetched
      <4>3. \A f \in Names : files'[f] \in {None, update[u].to}
        BY <1>2, <4>1, <4>2 DEF NoFiles, TypeOK
      <4> QED
        BY <1>3, <4>3 DEF Fetched
    <3> QED
      BY <3>1, <3>2
  <2> QED
    BY <2>2, <2>3, <2>4
<1> QED
  BY <1>1, <1>3, <1>4, <1>5, GoesOn

LEMMA RunKeeps ==
    ASSUME UpdateInv, NEW u \in Updates, Run(u) \/ Clean(u) \/ Unmonitor(u)
    PROVE  Lone' /\ Owned' /\ Releases'
<1>1. /\ Active(u) /\ installed' = installed /\ bot' = bot /\ lock' = lock /\ notify' = notify
      /\ meddled' = meddled /\ failed' = failed
      /\ Clean(u) \/ files' = files
  BY DEF Run, Clean, Unmonitor, At, Active, ghost, disk
<1>2. TypeOK /\ update[u] \in Jobs
  BY <1>1, ActiveIsJob DEF UpdateInv
<1>3. /\ update'[u] \in Jobs
      /\ update'[u].from = update[u].from /\ update'[u].to = update[u].to
      /\ \/ /\ update[u].at = "run" /\ files' = files
            /\ \/ update'[u].at = "unmonitor" /\ update'[u].next = 1
               \/ update'[u].at = "clean"
         \/ update[u].at = "clean" /\ update'[u].at = "release"
         \/ update[u].at = "unmonitor" /\ files' = files /\ update'[u].at = "stop"
                                         /\ update'[u].next = update[u].next
      /\ \A w \in Updates \ {u} : update'[w] = update[w]
  <2>1. CASE Run(u) /\ ~Goto(u, "clean")
    <3>1. update' = [update EXCEPT ![u] = [update[u] EXCEPT !.at = "unmonitor", !.next = 1]]
      BY <2>1 DEF Run
    <3>2. [update[u] EXCEPT !.at = "unmonitor", !.next = 1] \in Jobs
      <4>1. 1 \in DOMAIN Files
        BY FileAssumption DEF Names
      <4> QED
        BY <1>2, <4>1 DEF Jobs, InScript
    <3>3. update[u].at = "run" /\ files' = files
      BY <2>1 DEF Run, At, disk
    <3> QED
      BY <1>2, <3>1, <3>2, <3>3 DEF TypeOK, Jobs
  <2>2. CASE Run(u) /\ Goto(u, "clean")
    BY <1>1, <1>2, <2>2, Moved DEF Run, At, InBot, disk
  <2>3. CASE Clean(u)
    BY <1>1, <1>2, <2>3, Moved DEF Clean, At, InBot
  <2>4. CASE Unmonitor(u)
    BY <1>1, <1>2, <2>4, Moved DEF Unmonitor, At, InScript, disk
  <2> QED
    BY <2>1, <2>2, <2>3, <2>4
<1>4. meddled # "late" => Place(u)'
  <2> SUFFICES ASSUME meddled # "late"  PROVE Place(u)'
    OBVIOUS
  <2>1. Place(u)
    BY <1>1, Known
  <2> QED
    BY <1>1, <1>3, <2>1 DEF Place, InBot, Copied, Early, BotDown, Up
<1>5. Undisturbed => Fetched(u)' /\ Copies(u)' /\ UpToDate' /\ Noted'
  <2> SUFFICES ASSUME Undisturbed  PROVE Fetched(u)' /\ Copies(u)' /\ UpToDate' /\ Noted'
    OBVIOUS
  <2>1. /\ Fetched(u) /\ Copies(u) /\ UpToDate /\ Noted
        /\ Busy({"copy", "notify"}) <=> update[u].at \in {"copy", "notify"}
    BY <1>1, Known DEF Undisturbed
  <2>2. UpToDate' /\ Noted'
    BY <1>1, <1>3, <2>1 DEF UpToDate, Noted, Up
  <2>3. Copies(u)'
    BY <1>1, <1>3, <2>1 DEF Copies, InBot, Copied, Early
  <2>4. Fetched(u)'
    BY <1>3, <2>1 DEF Fetched, InScript, BotDown
  <2> QED
    BY <2>2, <2>3, <2>4
<1> QED
  BY <1>1, <1>3, <1>4, <1>5, GoesOn

\* The script stops the bot, and kills one that is back.
LEMMA StopKeeps ==
    ASSUME UpdateInv, NEW u \in Updates, Stop(u) \/ Kill(u)
    PROVE  Lone' /\ Owned' /\ Releases'
<1>1. /\ Active(u) /\ installed' = installed /\ bot' = Down /\ lock' = lock /\ notify' = notify
      /\ files' = files /\ meddled' = meddled /\ failed' = failed
  BY DEF Stop, Kill, Stopped, At, Active, ghost, disk
<1>2. TypeOK /\ update[u] \in Jobs
  BY <1>1, ActiveIsJob DEF UpdateInv
<1>3. /\ update'[u] \in Jobs
      /\ update'[u].from = update[u].from /\ update'[u].to = update[u].to
      /\ update'[u].next = update[u].next
      /\ \/ update[u].at = "stop" /\ update'[u].at = "kill"
         \/ update[u].at = "kill" /\ update'[u].at = "copy"
      /\ \A w \in Updates \ {u} : update'[w] \in {None, update[w]}
  <2>1. PICK l \in {"kill", "copy"} :
           /\ update' = [WithoutGoroutines EXCEPT ![u].at = l]
           /\ (update[u].at = "stop" /\ l = "kill") \/ (update[u].at = "kill" /\ l = "copy")
    BY DEF Stop, Kill, Stopped, At
  <2>2. update[u].at \in InScript /\ l \in InScript
    BY <2>1 DEF InScript, BotDown
  <2> QED
    BY <1>1, <1>2, <2>1, <2>2, HaltedBy
<1>4. ~Up'
  BY <1>1 DEF Up, Down
<1>5. meddled # "late" => Place(u)'
  <2> SUFFICES ASSUME meddled # "late"  PROVE Place(u)'
    OBVIOUS
  <2>1. Place(u)
    BY <1>1, Known
  <2> QED
    BY <1>1, <1>3, <1>4, <2>1 DEF Place, InBot
<1>6. Undisturbed => Fetched(u)' /\ Copies(u)' /\ UpToDate' /\ Noted'
  <2> SUFFICES ASSUME Undisturbed  PROVE Fetched(u)' /\ Copies(u)' /\ UpToDate' /\ Noted'
    OBVIOUS
  <2>1. /\ Fetched(u) /\ Copies(u) /\ UpToDate /\ Noted
        /\ Busy({"copy", "notify"}) <=> update[u].at \in {"copy", "notify"}
    BY <1>1, Known DEF Undisturbed
  <2>2. UpToDate'
    BY <1>4 DEF UpToDate
  <2>3. Noted'
    <3>1. CASE update'[u].at = "copy"
      <4>1. Active(u)'
        BY <1>3, JobAssumption DEF Active
      <4> QED
        BY <3>1, <4>1 DEF Noted, Busy
    <3>2. CASE update'[u].at # "copy"
      BY <1>1, <1>3, <2>1, <3>2 DEF Noted
    <3> QED
      BY <3>1, <3>2
  <2>4. Copies(u)'
    <3>1. \A f \in Names : installed[f] = update[u].from
      BY <1>3, <2>1 DEF Copies, Early
    <3>2. update'[u].at = "copy" => \A i \in 1..(update'[u].next - 1) : installed[Files[i]] = update[u].to
      <4>1. update'[u].at = "copy" => update[u].next = 1
        BY <1>3, <2>1 DEF Copies, Early
      <4> QED
        BY <1>3, <4>1
    <3> QED
      BY <1>1, <1>3, <2>1, <3>1, <3>2 DEF Copies, InBot, Copied, Early
  <2>5. Fetched(u)'
    BY <1>1, <1>3, <2>1 DEF Fetched, InScript, BotDown
  <2> QED
    BY <2>2, <2>3, <2>4, <2>5
<1> QED
  BY <1>1, <1>3, <1>5, <1>6, GoesOn

\* One file is copied; the files not yet copied are still of the release before.
LEMMA CopyKeeps ==
    ASSUME UpdateInv, NEW u \in Updates, Copy(u)
    PROVE  Lone' /\ Owned' /\ Releases'
<1> DEFINE n == update[u].next
           g == Files[n]
<1>1. /\ Active(u) /\ update[u].at = "copy" /\ bot' = bot /\ lock' = lock /\ notify' = notify
      /\ files' = files /\ meddled' = meddled /\ failed' = failed
      /\ files[g] # None /\ installed' = [installed EXCEPT ![g] = files[g]]
  BY DEF Copy, At, Active, ghost
<1>2. TypeOK /\ update[u] \in Jobs
  BY <1>1, ActiveIsJob DEF UpdateInv
<1>3. n \in 1..Len(Files) /\ Len(Files) \in Nat /\ DOMAIN Files = 1..Len(Files) /\ g \in Names
  BY <1>2, FileAssumption DEF Jobs, Names
<1>4. /\ update'[u] \in Jobs
      /\ update'[u].from = update[u].from /\ update'[u].to = update[u].to
      /\ \A w \in Updates \ {u} : update'[w] = update[w]
      /\ n < Len(Files) => update'[u].at = "copy" /\ update'[u].next = n + 1
      /\ n = Len(Files) => update'[u].at = "notify"
  <2>1. update' = IF n < Len(Files) THEN [update EXCEPT ![u].next = @ + 1]
                                    ELSE [update EXCEPT ![u].at = "notify"]
    BY DEF Copy
  <2> QED
    BY <1>1, <1>2, <2>1, NextFile DEF InScript, BotDown
<1>5. update'[u].at \in {"copy", "notify"}
  BY <1>3, <1>4
<1>6. meddled # "late" => Place(u)'
  <2> SUFFICES ASSUME meddled # "late"  PROVE Place(u)'
    OBVIOUS
  <2>1. Place(u)
    BY <1>1, Known
  <2> QED
    BY <1>1, <1>5, <2>1 DEF Place, InBot, Copied, Early, BotDown, Up
<1>7. Undisturbed => Fetched(u)' /\ Copies(u)' /\ UpToDate' /\ Noted'
  <2> SUFFICES ASSUME Undisturbed  PROVE Fetched(u)' /\ Copies(u)' /\ UpToDate' /\ Noted'
    OBVIOUS
  <2>1. Place(u) /\ Fetched(u) /\ Copies(u)
    BY <1>1, Known DEF Undisturbed
  <2>2. UpToDate'
    BY <1>1, <2>1 DEF Place, UpToDate, Up
  <2>3. Noted'
    <3>1. Active(u)'
      BY <1>4, JobAssumption DEF Active
    <3> QED
      BY <1>5, <3>1 DEF Noted, Busy
  <2>4. Fetched(u)'
    BY <1>1, <1>4, <2>1 DEF Fetched, InScript, BotDown
  <2>5. Copies(u)'
    <3>1. files[g] = update[u].to
      BY <1>1, <1>3, <2>1 DEF Fetched, InScript, BotDown
    <3>2. installed'[g] = update[u].to /\ \A f \in Names \ {g} : installed'[f] = installed[f]
      BY <1>1, <1>2, <1>3, <3>1 DEF TypeOK, AllFiles
    <3>3. \A f \in Names : installed'[f] \in {update[u].from, update[u].to}
      BY <1>1, <2>1, <3>2 DEF Copies
    <3>4. ASSUME NEW i \in 1..n  PROVE installed'[Files[i]] = update[u].to
      <4>1. Files[i] \in Names
        BY <1>3 DEF Names
      <4>2. i = n \/ i \in 1..(n - 1)
        BY <1>3
      <4> QED
        BY <1>1, <2>1, <3>2, <4>1, <4>2 DEF Copies
    <3>5. CASE n < Len(Files)
      <4>1. update'[u].at = "copy" /\ 1..(update'[u].next - 1) = 1..n
        BY <1>3, <1>4, <3>5
      <4> QED
        BY <1>4, <2>1, <3>3, <3>4, <4>1 DEF Copies, InBot, Early, Copied
    <3>6. CASE n = Len(Files)
      <4>1. \A f \in Names : installed'[f] = update[u].to
        BY <1>3, <3>4, <3>6 DEF Names
      <4> QED
        BY <1>4, <2>1, <3>6, <4>1 DEF Copies, InBot, Early, Copied
    <3> QED
      BY <1>3, <3>5, <3>6
  <2> QED
    BY <2>2, <2>3, <2>4, <2>5
<1> QED
  BY <1>1, <1>4, <1>6, <1>7, GoesOn

LEMMA FinishKeeps ==
    ASSUME UpdateInv, NEW u \in Updates, WriteNotify(u) \/ Unlock(u) \/ Monitor(u)
    PROVE  Lone' /\ Owned' /\ Releases'
<1>1. /\ Active(u) /\ installed' = installed /\ bot' = bot /\ files' = files
      /\ meddled' = meddled /\ failed' = failed
  BY DEF WriteNotify, Unlock, Monitor, At, Active, ghost, disk
<1>2. TypeOK /\ update[u] \in Jobs
  BY <1>1, ActiveIsJob DEF UpdateInv
<1>3. /\ update'[u] \in Jobs
      /\ update'[u].from = update[u].from /\ update'[u].to = update[u].to
      /\ \A w \in Updates \ {u} : update'[w] = update[w]
      /\ \/ update[u].at = "notify" /\ update'[u].at = "unlock" /\ lock' = lock
            /\ notify' = <<update[u].from, update[u].to>>
         \/ update[u].at = "unlock" /\ update'[u].at = "monitor" /\ notify' = notify
         \/ update[u].at = "monitor" /\ update'[u].at = "start" /\ lock' = lock /\ notify' = notify
  <2>1. CASE WriteNotify(u)
    BY <1>1, <1>2, <2>1, Moved DEF WriteNotify, At, InScript, BotDown
  <2>2. CASE Unlock(u)
    BY <1>1, <1>2, <2>2, Moved DEF Unlock, At, InScript, BotDown
  <2>3. CASE Monitor(u)
    BY <1>1, <1>2, <2>3, Moved DEF Monitor, At, InScript, disk
  <2> QED
    BY <2>1, <2>2, <2>3
<1>4. meddled # "late" => Place(u)'
  <2> SUFFICES ASSUME meddled # "late"  PROVE Place(u)'
    OBVIOUS
  <2>1. Place(u)
    BY <1>1, Known
  <2>2. ~Up' /\ update'[u].at \notin InBot
    BY <1>1, <1>3, <2>1 DEF Place, Copied, Up, InBot
  <2>3. meddled = "no" /\ update'[u].at \notin {"monitor", "start"} => lock' \in Pids
    BY <1>3, <2>1 DEF Place
  <2> QED
    BY <1>1, <2>2, <2>3 DEF Place
<1>5. Undisturbed => Fetched(u)' /\ Copies(u)' /\ UpToDate' /\ Noted'
  <2> SUFFICES ASSUME Undisturbed  PROVE Fetched(u)' /\ Copies(u)' /\ UpToDate' /\ Noted'
    OBVIOUS
  <2>1. /\ Fetched(u) /\ Copies(u) /\ UpToDate /\ Noted
        /\ Busy({"copy", "notify"}) <=> update[u].at \in {"copy", "notify"}
    BY <1>1, Known DEF Undisturbed
  <2>2. \A f \in Names : installed'[f] = update[u].to
    BY <1>1, <1>3, <2>1 DEF Copies, Copied
  <2>3. UpToDate'
    BY <1>1, <2>1 DEF UpToDate, Up
  <2>4. Noted'
    <3>1. CASE notify' = <<update[u].from, update[u].to>>
      BY <2>2, <3>1 DEF Noted
    <3>2. CASE notify' = notify /\ update[u].at # "notify"
      BY <1>1, <1>3, <2>1, <3>2 DEF Noted
    <3> QED
      BY <1>3, <3>1, <3>2
  <2>5. Copies(u)'
    BY <1>3, <2>1, <2>2 DEF Copies, InBot, Early, Copied
  <2>6. Fetched(u)'
    BY <1>1, <1>3, <2>1 DEF Fetched, InScript, BotDown
  <2> QED
    BY <2>3, <2>4, <2>5, <2>6
<1> QED
  BY <1>1, <1>3, <1>4, <1>5, GoesOn

-----------------------------------------------------------------------------
(* Steps that begin or end an update, or leave it alone.                    *)

\* Without an update nothing is said of it.
LEMMA NoneLeft ==
    ASSUME ~\E w \in Updates : Active(w)'
    PROVE  Lone' /\ ~Busy({"copy"})' /\ ~Busy({"copy", "notify"})'
BY DEF Lone, Busy

LEMMA OneLess ==
    ASSUME UpdateInv, NEW u \in Updates, Active(u), Done(u), meddled # "late"
    PROVE  ~\E w \in Updates : Active(w)'
<1>1. update'[u] = None /\ \A w \in Updates \ {u} : update'[w] = update[w]
  BY Ended DEF UpdateInv
<1>2. \A w \in Updates : Active(w) => w = u
  BY Known
<1> QED
  BY <1>1, <1>2 DEF Active

LEMMA FailKeeps ==
    ASSUME UpdateInv, NEW u \in Updates, Fail(u) \/ CopyMissing(u)
    PROVE  Lone' /\ Owned' /\ Releases'
<1>1. Active(u) /\ Done(u) /\ failed' = TRUE /\ meddled' = meddled
  BY DEF Fail, CopyMissing, Running, At, Active
<1>2. Lone'
  <2>1. CASE meddled = "late"
    BY <1>1, <2>1 DEF Lone
  <2>2. CASE meddled # "late"
    BY <1>1, <2>2, OneLess, NoneLeft
  <2> QED
    BY <2>1, <2>2
<1> QED
  BY <1>1, <1>2 DEF Owned, Releases, Undisturbed

LEMMA GiveUpKeeps ==
    ASSUME UpdateInv, NEW u \in Updates, GiveUp(u)
    PROVE  Lone' /\ Owned' /\ Releases'
<1>1. /\ Active(u) /\ update[u].at = "release" /\ Done(u) /\ lock' = None
      /\ installed' = installed /\ bot' = bot /\ notify' = notify
      /\ meddled' = meddled /\ failed' = failed
  BY DEF GiveUp, At, Active, ghost
<1>2. CASE meddled = "late"
  BY <1>1, <1>2 DEF Lone, Owned, Releases, Undisturbed
<1>3. CASE meddled # "late"
  <2>1. Lone' /\ ~Busy({"copy"})' /\ ~Busy({"copy", "notify"})'
    BY <1>1, <1>3, OneLess, NoneLeft
  <2>2. Owned'
    <3>1. Up => bot.pid # None
      BY UpIsBot, NoneAssumption DEF UpdateInv, Bots
    <3> QED
      BY <1>1, <3>1 DEF Owned, IsPid, Up
  <2>3. Releases'
    <3> SUFFICES ASSUME Undisturbed  PROVE UpToDate' /\ Even' /\ Noted' /\ ~\E w \in Updates : Active(w)'
      BY <1>1 DEF Releases, Undisturbed
    <3>1. UpToDate /\ Even /\ Noted /\ ~Busy({"copy"}) /\ ~Busy({"copy", "notify"})
      BY <1>1, Known DEF Undisturbed
    <3>2. ~\E w \in Updates : Active(w)'
      BY <1>1, <1>3, OneLess
    <3> QED
      BY <1>1, <3>1, <3>2 DEF UpToDate, Even, Noted, Up
  <2> QED
    BY <2>1, <2>2, <2>3
<1> QED
  BY <1>2, <1>3

\* The script ends with the bot of the new release.
LEMMA StartKeeps ==
    ASSUME UpdateInv, NEW u \in Updates, Start(u)
    PROVE  Lone' /\ Owned' /\ Releases'
<1>1. /\ Active(u) /\ update[u].at = "start" /\ Done(u) /\ lock' = lock
      /\ installed' = installed /\ notify' = notify /\ meddled' = meddled /\ failed' = failed
  BY DEF Start, At, Active, ghost, disk
<1>2. CASE meddled = "late"
  BY <1>1, <1>2 DEF Lone, Owned, Releases, Undisturbed
<1>3. CASE meddled # "late"
  <2>1. Lone' /\ ~Busy({"copy"})' /\ ~Busy({"copy", "notify"})'
    BY <1>1, <1>3, OneLess, NoneLeft
  <2>2. NewBot
    <3>1. Place(u)
      BY <1>1, <1>3, Known
    <3>2. ~Up
      BY <1>1, <3>1 DEF Place, Copied
    <3> QED
      BY <3>2 DEF Start
  <2>3. bot'.pid = starts + 1 /\ bot'.version = installed[Binary]
    BY <2>2, NewBotIs DEF UpdateInv
  <2>4. Owned'
    <3>1. starts + 1 \in Pids /\ starts \in Nat
      BY <2>2, <2>3, NewBotIs DEF UpdateInv, Bots, TypeOK
    <3>2. lock \in Pids => lock <= starts
      BY DEF UpdateInv, Numbers
    <3>3. lock # starts + 1
      BY <3>1, <3>2
    <3> QED
      BY <1>1, <2>3, <3>3 DEF Owned, IsPid
  <2>5. Releases'
    <3> SUFFICES ASSUME Undisturbed  PROVE UpToDate' /\ Even' /\ Noted' /\ ~\E w \in Updates : Active(w)'
      BY <1>1 DEF Releases, Undisturbed
    <3>1. Even /\ Noted /\ ~Busy({"copy"}) /\ ~Busy({"copy", "notify"})
      BY <1>1, Known DEF Undisturbed
    <3>2. ~\E w \in Updates : Active(w)'
      BY <1>1, <1>3, OneLess
    <3> QED
      BY <1>1, <2>3, <3>1, <3>2 DEF UpToDate, Even, Noted
  <2> QED
    BY <2>1, <2>4, <2>5
<1> QED
  BY <1>2, <1>3

\* The bot goes down, with the handler and the goroutine; the script goes on.
LEMMA CrashKeeps ==
    ASSUME UpdateInv, Crash \/ CrashInLock
    PROVE  Lone' /\ Owned' /\ Releases'
<1>1. /\ Up /\ bot' = Down /\ update' = WithoutGoroutines /\ installed' = installed /\ files' = files
      /\ notify' = notify /\ meddled' = meddled /\ failed' = failed
      /\ lock' = lock \/ lock = None
  BY NoneAssumption DEF Crash, CrashInLock, UpdateInv, Handler, Up, ghost, disk
<1>2. ~Up'
  BY <1>1 DEF Up, Down
<1>3. \A w \in Updates : /\ Active(w)' <=> Active(w) /\ update[w].at \notin InBot
                         /\ Active(w)' => update'[w] = update[w]
  <2>1. \A w \in Updates : /\ WithoutGoroutines[w] \in {None, update[w]}
                           /\ Active(w) /\ update[w].at \notin InBot => WithoutGoroutines[w] = update[w]
                           /\ Active(w) /\ update[w].at \in InBot => WithoutGoroutines[w] = None
    BY Halted DEF UpdateInv
  <2> QED
    BY <1>1, <2>1 DEF Active
<1>4. /\ Busy({"copy"})' <=> Busy({"copy"})
      /\ Busy({"copy", "notify"})' <=> Busy({"copy", "notify"})
  <2>1. \A w \in Updates, l \in {"copy", "notify"} :
           Active(w)' /\ update'[w].at = l <=> Active(w) /\ update[w].at = l
    BY <1>3 DEF InBot
  <2> QED
    BY <2>1 DEF Busy
<1>5. Lone'
  <2> SUFFICES ASSUME meddled # "late", NEW w \in Updates, Active(w), update[w].at \notin InBot
               PROVE  Place(w)' /\ \A v \in Updates : Active(v)' => v = w
    BY <1>1, <1>3 DEF Lone
  <2>1. Place(w) /\ \A v \in Updates : Active(v) => v = w
    BY Known
  <2>2. update'[w] = update[w]
    BY <1>3
  <2>3. meddled = "no" /\ update[w].at \notin {"monitor", "start"} => lock' \in Pids
    <3>1. None \notin Pids
      BY NoneAssumption
    <3> QED
      BY <1>1, <2>1, <3>1 DEF Place
  <2>4. Place(w)'
    BY <1>1, <1>2, <2>2, <2>3 DEF Place
  <2>5. \A v \in Updates : Active(v)' => v = w
    BY <1>3, <2>1
  <2> QED
    BY <2>4, <2>5
<1>6. Owned'
  BY <1>2 DEF Owned, IsPid, Up
<1>7. Releases'
  <2> SUFFICES ASSUME Undisturbed
               PROVE  /\ \A w \in Updates : Active(w)' => Fetched(w)' /\ Copies(w)'
                      /\ UpToDate' /\ Even' /\ Noted'
    BY <1>1 DEF Releases, Undisturbed
  <2>1. (\A w \in Updates : Active(w) => Fetched(w) /\ Copies(w)) /\ UpToDate /\ Even /\ Noted
    BY DEF UpdateInv, Releases
  <2>2. \A w \in Updates : Active(w)' => Fetched(w)' /\ Copies(w)'
    BY <1>1, <1>3, <2>1 DEF Fetched, Copies
  <2> QED
    BY <1>1, <1>2, <1>4, <2>1, <2>2 DEF UpToDate, Even, Noted
<1> QED
  BY <1>5, <1>6, <1>7

LEMMA RebootKeeps ==
    ASSUME UpdateInv, Reboot
    PROVE  Lone' /\ Owned' /\ Releases'
<1>1. /\ bot' = Down /\ notify' = None /\ installed' = installed /\ meddled' = meddled
      /\ failed' = (failed \/ Running(InScript) # {})
      /\ \A w \in Updates : update'[w] = None
  BY DEF Reboot
<1>2. ~Up' /\ ~\E w \in Updates : Active(w)'
  BY <1>1 DEF Up, Down, Active
<1>3. Lone' /\ Owned'
  BY <1>2, NoneLeft DEF Owned, IsPid, Up
<1>4. Releases'
  <2> SUFFICES ASSUME Undisturbed'  PROVE Even'
    BY <1>1, <1>2 DEF Releases, UpToDate, Noted
  <2>1. Undisturbed /\ ~Busy({"copy"})
    BY <1>1 DEF Undisturbed, Busy, Running, Active, InScript, BotDown
  <2> QED
    BY <1>1, <2>1 DEF UpdateInv, Releases, Even
<1> QED
  BY <1>3, <1>4

\* An update begins when there is no lock: then there is none.
LEMMA CreateKeeps ==
    ASSUME UpdateInv, TypeOK', CreateLock
    PROVE  Lone' /\ Owned' /\ Releases'
<1>1. /\ found \in Versions /\ bot' = bot /\ installed' = installed /\ files' = files
      /\ notify' = notify /\ failed' = failed /\ bot.at = "running" /\ Up
  BY NoneAssumption DEF CreateLock, UpdateInv, Handler, Up
<1>2. CASE UNCHANGED <<lock, update, meddled>>
  BY <1>1, <1>2 DEF UpdateInv, Lone, Place, Owned, Releases, Undisturbed, Fetched, Copies, UpToDate, Even,
        Noted, Busy, Active, Up, IsPid
<1>3. CASE /\ lock = None /\ asked < MaxUpdates /\ asked' = asked + 1
           /\ update' = [update EXCEPT ![asked'] = [at |-> "download", from |-> bot.version,
                                                    to |-> found, next |-> 1]]
           /\ lock' = bot.pid
           /\ meddled' = IF meddled = "back" /\ Running(InScript) # {} THEN "late" ELSE meddled
  <2>1. PICK u \in Updates : u = asked'
    BY <1>3, BoundAssumption DEF UpdateInv, TypeOK, Updates
  <2>2. bot \in Bots /\ bot.pid \in Pids
    BY <1>1, UpIsBot DEF UpdateInv, Bots
  <2>3. /\ update'[u] = [at |-> "download", from |-> bot.version, to |-> found, next |-> 1]
        /\ \A w \in Updates \ {u} : update'[w] = update[w]
    BY <1>3, <2>1 DEF UpdateInv, TypeOK
  <2>4. meddled' # "late" => \A w \in Updates : ~Active(w)
    <3> SUFFICES ASSUME meddled' # "late", NEW w \in Updates, Active(w)  PROVE FALSE
      OBVIOUS
    <3>1. meddled # "late" /\ (meddled = "back" => Running(InScript) = {}) /\ meddled \in {"no", "back", "late"}
      BY <1>3 DEF UpdateInv, TypeOK
    <3>2. Place(w) /\ update[w].at \in InBot \cup InScript
      BY <3>1, Known DEF Jobs
    <3>3. update[w].at \notin InBot
      BY <1>3, <2>2, <3>2, NoneAssumption DEF Place
    <3>4. meddled = "no"
      BY <3>1, <3>2, <3>3 DEF Running, Active
    <3>5. update[w].at \in {"monitor", "start"}
      BY <1>3, <3>2, <3>4, NoneAssumption DEF Place
    <3> QED
      BY <1>1, <3>2, <3>5 DEF Place, Copied
  <2>5. Active(u)' /\ (meddled' # "late" => \A w \in Updates : Active(w)' => w = u)
    <3>1. Active(u)'
      <4>1. update'[u] \in Jobs
        <5>1. 1 \in DOMAIN Files
          BY FileAssumption DEF Names
        <5> QED
          BY <1>1, <2>2, <2>3, <5>1 DEF Jobs, InBot, Bots
      <4> QED
        BY <4>1, JobAssumption DEF Active
    <3> QED
      BY <2>3, <2>4, <3>1 DEF Active
  <2>6. Lone'
    <3>1. Place(u)'
      BY <1>1, <1>3, <2>2, <2>3 DEF Place, InBot, Copied, Early
    <3> QED
      BY <2>5, <3>1 DEF Lone
  <2>7. Owned'
    BY <2>1, <2>5 DEF Owned
  <2>8. Releases'
    <3> SUFFICES ASSUME Undisturbed'
                 PROVE  /\ \A w \in Updates : Active(w)' => Fetched(w)' /\ Copies(w)'
                        /\ UpToDate' /\ Even' /\ Noted'
      BY DEF Releases
    <3>1. meddled' # "late" /\ Undisturbed /\ \A w \in Updates : ~Active(w)
      BY <1>1, <1>3, <2>4 DEF Undisturbed
    <3>2. ~Busy({"copy"}) /\ ~Busy({"copy", "notify"}) /\ UpToDate /\ Even /\ Noted
      BY <3>1 DEF UpdateInv, Releases, Busy
    <3>3. UpToDate' /\ Even' /\ Noted'
      BY <1>1, <3>2 DEF UpToDate, Even, Noted, Up
    <3>4. Fetched(u)'
      BY <2>3 DEF Fetched, InScript, BotDown
    <3>5. Copies(u)'
      <4>1. bot.version < found
        BY <1>1 DEF UpdateInv, Handler
      <4>2. \A f \in Names : installed[f] = bot.version
        BY <1>1, <3>2 DEF UpToDate
      <4> QED
        BY <1>1, <2>3, <4>1, <4>2 DEF Copies, InBot, Early, Copied
    <3> QED
      BY <2>5, <3>1, <3>3, <3>4, <3>5
  <2> QED
    BY <2>6, <2>7, <2>8
<1> QED
  BY <1>2, <1>3 DEF CreateLock

\* A lock that is not stale stays.
LEMMA CommandKeeps ==
    ASSUME UpdateInv, Command
    PROVE  Lone' /\ Owned' /\ Releases'
<1>1. /\ bot.at = "running" /\ Up /\ bot' = bot /\ update' = update /\ installed' = installed
      /\ files' = files /\ notify' = notify /\ meddled' = meddled /\ failed' = failed
      /\ lock' = lock \/ (LockIsStale /\ lock' = None)
  BY DEF Command, Up, ghost
<1>2. ASSUME NEW w \in Updates, Active(w), Place(w)  PROVE Place(w)'
  <2>1. CASE lock' = lock
    BY <1>1, <1>2, <2>1 DEF Place, Up
  <2>2. CASE LockIsStale
    <3>1. lock # bot.pid /\ update[w] \in Jobs
      BY <1>1, <1>2, <2>2, ActiveIsJob DEF LockIsStale, IsPid, UpdateInv
    <3>2. update[w].at \notin InBot \cup {"copy"} \cup Copied
      BY <1>1, <1>2, <3>1 DEF Place
    <3>3. update[w].at \in Early
      BY <3>1, <3>2 DEF Jobs, InScript, BotDown, Copied, Early
    <3>4. meddled # "no"
      BY <1>1, <1>2, <3>1, <3>3 DEF Place
    <3> QED
      BY <1>1, <3>2, <3>4 DEF Place
  <2> QED
    BY <1>1, <2>1, <2>2
<1>3. Lone'
  BY <1>1, <1>2 DEF UpdateInv, Lone, Active
<1>4. Owned'
  <2>1. bot.pid # None
    BY <1>1, UpIsBot, NoneAssumption DEF UpdateInv, Bots
  <2> QED
    BY <1>1, <2>1 DEF UpdateInv, Owned, IsPid, Undisturbed, Active, Up
<1>5. Releases'
  BY <1>1 DEF UpdateInv, Releases, Undisturbed, Fetched, Copies, UpToDate, Even, Noted, Busy, Active, Up
<1> QED
  BY <1>3, <1>4, <1>5

\* A bot that starts finds no update under way, or the script of one that was back.
LEMMA StartupKeeps ==
    ASSUME UpdateInv, Startup
    PROVE  Lone' /\ Owned' /\ Releases'
<1>1. /\ Up /\ bot.at \in {"starting", "told"} /\ update' = update /\ installed' = installed
      /\ meddled' = meddled /\ failed' = failed
      /\ \E at \in {"running", "told"} : bot' = [bot EXCEPT !.at = at]
      /\ lock' = lock \/ lock' = None
      /\ files' = files \/ files' = NoFiles
      /\ notify' = notify \/ notify' = None
  BY DEF Startup, Notify, RemoveUpdateDir, Up, disk, ghost
<1>2. bot \in Bots /\ Up' /\ bot'.pid = bot.pid /\ bot'.version = bot.version
  <2>1. bot \in Bots
    BY <1>1, UpIsBot DEF UpdateInv
  <2> QED
    BY <1>1, <2>1 DEF Bots, Up
<1>3. ASSUME NEW w \in Updates, Active(w), Place(w)  PROVE Place(w)'
  <2>1. update[w] \in Jobs
    BY <1>3, ActiveIsJob DEF UpdateInv
  <2>2. update[w].at \notin InBot \cup {"copy"} \cup Copied
    BY <1>1, <1>3 DEF Place
  <2>3. update[w].at \in Early
    BY <2>1, <2>2 DEF Jobs, InScript, BotDown, Copied, Early
  <2>4. meddled # "no"
    BY <1>1, <1>3, <2>3 DEF Place
  <2> QED
    BY <1>1, <2>2, <2>4 DEF Place
<1>4. Lone'
  BY <1>1, <1>3 DEF UpdateInv, Lone, Active
<1>5. Owned'
  <2>1. bot.pid # None
    BY <1>2, NoneAssumption DEF Bots
  <2> QED
    BY <1>1, <1>2, <2>1 DEF UpdateInv, Owned, IsPid, Undisturbed, Active
<1>6. Releases'
  <2> SUFFICES ASSUME Undisturbed
               PROVE  /\ \A w \in Updates : Active(w)' => Fetched(w)' /\ Copies(w)'
                      /\ UpToDate' /\ Even' /\ Noted'
    BY <1>1 DEF Releases, Undisturbed
  <2>1. (\A w \in Updates : Active(w) => Fetched(w) /\ Copies(w)) /\ UpToDate /\ Even /\ Noted
    BY DEF UpdateInv, Releases
  <2>2. \A w \in Updates : Active(w)' => Copies(w)'
    BY <1>1, <2>1 DEF Copies, Active
  <2>3. \A w \in Updates : Active(w)' => Fetched(w)'
    BY <1>1, <2>1 DEF Fetched, Active, NoFiles
  <2>4. UpToDate' /\ Even' /\ Noted'
    BY <1>1, <1>2, <2>1 DEF UpToDate, Even, Noted, Busy, Active
  <2> QED
    BY <2>2, <2>3, <2>4
<1> QED
  BY <1>4, <1>5, <1>6

\* A bot that somebody starts: too late for a script that copies.
LEMMA RestartKeeps ==
    ASSUME UpdateInv, Restart
    PROVE  Lone' /\ Owned' /\ Releases'
<1>1. /\ ~Up /\ NewBot /\ update' = update /\ installed' = installed /\ files' = files /\ lock' = lock
      /\ notify' = notify /\ failed' = failed
      /\ meddled' = IF Running(InScript \ Early) # {} THEN "late"
                    ELSE IF Running(Early) # {} /\ meddled = "no" THEN "back" ELSE meddled
  BY DEF Restart, disk
<1>2. bot'.pid = starts + 1 /\ bot'.version = installed[Binary] /\ starts + 1 \in Pids /\ starts \in Nat
  BY <1>1, NewBotIs DEF UpdateInv, Bots, TypeOK
<1>3. meddled' # "late" =>
         /\ meddled # "late"
         /\ \A w \in Updates : Active(w) => update[w].at \in Early /\ meddled' # "no"
  <2> SUFFICES ASSUME meddled' # "late", NEW w \in Updates, Active(w)
               PROVE  meddled # "late" /\ update[w].at \in Early /\ meddled' # "no"
    BY <1>1
  <2>1. Running(InScript \ Early) = {} /\ meddled # "late"
    BY <1>1
  <2>2. Place(w) /\ update[w].at \in InBot \cup InScript
    BY <2>1, Known DEF Jobs
  <2>3. update[w].at \notin InBot
    BY <1>1, <2>2 DEF Place, Up
  <2>4. update[w].at \in Early
    BY <2>1, <2>2, <2>3 DEF Running, Active
  <2>5. Running(Early) # {}
    BY <2>4 DEF Running, Active
  <2> QED
    BY <1>1, <2>1, <2>4, <2>5
<1>4. Lone'
  <2> SUFFICES ASSUME meddled' # "late"
               PROVE  /\ \A v, w \in Updates : Active(v)' /\ Active(w)' => v = w
                      /\ \A w \in Updates : Active(w)' => Place(w)'
    BY DEF Lone
  <2>1. \A v, w \in Updates : Active(v)' /\ Active(w)' => v = w
    BY <1>1, <1>3 DEF UpdateInv, Lone, Active
  <2>2. ASSUME NEW w \in Updates, Active(w)'  PROVE Place(w)'
    <3>1. update'[w].at \in Early /\ meddled' # "no"
      BY <1>1, <1>3, <2>2 DEF Active
    <3>2. update'[w].at \notin InBot
      BY <3>1 DEF Early, InBot
    <3>3. update'[w].at \notin {"copy"} \cup Copied
      BY <3>1 DEF Early, Copied
    <3> QED
      BY <3>1, <3>2, <3>3 DEF Place
  <2> QED
    BY <2>1, <2>2
<1>5. Owned'
  <2>1. lock \in Pids => lock <= starts
    BY DEF UpdateInv, Numbers
  <2>2. lock # starts + 1
    BY <1>2, <2>1
  <2> QED
    BY <1>1, <1>2, <2>2 DEF Owned, IsPid
<1>6. Releases'
  <2> SUFFICES ASSUME Undisturbed'
               PROVE  /\ \A w \in Updates : Active(w)' => Fetched(w)' /\ Copies(w)'
                      /\ UpToDate' /\ Even' /\ Noted'
    BY DEF Releases
  <2>1. Undisturbed
    BY <1>1, <1>3 DEF Undisturbed
  <2>2. (\A w \in Updates : Active(w) => Fetched(w) /\ Copies(w)) /\ Even /\ Noted
    BY <2>1 DEF UpdateInv, Releases
  <2>3. ~Busy({"copy"})
    BY <1>3 DEF Busy, Undisturbed, Early
  <2> QED
    BY <1>1, <1>2, <2>2, <2>3 DEF Fetched, Copies, UpToDate, Even, Noted, Busy, Active
<1> QED
  BY <1>4, <1>5, <1>6

LEMMA IdleKeeps ==
    ASSUME UpdateInv, Release \/ Check \/ UNCHANGED vars
    PROVE  Lone' /\ Owned' /\ Releases'
<1>1. /\ bot' = bot /\ update' = update /\ installed' = installed /\ files' = files /\ lock' = lock
      /\ notify' = notify /\ meddled' = meddled /\ failed' = failed
  BY DEF Release, Check, vars, disk, ghost
<1> QED
  BY <1>1 DEF UpdateInv, Lone, Place, Owned, Releases, Undisturbed, Fetched, Copies, UpToDate, Even,
        Noted, Busy, Active, Up, IsPid

LEMMA UpdateInvariant == Spec => []UpdateInv
<1>1. ASSUME UpdateInv, [Next]_vars  PROVE UpdateInv'
  <2>1. TypeOK' /\ Handler' /\ Numbers'
    BY <1>1, TypesKeep, HandlerKeeps, NumbersKeep DEF UpdateInv
  <2>2. Lone' /\ Owned' /\ Releases'
    <3>1. ASSUME NEW u \in Updates, Goroutine(u) \/ Script(u) \/ Fail(u)
          PROVE  Lone' /\ Owned' /\ Releases'
      BY <1>1, <3>1, DownloadKeeps, RunKeeps, GiveUpKeeps, StopKeeps, CopyKeeps, FinishKeeps, StartKeeps,
         FailKeeps DEF Goroutine, Script
    <3>2. CASE Release \/ Check \/ UNCHANGED vars
      BY <1>1, <3>2, IdleKeeps
    <3>3. CASE Command
      BY <1>1, <3>3, CommandKeeps
    <3>4. CASE CreateLock
      BY <1>1, <2>1, <3>4, CreateKeeps
    <3>5. CASE Crash \/ CrashInLock
      BY <1>1, <3>5, CrashKeeps
    <3>6. CASE Reboot
      BY <1>1, <3>6, RebootKeeps
    <3>7. CASE Restart
      BY <1>1, <3>7, RestartKeeps
    <3>8. CASE Startup
      BY <1>1, <3>8, StartupKeeps
    <3> QED
      BY <1>1, <3>1, <3>2, <3>3, <3>4, <3>5, <3>6, <3>7, <3>8 DEF Next
  <2> QED
    BY <2>1, <2>2 DEF UpdateInv
<1> QED
  BY InitInv, <1>1, PTL DEF Spec

-----------------------------------------------------------------------------
(* Theorems.                                                                *)

\* The lock file, the downloaded and installed files, the bot and its updates have their
\* types, whatever fails, crashes or is restarted.
THEOREM TypeCorrect == Spec => []TypeOK
<1>1. UpdateInv => TypeOK
  BY DEF UpdateInv
<1> QED
  BY <1>1, UpdateInvariant, PTL

\* The lock file of internal/updater, which the script removes and a later bot may find
\* stale, keeps a second update away, and a bot is not kept from updating by a lock of
\* its own that nobody will remove.
THEOREM LockIsHeld == Spec => []HoldsLock
<1>1. UpdateInv => HoldsLock
  <2> SUFFICES ASSUME UpdateInv  PROVE HoldsLock
    OBVIOUS
  <2>1. \A u \in Updates : u \in Working <=> Active(u) /\ update[u].at \notin {"monitor", "start"}
    <3>1. \A u \in Updates : Active(u) => update[u].at \in InBot \cup InScript
      BY ActiveIsJob DEF UpdateInv, Jobs
    <3> QED
      BY <3>1 DEF Working, Running, Active, InBot, InScript, BotDown
  <2>2. ASSUME meddled = "no"
        PROVE  (\A u, w \in Working : u = w) /\ (Working # {} => lock \in Pids)
    <3>1. Working \subseteq Updates
      BY DEF Working, Running
    <3>2. \A u, w \in Working : u = w
      BY <2>1, <2>2, <3>1 DEF UpdateInv, Lone
    <3>3. ASSUME NEW u \in Working  PROVE lock \in Pids
      <4>1. Place(u) /\ update[u].at \notin {"monitor", "start"}
        BY <2>1, <2>2, <3>1, <3>3 DEF UpdateInv, Lone
      <4> QED
        BY <2>2, <4>1 DEF Place
    <3> QED
      BY <3>2, <3>3
  <2>3. ASSUME Undisturbed, IsPid  PROVE Working # {}
    <3>1. PICK u \in Updates : Active(u)
      BY <2>3 DEF UpdateInv, Owned
    <3>2. Place(u)
      BY <2>3, <3>1 DEF UpdateInv, Lone, Undisturbed
    <3>3. update[u].at \notin {"monitor", "start"}
      BY <2>3, <3>2 DEF Place, Copied, IsPid
    <3> QED
      BY <2>1, <3>1, <3>3
  <2> QED
    BY <2>2, <2>3 DEF HoldsLock
<1> QED
  BY <1>1, UpdateInvariant, PTL

\* The script stops the bot before it copies the files one by one (cp, set -e) and starts
\* it after the last one: a bot that runs is of one release with all files the updater
\* handles, its scripts among them; nothing is said of the files left out of its list.
THEOREM OneRelease == Spec => []SameRelease
<1>1. UpdateInv => SameRelease
  BY DEF UpdateInv, Releases, UpToDate, SameRelease, AllFiles
<1> QED
  BY <1>1, UpdateInvariant, PTL

\* ShouldUpdate compares the versions when the command is handled; what has become of
\* the releases, the bot and the files since then brings no older file back.
THEOREM NoneDowngrades == Spec => NeverDowngrades
<1> DEFINE Rises == Undisturbed => \A f \in AllFiles : installed'[f] >= installed[f]
<1>1. ASSUME UpdateInv, [Next]_vars  PROVE Rises
  <2> SUFFICES ASSUME Undisturbed, NEW f \in AllFiles  PROVE installed'[f] >= installed[f]
    OBVIOUS
  <2>1. TypeOK /\ installed[f] \in Nat
    BY <1>1 DEF UpdateInv, TypeOK, Versions
  <2>2. ASSUME NEW u \in Updates, Copy(u)  PROVE installed'[f] >= installed[f]
    <3> DEFINE g == Files[update[u].next]
    <3>1. /\ Active(u) /\ update[u].at = "copy" /\ files[g] # None
          /\ installed' = [installed EXCEPT ![g] = files[g]]
      BY <2>2 DEF Copy, At, Active
    <3>2. Fetched(u) /\ Copies(u) /\ update[u] \in Jobs
      BY <1>1, <3>1, Known DEF Undisturbed
    <3>3. g \in Names
      BY <3>2 DEF Jobs, Names
    <3>4. files[g] = update[u].to
      BY <3>1, <3>2, <3>3 DEF Fetched, InScript, BotDown
    <3>5. /\ update[u].from \in Nat /\ update[u].to \in Nat /\ update[u].from < update[u].to
          /\ installed[g] \in {update[u].from, update[u].to}
      BY <3>1, <3>2, <3>3 DEF Copies, Jobs, Versions
    <3>6. installed'[f] = IF f = g THEN update[u].to ELSE installed[f]
      BY <2>1, <3>1, <3>3, <3>4 DEF TypeOK
    <3> QED
      BY <2>1, <3>5, <3>6
  <2>3. CASE ~\E u \in Updates : Copy(u)
    <3>1. installed' = installed
      BY <1>1, <2>3 DEF Next, vars, disk, Release, Command, Check, CreateLock, CrashInLock, Goroutine,
            Download, Run, Clean, GiveUp, Script, Unmonitor, Stop, Kill, Stopped, CopyMissing, WriteNotify,
            Unlock, Monitor, Start, Fail, Restart, Crash, Reboot, Startup, Notify, RemoveUpdateDir
    <3> QED
      BY <2>1, <3>1
  <2> QED
    BY <2>2, <2>3
<1> QED
  BY <1>1, UpdateInvariant, PTL DEF Spec, NeverDowngrades

\* CheckAndSendNotify announces what notify.json says, written before by a script that has
\* copied every file the updater handles: these are of the release it names.  Those left
\* out of the updater's list are not meant, and are not.
THEOREM ToldIsTrue == Spec => ToldWhatIs
<1>1. ASSUME UpdateInv, [Next]_vars, bot.at = "starting", bot'.at = "told", Undisturbed
      PROVE  \A f \in AllFiles \ LeftOut : installed[f] = notify[2]
  <2>1. Up /\ notify # None
    <3>1. Up
      BY <1>1 DEF Up
    <3>2. Notify
      <4>1. CASE NewBot
        BY <1>1, <4>1, NewBotIs DEF UpdateInv
      <4>2. CASE bot' = bot \/ bot' = Down
        BY <1>1, <4>2 DEF Down
      <4>3. NewBot \/ bot' = bot \/ bot' = Down \/ Startup
        BY <1>1 DEF Next, vars, Release, Command, Check, CreateLock, CrashInLock, Goroutine, Download,
              Run, Clean, GiveUp, Script, Unmonitor, Stop, Kill, Stopped, Copy, CopyMissing, WriteNotify,
              Unlock, Monitor, Start, Fail, Restart, Crash, Reboot
      <4> QED
        BY <1>1, <4>1, <4>2, <4>3 DEF Startup, RemoveUpdateDir
    <3>3. notify # None
      <4>1. bot \in Bots
        BY <1>1, <3>1, UpIsBot DEF UpdateInv
      <4> QED
        BY <1>1, <3>2, <4>1 DEF Notify, Bots
    <3> QED
      BY <3>1, <3>3
  <2>2. ~Busy({"copy", "notify"})
    <3> SUFFICES ASSUME NEW u \in Updates, Active(u)  PROVE update[u].at \notin {"copy", "notify"}
      BY DEF Busy
    <3>1. Place(u)
      BY <1>1, Known DEF Undisturbed
    <3> QED
      BY <2>1, <3>1 DEF Place, Copied
  <2> QED
    BY <1>1, <2>1, <2>2 DEF UpdateInv, Releases, Noted, AllFiles
<1> QED
  BY <1>1, UpdateInvariant, PTL DEF Spec, ToldWhatIs
=============================================================================
