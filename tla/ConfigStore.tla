----------------------------- MODULE ConfigStore -----------------------------
(****************************************************************************)
(* The files the programs in server/ share: vpn-director.json, servers.json *)
(* in a data directory named by the former, and xray/config.json.           *)
(*                                                                          *)
(* The web UI serves requests concurrently, under one mutex (Deps.OpMutex); *)
(* the bot is another process, handles one message at a time and knows      *)
(* nothing of that mutex.  Every operation loads a file, changes its copy   *)
(* and writes the whole file with os.WriteFile: truncated first, written    *)
(* next, so that others may read or write in between.                       *)
(****************************************************************************)
EXTENDS Naturals, Sequences

CONSTANTS
    Requests,   \* web requests at work at a time
    Bot,        \* the bot
    Clients,    \* addresses of clients
    Tunnels,    \* names of tunnels
    Excluded,   \* addresses excluded from the proxy
    Sets,       \* values of xray.exclude_sets
    Servers,    \* servers that can be imported
    Lists,      \* contents of servers.json: sequences of servers
    IPsOf,      \* the addresses of each server
    WebOps,     \* operations of the web UI: records with a field kind
    BotOps,     \* operations of the bot
    Xray,       \* the route that is not a tunnel
    Empty,      \* a file that has been truncated
    Mixed,      \* a file two writers have written over each other
    None,       \* no value: a file or a key that does not exist, nobody
    MayFail,    \* writes may fail, processes may be killed
    MaxOps      \* bound: operations started

WebKinds == {"add", "pause", "resume", "delete", "setExcludeSets", "addExcludeIP",
             "deleteExcludeIP", "select", "import", "script"}
BotKinds == {"botPause", "botResume", "botRemove", "botAdd", "exclude", "wizard",
             "xray", "import", "script"}

IPs == UNION {IPsOf[s] : s \in Servers}
Configs == [xray    : SUBSET Clients,                          \* xray.clients
            tunnels : [Tunnels -> {None} \cup SUBSET Clients], \* None: no such key
            paused  : SUBSET Clients,
            exips   : SUBSET Excluded,
            exsets  : Sets,
            servers : SUBSET IPs]                              \* xray.servers

ASSUME ActorAssumption == Bot \notin Requests /\ None \notin Requests \cup {Bot}
ASSUME FileAssumption  == {Empty, Mixed, None} \cap (Configs \cup Lists) = {}
                          /\ Empty # Mixed /\ None \notin {Empty, Mixed}
                          /\ \A S \in SUBSET Clients : S # None
ASSUME ListAssumption  == Lists \subseteq Seq(Servers)
ASSUME OpAssumption    == /\ \A o \in WebOps : o.kind \in WebKinds
                          /\ \A o \in BotOps : o.kind \in BotKinds
                          /\ None \notin WebKinds \cup BotKinds
\* What has been decoded and validated before an operation begins.
ASSUME InputAssumption ==
    \A o \in WebOps \cup BotOps :
        /\ o.kind \in {"add", "pause", "resume", "delete",
                       "botAdd", "botPause", "botResume", "botRemove"} => o.client \in Clients
        /\ o.kind \in {"add", "botAdd"} => o.route \in Tunnels \cup {Xray}
        /\ o.kind \in {"addExcludeIP", "deleteExcludeIP"} => o.ip \in Excluded
        /\ o.kind = "exclude" => o.ips \in SUBSET Excluded
        /\ o.kind = "setExcludeSets" => o.sets \in Sets
        /\ o.kind = "import" => o.list \in Lists
        /\ o.kind = "wizard" => /\ o.xray \in SUBSET Clients /\ o.exips \in SUBSET Excluded
                                /\ o.tunnels \in [Tunnels -> {None} \cup SUBSET Clients]
                                /\ o.exsets \in Sets
ASSUME BoundAssumption == MaxOps \in Nat /\ MayFail \in BOOLEAN

VARIABLES
    file,     \* vpn-director.json
    lists,    \* servers.json in the data directory and in the default one
    active,   \* the server in xray/config.json
    mutex,    \* who holds OpMutex
    pc,       \* next step of each request and of the bot, "idle" for none
    op,       \* its operation
    copy,     \* the configuration it has loaded
    found,    \* the server list it has loaded
    dir,      \* the directory it saves servers.json to
    started,  \* history: operations so far
    failed,   \* history: a write has failed, or a process was killed
    saved,    \* history: kind of the last operation that saved the configuration
    alone     \* history: the bot has done nothing yet

files  == <<file, lists, active>>
local  == <<op, copy, found, dir>>
ghost  == <<started, failed, saved, alone>>
vars   == <<files, mutex, pc, local, ghost>>

Actors == Requests \cup {Bot}
Dirs   == {"data", "default"}
NoOp   == [kind |-> "script"]

Readable == file \in Configs

-----------------------------------------------------------------------------
(* What the operations make of a configuration.                             *)

Keys(c)     == {t \in Tunnels : c.tunnels[t] # None}
RoutesOf(c, h) == {t \in Keys(c) : h \in c.tunnels[t]} \cup {r \in {Xray} : h \in c.xray}
IsClient(c, h) == RoutesOf(c, h) # {}

Join(c, h, t)  == [c EXCEPT !.tunnels[t] = (IF @ = None THEN {} ELSE @) \cup {h}]
Leave(c, h, T) == [c EXCEPT !.tunnels = [t \in Tunnels |-> IF t \in T THEN @[t] \ {h} ELSE @[t]]]

Added(c, h, r) == IF r = Xray THEN [c EXCEPT !.xray = @ \cup {h}] ELSE Join(c, h, r)
Paused(c, h)   == [c EXCEPT !.paused = @ \cup {h}]
Resumed(c, h)  == [c EXCEPT !.paused = @ \ {h}]

\* The web UI removes an address from every route.
Deleted(c, h) == Resumed(Leave([c EXCEPT !.xray = @ \ {h}], h, Keys(c)), h)

\* The bot removes it from the first route it finds: xray, then a tunnel.  Which
\* tunnel comes first is a matter of names.
Removed(c, h) ==
    IF h \in c.xray THEN {Resumed([c EXCEPT !.xray = @ \ {h}], h)}
    ELSE {Resumed(Leave(c, h, {t}), h) : t \in RoutesOf(c, h)}

AllIPs(list) == UNION {IPsOf[list[i]] : i \in DOMAIN list}

\* The wizard writes all routes, exclusions and server addresses anew, and leaves
\* the paused clients as they are.
Configured(c, o, list) ==
    [c EXCEPT !.xray = o.xray, !.tunnels = o.tunnels, !.exips = o.exips,
              !.exsets = o.exsets, !.servers = AllIPs(list)]

Updated(c, o, list) ==
    CASE o.kind = "add"                     -> {Added(c, o.client, o.route)}
      [] o.kind = "botAdd"                  -> {Added(c, o.client, o.route)}
      [] o.kind \in {"pause", "botPause"}   -> {Paused(c, o.client)}
      [] o.kind \in {"resume", "botResume"} -> {Resumed(c, o.client)}
      [] o.kind = "delete"                  -> {Deleted(c, o.client)}
      [] o.kind = "botRemove"               -> Removed(c, o.client)
      [] o.kind = "setExcludeSets"          -> {[c EXCEPT !.exsets = o.sets]}
      [] o.kind = "addExcludeIP"            -> {[c EXCEPT !.exips = @ \cup {o.ip}]}
      [] o.kind = "deleteExcludeIP"         -> {[c EXCEPT !.exips = @ \ {o.ip}]}
      [] o.kind = "exclude"                 -> {[c EXCEPT !.exips = o.ips]}
      [] o.kind = "select"                  -> {[c EXCEPT !.servers = IPsOf[list[o.index]]]}
      [] o.kind = "import"                  -> {[c EXCEPT !.servers = AllIPs(o.list)]}
      [] o.kind = "wizard"                  -> {Configured(c, o, list)}
      [] OTHER                              -> {c}

\* ... with any list it may have loaded.
ListsFor(o) == CASE o.kind = "select" -> {l \in Lists : o.index \in DOMAIN l}
                 [] o.kind = "wizard" -> Lists
                 [] OTHER             -> {<<>>}
Results(c, ops) == UNION {UNION {Updated(c, o, l) : l \in ListsFor(o)} : o \in ops}

\* The bot looks at what it has loaded before it changes it: the keyboard its user
\* pressed a button of may be old.
StillThere(c, o) ==
    CASE o.kind \in {"botPause", "botResume", "botRemove"} -> IsClient(c, o.client)
      [] o.kind = "botAdd" -> o.route = Xray \/ o.route \in Keys(c)
      [] OTHER             -> TRUE

-----------------------------------------------------------------------------
(* The order of the steps.                                                  *)

FirstOfBot(k) == CASE k = "xray"   -> "readList"
                   [] k = "import" -> "saveList"
                   [] k = "script" -> "script"
                   [] OTHER        -> "load"

\* Faulty: the mutex is taken for the import's second file only, or not for "add".
FirstImportUnlocked(k) == CASE k = "select" -> "readList" [] k = "import" -> "saveList" [] OTHER -> "lock"
FirstAddUnlocked(k)    == CASE k = "select" -> "readList" [] k = "add" -> "load" [] OTHER -> "lock"
FirstOfWeb(k) == IF k = "select" THEN "readList" ELSE "lock"

First(a, k) == IF a = Bot THEN FirstOfBot(k) ELSE FirstOfWeb(k)

After(k, at) ==
    CASE at = "lock"     -> (CASE k = "select" -> "generate"
                               [] k = "import" -> "saveList"
                               [] k = "script" -> "script"
                               [] OTHER        -> "load")
      [] at = "readList" -> (CASE k = "select" -> "lock"
                               [] k = "xray"   -> "generate"
                               [] OTHER        -> "save")
      [] at = "generate" -> (IF k = "select" THEN "load" ELSE "script")
      [] at = "load"     -> (IF k = "wizard" THEN "readList" ELSE "save")
      [] at = "write"    -> (CASE k = "wizard" -> "generate"
                               [] k \in {"select", "botPause", "botResume", "botRemove",
                                         "botAdd", "exclude"} -> "script"
                               [] OTHER -> "end")
      [] OTHER           -> "end"

Labels == {"idle", "lock", "readList", "generate", "load", "save", "write",
           "saveList", "writeList", "script", "end"}

At(a, l) == pc[a] = l
Goto(a, l) == pc' = [pc EXCEPT ![a] = l]
Step(a) == Goto(a, After(op[a].kind, pc[a]))

\* An error is answered at once; the deferred Unlock runs as the handler returns.
GiveUp(a) == Goto(a, "end")

-----------------------------------------------------------------------------
Init ==
    /\ file \in {c \in Configs : /\ c.exips = {} /\ c.paused = {}
                                 /\ c.servers = {} /\ c.xray = {}}
    /\ lists = [d \in Dirs |-> None]
    /\ active = None
    /\ mutex = None
    /\ pc = [a \in Actors |-> "idle"]
    /\ op = [a \in Actors |-> NoOp]
    /\ copy = [a \in Actors |-> None]
    /\ found = [a \in Actors |-> <<>>]
    /\ dir = [a \in Actors |-> "data"]
    /\ started = 0 /\ failed = FALSE /\ saved = None /\ alone = TRUE

Begin(a, o) ==
    /\ At(a, "idle") /\ started < MaxOps
    /\ op' = [op EXCEPT ![a] = o]
    /\ Goto(a, First(a, o.kind))
    /\ started' = started + 1
    /\ UNCHANGED <<files, mutex, copy, found, dir, failed, saved>>

\* A request has been decoded and validated; an import also downloaded, decoded and
\* its names resolved, with at least one server.
StartRequest(r) == (\E o \in WebOps : Begin(r, o)) /\ UNCHANGED alone

\* The bot's user has sent a command or pressed a button that is not answered from
\* the dialogue alone; the same for an import.
StartBot == (\E o \in BotOps : Begin(Bot, o)) /\ alone' = FALSE

Lock(a) ==
    /\ At(a, "lock") /\ mutex = None
    /\ mutex' = a
    /\ Step(a)
    /\ UNCHANGED <<files, local, ghost>>

\* Faulty: the error of LoadServers is not looked at.
ReadListUnchecked(a) ==
    /\ At(a, "readList")
    /\ found' = [found EXCEPT ![a] = lists["data"]]
    /\ Step(a)
    /\ UNCHANGED <<files, mutex, op, copy, dir, ghost>>

\* LoadServers: the configuration says where the list is; either may be unreadable.
\* An index out of its range ends the operation, except for the wizard's.
ReadList(a) ==
    LET list == lists["data"] IN
    /\ At(a, "readList")
    /\ \/ /\ ~Readable \/ list \notin Lists
          /\ GiveUp(a) /\ UNCHANGED found
       \/ /\ Readable /\ list \in Lists
          /\ op[a].kind \in {"select", "xray"} /\ op[a].index \notin DOMAIN list
          /\ GiveUp(a) /\ UNCHANGED found
       \/ /\ Readable /\ list \in Lists
          /\ op[a].kind \in {"select", "xray"} => op[a].index \in DOMAIN list
          /\ found' = [found EXCEPT ![a] = list]
          /\ Step(a)
    /\ UNCHANGED <<files, mutex, op, copy, dir, ghost>>

\* GenerateConfig; the wizard passes over an index out of range and over errors.
Generate(a) ==
    /\ At(a, "generate")
    /\ \/ /\ op[a].index \in DOMAIN found[a]
          /\ active' = found[a][op[a].index]
          /\ Step(a)
       \/ /\ MayFail \/ op[a].index \notin DOMAIN found[a]
          /\ IF op[a].kind = "wizard" THEN Step(a) ELSE GiveUp(a)
          /\ UNCHANGED active
    /\ UNCHANGED <<file, lists, mutex, local, ghost>>

Load(a) ==
    /\ At(a, "load")
    /\ \/ /\ Readable => ~StillThere(file, op[a])
          /\ GiveUp(a) /\ UNCHANGED copy
       \/ /\ Readable /\ StillThere(file, op[a])
          /\ copy' = [copy EXCEPT ![a] = file]
          /\ Step(a)
    /\ UNCHANGED <<files, mutex, op, found, dir, ghost>>

\* Faulty: returns between opening and writing.
SaveReturningEarly(a) ==
    /\ At(a, "save")
    /\ file' = Empty
    /\ Goto(a, "write") \/ GiveUp(a)
    /\ UNCHANGED <<lists, active, mutex, local, ghost>>

\* os.WriteFile truncates the file as it opens it, or fails to open it.
Save(a) ==
    /\ At(a, "save")
    /\ \/ file' = Empty /\ Goto(a, "write") /\ UNCHANGED <<copy, failed>>
       \/ /\ MayFail /\ failed' = TRUE
          /\ GiveUp(a) /\ copy' = [copy EXCEPT ![a] = None] /\ UNCHANGED file
    /\ UNCHANGED <<lists, active, mutex, op, found, dir, started, saved, alone>>

\* ... and writes from its start.  What the other process has written since then is
\* overwritten, and its end remains if it was longer.
Write(a) ==
    /\ At(a, "write")
    /\ \/ /\ \/ file' \in Updated(copy[a], op[a], found[a])
             \/ file # Empty /\ file' = Mixed
          /\ saved' = op[a].kind
          /\ Step(a) /\ UNCHANGED failed
       \/ /\ MayFail /\ failed' = TRUE
          /\ GiveUp(a) /\ UNCHANGED <<file, saved>>
    /\ copy' = [copy EXCEPT ![a] = None]
    /\ UNCHANGED <<lists, active, mutex, op, found, dir, started, alone>>

\* SaveServers: in the default directory when the configuration cannot be read.
SaveList(a) ==
    /\ At(a, "saveList")
    /\ LET d == IF Readable THEN "data" ELSE "default" IN
       \/ /\ lists' = [lists EXCEPT ![d] = Empty]
          /\ dir' = [dir EXCEPT ![a] = d]
          /\ Goto(a, "writeList") /\ UNCHANGED failed
       \/ /\ MayFail /\ failed' = TRUE
          /\ GiveUp(a) /\ UNCHANGED <<lists, dir>>
    /\ UNCHANGED <<file, active, mutex, op, copy, found, started, saved, alone>>

WriteList(a) ==
    /\ At(a, "writeList")
    /\ \/ /\ \/ lists' = [lists EXCEPT ![dir[a]] = op[a].list]
             \/ lists[dir[a]] # Empty /\ lists' = [lists EXCEPT ![dir[a]] = Mixed]
          /\ Goto(a, "load") /\ UNCHANGED failed
       \/ /\ MayFail /\ failed' = TRUE
          /\ GiveUp(a) /\ UNCHANGED lists
    /\ UNCHANGED <<file, active, mutex, local, started, saved, alone>>

\* vpn-director.sh runs to its end and is waited for; its status is reported.
Script(a) ==
    /\ At(a, "script")
    /\ Step(a)
    /\ UNCHANGED <<files, mutex, local, ghost>>

\* Faulty: no deferred Unlock.
EndWithoutUnlock(a) ==
    /\ At(a, "end")
    /\ Goto(a, "idle")
    /\ copy' = [copy EXCEPT ![a] = None]
    /\ op' = [op EXCEPT ![a] = NoOp]
    /\ UNCHANGED <<files, mutex, found, dir, ghost>>

End(a) ==
    /\ At(a, "end")
    /\ Goto(a, "idle")
    /\ mutex' = IF mutex = a THEN None ELSE mutex
    /\ copy' = [copy EXCEPT ![a] = None]
    /\ found' = [found EXCEPT ![a] = <<>>]
    /\ dir' = [dir EXCEPT ![a] = "data"]
    /\ op' = [op EXCEPT ![a] = NoOp]
    /\ UNCHANGED <<files, ghost>>

\* A process is killed: the web UI with all its requests, or the bot.
Kill(P) ==
    /\ MayFail /\ \E a \in P : pc[a] # "idle"
    /\ pc' = [a \in Actors |-> IF a \in P THEN "idle" ELSE pc[a]]
    /\ mutex' = IF mutex \in P THEN None ELSE mutex
    /\ copy' = [a \in Actors |-> IF a \in P THEN None ELSE copy[a]]
    /\ found' = [a \in Actors |-> IF a \in P THEN <<>> ELSE found[a]]
    /\ dir' = [a \in Actors |-> IF a \in P THEN "data" ELSE dir[a]]
    /\ op' = [a \in Actors |-> IF a \in P THEN NoOp ELSE op[a]]
    /\ failed' = TRUE
    /\ UNCHANGED <<files, started, saved, alone>>

Handle(a) == \/ Lock(a) \/ ReadList(a) \/ Generate(a) \/ Load(a) \/ Save(a) \/ Write(a)
             \/ SaveList(a) \/ WriteList(a) \/ Script(a) \/ End(a)

Next == \/ \E r \in Requests : StartRequest(r)
        \/ StartBot
        \/ \E a \in Actors : Handle(a)
        \/ Kill(Requests) \/ Kill({Bot})

Spec == Init /\ [][Next]_vars

\* A handler that runs runs on; sync.Mutex hands itself to who has waited longest.
Fairness == \A a \in Actors : WF_vars(Handle(a)) /\ SF_vars(Lock(a))
FairSpec == Spec /\ Fairness

-----------------------------------------------------------------------------
(* Properties.                                                              *)

TypeOK ==
    /\ file \in Configs \cup {Empty, Mixed}
    /\ lists \in [Dirs -> Lists \cup {Empty, Mixed, None}]
    /\ active \in Servers \cup {None}
    /\ mutex \in Requests \cup {None}
    /\ pc \in [Actors -> Labels]
    /\ op \in [Actors -> WebOps \cup BotOps \cup {NoOp}]
    /\ copy \in [Actors -> Configs \cup {None}]
    /\ found \in [Actors -> Lists \cup {<<>>}]
    /\ dir \in [Actors -> Dirs]
    /\ started \in 0..MaxOps /\ {failed, alone} \subseteq BOOLEAN
    /\ saved \in WebKinds \cup BotKinds \cup {None}

\* However many requests the web UI serves at once, on the configuration file it
\* acts as one client that loads, changes and saves: no request ever saves over
\* what another one saved after it had loaded.  Only the bot can do that, and
\* it is one client too.
Holding == {r \in Requests : copy[r] # None}
WebCopy == IF Holding = {} THEN None ELSE copy[CHOOSE r \in Holding : TRUE]
Shared == INSTANCE TwoWriters WITH value <- file, web <- WebCopy, bot <- copy[Bot]
ActsAsTwoWriters == Shared!Spec

\* A configuration nobody can read is one that is being written, unless a write
\* was cut off or the web UI and the bot have written at the same time.
UnreadableWhy ==
    /\ file = Empty => failed \/ \E a \in Actors : At(a, "write")
    /\ file = Mixed => ~alone

\* As long as only the web UI is at work, the addresses kept from the proxy are
\* those of the servers on the list from the moment an import has ended: no other
\* import can come between the two files.
ImportIsWhole ==
    alone /\ ~failed /\ mutex = None /\ saved = "import"
       => Readable /\ lists["data"] \in Lists /\ file.servers = AllIPs(lists["data"])

\* Every request is answered and every message handled, whatever fails on the way,
\* and the mutex is given back: after the last operation everything comes to rest.
EveryoneAnswered == <>[](mutex = None /\ \A a \in Actors : At(a, "idle"))
=============================================================================
