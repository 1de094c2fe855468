---------------------------- MODULE UpdateNotices ----------------------------
(****************************************************************************)
(* Who is told of a new release.  The bot records the chat each authorized  *)
(* user has written from last (chatstore), in memory and in chats.json; the *)
(* checker, a goroutine of its own, looks for a newer release at intervals  *)
(* and sends a notice to each active user who has not been told of it.      *)
(*                                                                          *)
(* The store's mutex makes each of its operations one step; between them    *)
(* the checker and the handling of messages interleave.                     *)
(****************************************************************************)
EXTENDS Naturals, Sequences, SequencesExt

CONSTANTS
    Users,     \* names, in the lower case the store and the authorization use
    Listed,    \* those of them allowed_users may list
    ChatsOf,   \* the chats each user writes from
    Newest,    \* versions are 1..Newest
    Limit,     \* versions remembered for each user (10)
    MayFail,   \* chats.json may fail to be written, or to be read
    MaxRuns,   \* bound: times the bot is started
    NoRecord,  \* no record
    Torn       \* a file that cannot be parsed

Versions == 1..Newest
Chats    == UNION {ChatsOf[u] : u \in Users}
Records  == [chat : Chats, active : BOOLEAN, notified : BoundedSeq(Versions, Limit)]
Stores   == [Users -> Records \cup {NoRecord}]
Empty    == [u \in Users |-> NoRecord]

ASSUME NoticeBounds ==
    /\ {Newest, Limit, MaxRuns} \subseteq Nat \ {0}
    /\ MayFail \in BOOLEAN /\ Listed \subseteq Users
ASSUME RecordAssumption == NoRecord \notin Records /\ Torn \notin Stores

VARIABLES
    latest,    \* the latest release
    current,   \* the version that runs
    allowed,   \* allowed_users, as read when the bot was started
    users,     \* the store in memory
    file,      \* chats.json
    checker,   \* what the checker is doing
    blocked,   \* chats whose owner has blocked the bot
    runs,      \* times the bot was started
    told,      \* history: the versions each user was told of
    again,     \* history: users told of a version they had been told of
    unmarked,  \* history: users for whom a notice sent was not recorded, or not for good
    unread,    \* history: chats.json could not be read when the bot was started
    refused,   \* history: users and chats, where a notice was refused since the user was
               \* recorded last
    stranded   \* history: users held inactive, if they are, by what is out of date

env   == <<latest, allowed, blocked>>
store == <<users, file>>
noticeGhost == <<told, again, unmarked, unread, refused, stranded>>
noticeVars  == <<env, current, store, checker, runs, noticeGhost>>

Idle == [at |-> "idle"]

NoticesInit ==
    /\ latest = 1 /\ current = 1
    /\ allowed \in SUBSET Listed
    /\ users = Empty /\ file = Empty
    /\ checker = Idle /\ blocked = {} /\ runs = 1
    /\ told = [u \in Users |-> {}] /\ again = {} /\ unmarked = {}
    /\ unread = FALSE /\ refused = {} /\ stranded = {}

-----------------------------------------------------------------------------
(* The store.                                                               *)

\* Faulty: chats.json is written in place.
SaveInPlace(s) ==
    /\ users' = s
    /\ \/ file' = s
       \/ MayFail /\ file' = Torn

\* A temporary file is written and renamed; a failure is logged, and memory keeps
\* what the file lacks until the next save.
Save(s) ==
    /\ users' = s
    /\ \/ file' = s
       \/ MayFail /\ UNCHANGED file

Read(f) == IF f = Torn THEN Empty ELSE f
Loaded  == Read(file)

RecordInteraction(u, c) ==
    Save([users EXCEPT ![u] = [chat |-> c, active |-> TRUE,
                               notified |-> IF @ = NoRecord THEN <<>> ELSE @.notified]])

\* Faulty: the oldest versions are kept.
FirstVersions(s) == SubSeq(s, 1, Limit)
LastVersions(s)  == IF Len(s) > Limit THEN SubSeq(s, Len(s) - Limit + 1, Len(s)) ELSE s

ActiveUsers == {u \in Users : users[u] # NoRecord /\ users[u].active}

IsNotified(u, v) == users[u] # NoRecord /\ Contains(users[u].notified, v)

MarkNotified(u, v) ==
    IF users[u] = NoRecord \/ IsNotified(u, v) THEN UNCHANGED store
    ELSE Save([users EXCEPT ![u].notified = LastVersions(Append(@, v))])

SetInactive(u) ==
    IF users[u] = NoRecord THEN UNCHANGED store
    ELSE Save([users EXCEPT ![u].active = FALSE])

-----------------------------------------------------------------------------
(* Messages.                                                                *)

IsAuthorized(u) == u \in allowed

Inactive(u) == users[u] # NoRecord /\ ~users[u].active

\* The check that runs has taken the chat of u, and is not through with it.
BeingTold(u) == \/ checker.at # "idle" /\ \E t \in checker.todo : t[1] = u
                \/ checker.at = "blocked" /\ checker.user = u

\* A user writes, from a chat where the bot is not blocked any more.  Strangers are
\* denied and not recorded.
Message(u, c) ==
    /\ blocked' = blocked \ {c}
    /\ IF IsAuthorized(u)
       THEN /\ RecordInteraction(u, c)
            /\ refused' = {t \in refused : t[1] # u}
            /\ stranded' = IF BeingTold(u) THEN stranded \cup {u} ELSE stranded \ {u}
       ELSE UNCHANGED <<store, refused, stranded>>
    /\ UNCHANGED <<latest, current, allowed, checker, runs, told, again, unmarked, unread>>

Block(c) ==
    /\ c \notin blocked /\ blocked' = blocked \cup {c}
    /\ UNCHANGED <<latest, current, allowed, store, checker, runs, noticeGhost>>

\* The owner, or a member of the group, lets the bot in again without writing.
Unblock(c) ==
    /\ c \in blocked /\ blocked' = blocked \ {c}
    /\ UNCHANGED <<latest, current, allowed, store, checker, runs, noticeGhost>>

Release ==
    /\ latest < Newest /\ latest' = latest + 1
    /\ UNCHANGED <<current, allowed, blocked, store, checker, runs, noticeGhost>>

-----------------------------------------------------------------------------
(* The checker.                                                             *)

\* checkOnce and GetActiveUsers.  A check that fails is left to the next tick.
Check ==
    /\ checker.at = "idle" /\ current < latest
    /\ checker' = [at |-> "next", version |-> latest,
                   todo |-> {<<u, users[u].chat>> : u \in ActiveUsers}]
    /\ UNCHANGED <<env, current, store, runs, noticeGhost>>

ToBeTold(u) == IsAuthorized(u) /\ ~IsNotified(u, checker.version)

With(t) == [checker EXCEPT !.todo = @ \ {t}]
Now(t, at) == [at |-> at, version |-> checker.version, todo |-> checker.todo \ {t}, user |-> t[1]]

Skip(t) ==
    /\ ~ToBeTold(t[1]) /\ checker' = With(t)
    /\ UNCHANGED <<env, current, store, runs, noticeGhost>>

\* Faulty: any error is taken for a blocked bot, or for none.
SendAllBlocked(t) ==
    /\ ToBeTold(t[1]) /\ checker' = Now(t, "blocked")
    /\ UNCHANGED <<env, current, store, runs, noticeGhost>>
SendErrorIgnored(t) ==
    /\ ToBeTold(t[1]) /\ checker' = Now(t, "sent")
    /\ UNCHANGED <<env, current, store, runs, noticeGhost>>

Delivered(u, v) == /\ told' = [told EXCEPT ![u] = @ \cup {v}]
                   /\ again' = IF v \in told[u] THEN again \cup {u} ELSE again

\* The notice goes to the chat known when the check began.
Send(t) ==
    LET u == t[1] v == checker.version IN
    /\ ToBeTold(u) /\ t[2] \notin blocked
    /\ checker' = Now(t, "sent")
    /\ Delivered(u, v)
    /\ UNCHANGED <<env, current, store, runs, unmarked, unread, refused, stranded>>
SendBlocked(t) ==
    /\ ToBeTold(t[1]) /\ t[2] \in blocked
    /\ checker' = Now(t, "blocked")
    /\ refused' = refused \cup {t}
    /\ UNCHANGED <<env, current, store, runs, told, again, unmarked, unread, stranded>>
\* Any other error: it is logged, and the next check tries again.  The notice may have
\* been delivered all the same, when it is the answer that was lost.
SendFails(t) ==
    /\ ToBeTold(t[1]) /\ checker' = With(t)
    /\ \/ UNCHANGED <<told, again, unmarked>>
       \/ /\ t[2] \notin blocked /\ Delivered(t[1], checker.version)
          /\ unmarked' = unmarked \cup {t[1]}
    /\ UNCHANGED <<env, current, store, runs, unread, refused, stranded>>

Continue == checker' = [at |-> "next", version |-> checker.version, todo |-> checker.todo]
Mark ==
    /\ checker.at = "sent"
    /\ MarkNotified(checker.user, checker.version) /\ Continue
    /\ UNCHANGED <<env, current, runs, noticeGhost>>
MarkInactive ==
    /\ checker.at = "blocked"
    /\ SetInactive(checker.user) /\ Continue
    /\ UNCHANGED <<env, current, runs, noticeGhost>>

EndCheck ==
    /\ checker.at = "next" /\ checker.todo = {} /\ checker' = Idle
    /\ UNCHANGED <<env, current, store, runs, noticeGhost>>

ForNext(Do(_)) == checker.at = "next" /\ \E t \in checker.todo : Do(t)

\* The process ends, by a signal or not, and is started again: with another list of
\* users, and with another version after an update.  A file that cannot be read is
\* taken for one that does not exist.
Restart ==
    /\ runs < MaxRuns /\ runs' = runs + 1
    /\ users' \in {Loaded} \cup (IF MayFail THEN {Empty} ELSE {})
    /\ checker' = Idle
    /\ allowed' \in SUBSET Listed /\ current' \in {current, latest}
    /\ unmarked' = unmarked \cup {u \in Users : \/ checker.at = "sent" /\ checker.user = u
                                               \/ users'[u] # users[u]}
    /\ stranded' = stranded \cup {u \in Users : users'[u] # users[u]}
    /\ unread' = (users' # Loaded)
    /\ UNCHANGED <<latest, blocked, file, told, again, refused>>

Tell == ForNext(Skip) \/ ForNext(Send) \/ ForNext(SendBlocked) \/ Mark \/ MarkInactive \/ EndCheck

NoticesNext ==
    \/ \E u \in Users : \E c \in ChatsOf[u] : Message(u, c)
    \/ \E c \in Chats : Block(c) \/ Unblock(c)
    \/ Release \/ Check \/ Tell \/ ForNext(SendFails) \/ Restart

NoticesSpec == NoticesInit /\ [][NoticesNext]_noticeVars

\* The server answers, with a delivery or with a refusal.
Reach(u) == /\ checker.at = "next"
            /\ \E t \in checker.todo : t[1] = u /\ (Send(t) \/ SendBlocked(t))

\* The ticker fires and the checker's goroutine runs on; a send that is tried again and
\* again reaches the server in the end.
Fairness == /\ WF_noticeVars(Check) /\ WF_noticeVars(Tell \/ ForNext(SendFails))
            /\ \A u \in Users : SF_noticeVars(Reach(u))

FairNotices == NoticesSpec /\ Fairness

-----------------------------------------------------------------------------
(* Properties.                                                              *)

\* Every variable keeps its type; in particular chats.json can always be read back.
NoticesTypeOK ==
    /\ latest \in Versions /\ current \in 1..latest
    /\ allowed \subseteq Listed /\ blocked \subseteq Chats
    /\ users \in Stores /\ file \in Stores
    /\ checker.at \in {"idle", "next", "sent", "blocked"}
    /\ runs \in 1..MaxRuns
    /\ told \in [Users -> SUBSET Versions]
    /\ again \subseteq Users /\ unmarked \subseteq Users /\ stranded \subseteq Users
    /\ unread \in BOOLEAN /\ refused \subseteq Users \X Chats

\* A user is told of a version once, however often the bot is restarted and although only
\* the last versions are remembered; but for a notice whose answer was lost, one that a
\* stop separates from its record, and a record that never reached the disk, or was
\* not read from there.
NotifiedOnce == again \subseteq unmarked

\* A user once recorded on the disk stays recorded: neither a write that fails nor a stop
\* in the middle of one costs the bot its users.  A start does that could not read the
\* file: the next save writes over all of them.
NobodyForgotten ==
    [][~unread => \A u \in Users : Loaded[u] # NoRecord => Loaded'[u] # NoRecord]_noticeVars

\* A user is left out of the notices only if one was refused in the chat the bot knows, and
\* nothing they have written since was recorded; also if the chat could be reached
\* again, which the bot does not find out by itself.  The exceptions are a message that
\* came while a check had the user in hand, and a disk that was behind.
InactiveWasRefused ==
    \A u \in Users : Inactive(u) /\ u \notin stranded => <<u, users[u].chat>> \in refused

Due(u) == /\ u \in allowed \cap ActiveUsers
          /\ current < latest /\ latest \notin told[u]

\* A user who can be told of a newer release is told, or stops being one to be told,
\* however often single sends fail.
EventuallyTold == \A u \in Users : []<>~Due(u)
=============================================================================
