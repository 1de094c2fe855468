---------------------------- MODULE BotConnection ----------------------------
(****************************************************************************)
(* The bot's process and its connection to Telegram: starting with retries, *)
(* directly or through a proxy with a fallback, fetching the updates,       *)
(* handling them one after the other, and ending.                           *)
(*                                                                          *)
(* A goroutine of the bot library fetches updates into a channel; asking    *)
(* for those from an offset on confirms the older ones, which Telegram then *)
(* forgets.  The main goroutine takes them from the channel and answers.    *)
(****************************************************************************)
EXTENDS Naturals, Sequences, SequencesExt

CONSTANTS
    Senders, Allowed,   \* who writes; those of them in allowed_users
    Buffer,             \* capacity of the channel (100)
    Answers,            \* messages a command is answered with
    MaxMessages,        \* bound: messages to the bot
    MaxStarts,          \* bound: times the process is started
    NoJob               \* no update at work

ASSUME ConnectionBounds ==
    /\ {Buffer, Answers, MaxMessages, MaxStarts} \subseteq Nat \ {0}
    /\ Allowed \subseteq Senders

RouteKinds == {"direct", "proxy", "fallback", "invalid"}
Tokens     == {"good", "bad", "missing"}
Network    == {"ok", "refused", "broken"}   \* no connection; one that breaks after the request

VARIABLES
    conf,       \* telegram-bot.json: proxy, proxy_fallback_direct and bot_token
    proxy, direct,   \* the two ways to Telegram
    inbox,      \* the senders of the messages to the bot, its index the update's number
    confirmed,  \* updates up to this one are confirmed to Telegram
    proc,       \* "off", "connecting", "running"
    offset,     \* the next update to ask for
    batch, channel,  \* updates fetched and not yet in the channel; updates in it
    job,        \* the update at work, and the answers left to send
    signal,     \* SIGINT or SIGTERM came
    starts,     \* times the process was started
    failed,     \* history: the process ended by itself with an error
    taken,      \* history: updates handled
    cut,        \* history: updates the process had fetched when it ended
    twice       \* history: a message was delivered twice for one call

surroundings == <<proxy, direct>>
memory == <<offset, batch, channel, job>>
connGhost == <<failed, taken, cut, twice>>
connVars  == <<conf, surroundings, inbox, confirmed, proc, memory, signal, starts, connGhost>>

NoMemory == offset' = 1 /\ batch' = <<>> /\ channel' = <<>> /\ job' = NoJob

ConnectionInit ==
    /\ conf \in [route : RouteKinds, token : Tokens]
    /\ proxy \in Network /\ direct \in Network
    /\ inbox = <<>> /\ confirmed = 0
    /\ proc = "off" /\ offset = 1 /\ batch = <<>> /\ channel = <<>> /\ job = NoJob
    /\ signal = FALSE /\ starts = 0
    /\ failed = FALSE /\ taken = {} /\ cut = {} /\ twice = FALSE

-----------------------------------------------------------------------------
(* Requests.  One attempt over a connection: how often the request reaches  *)
(* Telegram, and whether an answer comes back.                              *)

Attempt(way) == CASE way = "ok"      -> {[reaches |-> 1, answer |-> TRUE]}
                  [] way = "refused" -> {[reaches |-> 0, answer |-> FALSE]}
                  [] way = "broken"  -> {[reaches |-> n, answer |-> FALSE] : n \in 0..1}

\* Faulty: the direct way is tried after any error; it is never tried.
AnyError(error)  == error # "ok"
NoError(error)   == FALSE
IsDialError(error) == error = "refused"

\* fallbackTransport.RoundTrip.
RoundTrip ==
    IF conf.route = "direct" THEN Attempt(direct)
    ELSE IF conf.route = "fallback" /\ IsDialError(proxy)
    THEN {[reaches |-> p.reaches + d.reaches, answer |-> d.answer] :
             p \in Attempt(proxy), d \in Attempt(direct)}
    ELSE Attempt(proxy)

-----------------------------------------------------------------------------
(* Start.                                                                   *)

End(bad) ==
    /\ proc' = "off" /\ failed' = bad
    /\ cut' = cut \cup ToSet(batch) \cup ToSet(channel) \cup (IF job = NoJob THEN {} ELSE {job.update})
    /\ NoMemory
    /\ UNCHANGED <<conf, surroundings, inbox, confirmed, signal, starts, taken, twice>>

\* Without a token the process ends at once, and is content.
Start ==
    /\ proc = "off" /\ starts < MaxStarts /\ starts' = starts + 1
    /\ proc' = IF conf.token = "missing" THEN "off" ELSE "connecting"
    /\ signal' = FALSE /\ failed' = FALSE
    /\ UNCHANGED <<conf, surroundings, inbox, confirmed, memory, taken, cut, twice>>

\* Faulty: any error is permanent.
AnyIsPermanent(answered) == conf.route = "invalid" \/ ~answered \/ conf.token = "bad"
Permanent(answered)      == conf.route = "invalid" \/ (answered /\ conf.token = "bad")

\* Faulty: updates from before the start are passed over.
Latest      == Len(inbox) + 1
FirstOffset == 1

\* bot.New asks Telegram who the bot is; then the polling starts.
Connect ==
    /\ proc = "connecting"
    /\ \E a \in RoundTrip : a.answer /\ ~Permanent(a.answer)
    /\ proc' = "running" /\ offset' = FirstOffset
    /\ UNCHANGED <<conf, surroundings, inbox, confirmed, batch, channel, job, signal, starts, connGhost>>
GiveUp ==
    /\ proc = "connecting"
    /\ \E a \in RoundTrip : Permanent(a.answer)
    /\ End(TRUE)
\* A failed attempt is repeated after a while, for ever.
Retry ==
    /\ proc = "connecting"
    /\ \E a \in RoundTrip : ~a.answer /\ ~Permanent(a.answer)
    /\ UNCHANGED connVars
StopWaiting == proc = "connecting" /\ signal /\ End(TRUE)

-----------------------------------------------------------------------------
(* The library's goroutine.                                                 *)

\* A failed request is repeated after three seconds; that it was received confirms
\* updates all the same.
Poll ==
    /\ proc = "running" /\ batch = <<>>
    /\ \E a \in RoundTrip :
        /\ a.reaches > 0
        /\ confirmed' = IF offset - 1 > confirmed THEN offset - 1 ELSE confirmed
        /\ batch' = IF a.answer THEN [n \in 1..(Len(inbox) - confirmed') |-> confirmed' + n] ELSE <<>>
    /\ UNCHANGED <<conf, surroundings, inbox, proc, offset, channel, job, signal, starts, connGhost>>

\* Updates older than the offset are dropped; a full channel blocks.
Push ==
    /\ batch # <<>> /\ batch' = Tail(batch)
    /\ IF Head(batch) < offset THEN UNCHANGED <<offset, channel>>
       ELSE /\ Len(channel) < Buffer
            /\ channel' = Append(channel, Head(batch)) /\ offset' = Head(batch) + 1
    /\ UNCHANGED <<conf, surroundings, inbox, confirmed, proc, job, signal, starts, connGhost>>

-----------------------------------------------------------------------------
(* The loop of Run.                                                         *)

\* A stranger gets one answer, that access is denied.
Take ==
    /\ proc = "running" /\ job = NoJob /\ channel # <<>>
    /\ LET u == Head(channel) IN
       /\ job' = [update |-> u, left |-> IF inbox[u] \in Allowed THEN Answers ELSE 1]
       /\ taken' = taken \cup {u}
    /\ channel' = Tail(channel)
    /\ UNCHANGED <<conf, surroundings, inbox, confirmed, proc, offset, batch, signal, starts,
                   failed, cut, twice>>

\* An answer that cannot be sent is logged, and the handler goes on.
Answer ==
    /\ job # NoJob
    /\ \E a \in RoundTrip : twice' = (twice \/ a.reaches > 1)
    /\ job' = IF job.left = 1 THEN NoJob ELSE [job EXCEPT !.left = @ - 1]
    /\ UNCHANGED <<conf, surroundings, inbox, confirmed, proc, offset, batch, channel, signal, starts,
                   failed, taken, cut>>

\* With both ready, Go selects one of them.
Stop == proc = "running" /\ job = NoJob /\ signal /\ End(FALSE)

-----------------------------------------------------------------------------
(* The surroundings.                                                        *)

Write(s) ==
    /\ Len(inbox) < MaxMessages /\ inbox' = Append(inbox, s)
    /\ UNCHANGED <<conf, surroundings, confirmed, proc, memory, signal, starts, connGhost>>

\* The init script's signal, and ten seconds later its kill.
Signal ==
    /\ proc # "off" /\ ~signal /\ signal' = TRUE
    /\ UNCHANGED <<conf, surroundings, inbox, confirmed, proc, memory, starts, connGhost>>
Kill == proc # "off" /\ signal /\ End(FALSE)

Weather ==
    /\ \/ proxy' \in Network \ {proxy} /\ UNCHANGED direct
       \/ direct' \in Network \ {direct} /\ UNCHANGED proxy
    /\ UNCHANGED <<conf, inbox, confirmed, proc, memory, signal, starts, connGhost>>

Connecting == Connect \/ GiveUp \/ StopWaiting
ConnectionNext ==
    \/ Start \/ Connecting \/ Retry \/ Poll \/ Push \/ Take \/ Answer \/ Stop
    \/ (\E s \in Senders : Write(s)) \/ Signal \/ Kill \/ Weather

ConnectionSpec == ConnectionInit /\ [][ConnectionNext]_connVars

\* Goroutines run on, and of requests that are repeated while Telegram can be reached now
\* and then, one gets through in the end.
FairConnection ==
    /\ ConnectionSpec /\ WF_connVars(Push) /\ WF_connVars(Take) /\ WF_connVars(Answer)
    /\ SF_connVars(Connect) /\ SF_connVars(Poll /\ batch' # <<>>)

-----------------------------------------------------------------------------
(* Properties.                                                              *)

\* An answer the bot sends once is delivered at most once, also with two ways to
\* Telegram: the second one is tried only when the first cannot have been taken.
DeliveredOnce == ~twice

\* The bot does not give up for a network that does not work, at start or later: it ends
\* by itself only for a configuration that cannot work, or when it is told to.
NeverGivesUp == failed => signal \/ conf.route = "invalid" \/ conf.token = "bad"

\* A message Telegram has been told to forget was handled, is about to be, or was in the
\* memory of a process that ended; those written while the bot was off are not passed over.
NothingSkipped ==
    \A u \in 1..Len(inbox) :
        u < offset \/ u <= confirmed =>
            \/ u \in taken \cup cut
            \/ u \in ToSet(channel) \cup ToSet(batch)

\* A message is handled in the end, by a bot that is left running while Telegram can be
\* reached again and again - directly when the proxy refuses, if so configured.
Reachable == \/ conf.route = "direct" /\ direct = "ok"
             \/ conf.route \in {"proxy", "fallback"} /\ proxy = "ok"
             \/ conf.route = "fallback" /\ proxy = "refused" /\ direct = "ok"
Served ==
    []<>Reachable => \A u \in 1..MaxMessages :
        (u <= Len(inbox) /\ proc = "running" /\ ~signal) ~> (u \in taken \cup cut \/ signal)
=============================================================================
