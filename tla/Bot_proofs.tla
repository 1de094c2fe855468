------------------------------ MODULE Bot_proofs ------------------------------
(****************************************************************************)
(* Theorems about the Telegram bot, a part for each of its modules: the     *)
(* connection (BotConnection), the dialogues (BotDialogues) and the notices *)
(* of new releases (UpdateNotices), whatever the users, chats, addresses,   *)
(* messages and versions are, and however many.                             *)
(****************************************************************************)
EXTENDS BotConnection, BotDialogues, UpdateNotices, SequenceTheorems, TLAPS

-----------------------------------------------------------------------------
(****************************************************************************)
(* The connection.  Updates is the invariant that carries NothingSkipped:   *)
(* the updates fetched and not yet in the channel are always the next ones  *)
(* after both the offset and what Telegram was told to forget, so that none *)
(* lies between what is known and what is fetched; and without a process    *)
(* there is no memory.                                                      *)
(****************************************************************************)

Count == Len(inbox)

\* The last update that the next request confirms, or that was confirmed before.
Before == IF offset - 1 > confirmed THEN offset - 1 ELSE confirmed

ConnectionTypeOK ==
    /\ conf \in [route : RouteKinds, token : Tokens]
    /\ proxy \in Network /\ direct \in Network
    /\ inbox \in Seq(Senders) /\ confirmed \in 0..Count
    /\ proc \in {"off", "connecting", "running"}
    /\ offset \in 1..(Count + 1)
    /\ batch \in Seq(1..Count) /\ channel \in Seq(1..Count)
    /\ job = NoJob \/ job \in [update : 1..Count, left : Nat \ {0}]

Memoryless == proc # "running" => offset = 1 /\ batch = <<>> /\ channel = <<>> /\ job = NoJob
Contiguous == \A n \in DOMAIN batch : batch[n] = Before + n
Updates    == ConnectionTypeOK /\ Memoryless /\ Contiguous /\ NothingSkipped

-----------------------------------------------------------------------------
(* Sequences as sets.                                                       *)

LEMMA SetOfHeadTail ==
    ASSUME NEW S, NEW s \in Seq(S), s # <<>>
    PROVE  ToSet(s) = {Head(s)} \cup ToSet(Tail(s))
<1> DEFINE t == Tail(s)
<1>1. Len(s) \in Nat /\ Len(s) > 0 /\ DOMAIN s = 1..Len(s)
  OBVIOUS
<1>2. Head(s) = s[1] /\ DOMAIN t = 1..(Len(s) - 1) /\ \A n \in DOMAIN t : t[n] = s[n + 1]
  BY <1>1
<1> HIDE DEF t
<1>3. ASSUME NEW x \in ToSet(s)  PROVE x = Head(s) \/ x \in ToSet(t)
  <2>1. PICK n \in DOMAIN s : x = s[n]
    BY <1>3 DEF ToSet
  <2>2. n = 1 \/ (n - 1 \in DOMAIN t /\ s[n] = t[n - 1])
    BY <1>1, <1>2, <2>1
  <2> QED
    BY <1>2, <2>1, <2>2 DEF ToSet
<1>4. ASSUME NEW x \in ToSet(t)  PROVE x \in ToSet(s)
  <2>1. PICK n \in DOMAIN t : x = t[n]
    BY <1>4 DEF ToSet
  <2>2. n + 1 \in DOMAIN s /\ x = s[n + 1]
    BY <1>1, <1>2, <2>1
  <2> QED
    BY <2>2 DEF ToSet
<1>5. Head(s) \in ToSet(s)
  BY <1>1, <1>2 DEF ToSet
<1> QED
  BY <1>3, <1>4, <1>5 DEF t

LEMMA SetOfAppend ==
    ASSUME NEW S, NEW s \in Seq(S), NEW x \in S
    PROVE  ToSet(Append(s, x)) = ToSet(s) \cup {x}
<1> DEFINE t == Append(s, x)
<1>1. /\ Len(s) \in Nat /\ DOMAIN s = 1..Len(s) /\ DOMAIN t = 1..(Len(s) + 1)
      /\ t[Len(s) + 1] = x /\ \A n \in DOMAIN s : t[n] = s[n]
  OBVIOUS
<1> HIDE DEF t
<1>2. ASSUME NEW y \in ToSet(t)  PROVE y = x \/ y \in ToSet(s)
  <2>1. PICK n \in DOMAIN t : y = t[n]
    BY <1>2 DEF ToSet
  <2>2. n = Len(s) + 1 \/ n \in DOMAIN s
    BY <1>1, <2>1
  <2> QED
    BY <1>1, <2>1, <2>2 DEF ToSet
<1>3. ASSUME NEW y \in ToSet(s)  PROVE y \in ToSet(t)
  <2>1. PICK n \in DOMAIN s : y = s[n]
    BY <1>3 DEF ToSet
  <2>2. n \in DOMAIN t /\ y = t[n]
    BY <1>1, <2>1
  <2> QED
    BY <2>2 DEF ToSet
<1>4. x \in ToSet(t)
  <2>1. Len(s) + 1 \in DOMAIN t
    BY <1>1
  <2> QED
    BY <1>1, <2>1 DEF ToSet
<1> QED
  BY <1>2, <1>3, <1>4 DEF t

LEMMA SeqInLarger ==
    ASSUME NEW S, NEW T, S \subseteq T, NEW s \in Seq(S)
    PROVE  s \in Seq(T)
<1>1. Len(s) \in Nat /\ s \in [1..Len(s) -> S]
  OBVIOUS
<1>2. s \in [1..Len(s) -> T]
  BY <1>1
<1> QED
  BY <1>1, <1>2

LEMMA SetOfNone == ToSet(<<>>) = {}
BY DEF ToSet

-----------------------------------------------------------------------------
(* The connection: requests.                                                *)

\* One request reaches Telegram at most once: a refused connection does not carry it.
LEMMA OnceOverBothWays ==
    ASSUME conf \in [route : RouteKinds, token : Tokens], proxy \in Network, direct \in Network,
           NEW a \in RoundTrip
    PROVE  a.reaches \in 0..1
<1>1. ASSUME NEW way \in Network, NEW b \in Attempt(way)
      PROVE  b.reaches \in 0..1 /\ (way = "refused" => b.reaches = 0)
  BY <1>1 DEF Attempt, Network
<1>2. CASE conf.route = "direct"
  BY <1>1, <1>2 DEF RoundTrip
<1>3. CASE conf.route # "direct" /\ conf.route = "fallback" /\ IsDialError(proxy)
  <2>1. PICK p \in Attempt(proxy), d \in Attempt(direct) : a.reaches = p.reaches + d.reaches
    BY <1>3 DEF RoundTrip
  <2>2. p.reaches = 0 /\ d.reaches \in 0..1
    BY <1>1, <1>3, <2>1 DEF IsDialError
  <2> QED
    BY <2>1, <2>2
<1>4. CASE conf.route # "direct" /\ ~(conf.route = "fallback" /\ IsDialError(proxy))
  BY <1>1, <1>4 DEF RoundTrip
<1> QED
  BY <1>2, <1>3, <1>4

-----------------------------------------------------------------------------
(* The connection: updates.                                                 *)

LEMMA UpdatesInit == ConnectionInit => Updates
<1> SUFFICES ASSUME ConnectionInit  PROVE Updates
  OBVIOUS
<1>1. Count = 0 /\ inbox \in Seq(Senders) /\ <<>> \in Seq(1..Count)
  BY DEF ConnectionInit, Count
<1>2. ConnectionTypeOK
  BY <1>1 DEF ConnectionInit, ConnectionTypeOK
<1>3. NothingSkipped
  BY <1>1 DEF ConnectionInit, NothingSkipped, Count
<1> QED
  BY <1>2, <1>3 DEF ConnectionInit, Updates, Memoryless, Contiguous

\* The messages are Telegram's: they stay.  Only Write adds one.
LEMMA InboxKeeps ==
    ASSUME Updates, [ConnectionNext]_connVars, ~\E s \in Senders : Write(s)
    PROVE  inbox' = inbox
BY DEF ConnectionNext, connVars, memory, surroundings, connGhost, Start, Connecting, Connect, GiveUp, StopWaiting,
       Retry, Poll, Push, Take, Answer, Stop, End, Signal, Kill, Weather

LEMMA Later ==
    ASSUME NEW last \in Nat, NEW from \in 0..last, NEW n \in 1..(last - from)
    PROVE  from + n \in 1..last
OBVIOUS

LEMMA PollKeeps == ASSUME Updates, Poll  PROVE Updates'
<1> USE DEF Count
<1>1. PICK a \in RoundTrip :
        /\ confirmed' = Before
        /\ batch' = IF a.answer THEN [n \in 1..(Count - confirmed') |-> confirmed' + n] ELSE <<>>
  BY DEF Poll, Before
<1>2. /\ proc = "running" /\ batch = <<>>
      /\ inbox' = inbox /\ conf' = conf /\ proxy' = proxy /\ direct' = direct /\ proc' = proc
      /\ offset' = offset /\ channel' = channel /\ job' = job /\ taken' = taken /\ cut' = cut
  BY DEF Poll, surroundings, connGhost
<1>3. confirmed \in 0..Count /\ offset \in 1..(Count + 1) /\ Len(inbox) \in Nat
  BY DEF Updates, ConnectionTypeOK
<1>4. Before \in 0..Count /\ confirmed' \in 0..Count /\ Before' = confirmed'
  BY <1>1, <1>2, <1>3 DEF Before
<1>5. batch' \in Seq(1..Count) /\ \A n \in DOMAIN batch' : batch'[n] = confirmed' + n
  <2>1. CASE a.answer
    <3>1. Count - confirmed' \in Nat
      BY <1>3, <1>4
    <3>2. \A n \in 1..(Count - confirmed') : confirmed' + n \in 1..Count
      BY <1>3, <1>4, Later
    <3>3. batch' = [n \in 1..(Count - confirmed') |-> confirmed' + n]
      BY <1>1, <2>1
    <3> QED
      BY <3>1, <3>2, <3>3
  <2>2. CASE ~a.answer
    BY <1>1, <2>2
  <2> QED
    BY <2>1, <2>2
<1>6. ConnectionTypeOK'
  BY <1>2, <1>4, <1>5 DEF Updates, ConnectionTypeOK
<1>7. Memoryless' /\ Contiguous'
  BY <1>2, <1>4, <1>5 DEF Memoryless, Contiguous
<1>8. NothingSkipped'
  <2> SUFFICES ASSUME NEW u \in 1..Len(inbox), u < offset \/ u <= confirmed'
               PROVE  u \in taken \cup cut \/ u \in ToSet(channel)
    BY <1>2 DEF NothingSkipped
  <2>1. u < offset \/ u <= confirmed
    BY <1>1, <1>3 DEF Before
  <2> QED
    BY <1>2, <2>1, SetOfNone DEF Updates, NothingSkipped
<1> QED
  BY <1>6, <1>7, <1>8 DEF Updates

LEMMA PushKeeps == ASSUME Updates, Push  PROVE Updates'
<1> USE DEF Count
<1>1. /\ batch # <<>> /\ batch' = Tail(batch) /\ inbox' = inbox /\ confirmed' = confirmed
      /\ conf' = conf /\ proxy' = proxy /\ direct' = direct /\ proc' = proc
      /\ job' = job /\ taken' = taken /\ cut' = cut
  BY DEF Push, surroundings, connGhost
<1>2. /\ confirmed \in 0..Count /\ offset \in 1..(Count + 1) /\ Len(inbox) \in Nat
      /\ batch \in Seq(1..Count) /\ channel \in Seq(1..Count)
  BY DEF Updates, ConnectionTypeOK
<1>3. Before \in 0..Count /\ Before >= confirmed /\ Before >= offset - 1
  BY <1>2 DEF Before
<1>4. Head(batch) = Before + 1 /\ Head(batch) \in 1..Count
  <2>1. 1 \in DOMAIN batch /\ Head(batch) = batch[1] /\ batch[1] \in 1..Count
    BY <1>1, <1>2
  <2> QED
    BY <2>1 DEF Updates, Contiguous
<1>5. channel' = Append(channel, Head(batch)) /\ offset' = Head(batch) + 1
  <2>1. ~(Head(batch) < offset)
    BY <1>2, <1>3, <1>4
  <2> QED
    BY <2>1 DEF Push
<1>6. batch' \in Seq(1..Count) /\ channel' \in Seq(1..Count)
  BY <1>1, <1>2, <1>4, <1>5
<1>7. ConnectionTypeOK'
  <2>1. offset' \in 1..(Count + 1)
    BY <1>2, <1>4, <1>5
  <2> QED
    BY <1>1, <1>2, <1>6, <2>1 DEF Updates, ConnectionTypeOK
<1>8. Memoryless'
  BY <1>1 DEF Updates, Memoryless
<1>9. Contiguous'
  <2>1. Before' = Before + 1
    BY <1>1, <1>2, <1>3, <1>4, <1>5 DEF Before
  <2>2. \A n \in DOMAIN batch' : n + 1 \in DOMAIN batch /\ batch'[n] = batch[n + 1] /\ n \in Nat
    BY <1>1, <1>2
  <2>3. \A n \in DOMAIN batch' : batch'[n] = Before + (n + 1)
    BY <2>2 DEF Updates, Contiguous
  <2>4. \A n \in DOMAIN batch' : Before + (n + 1) = Before' + n
    BY <1>3, <2>1, <2>2
  <2> QED
    BY <2>3, <2>4 DEF Contiguous
<1>10. NothingSkipped'
  <2>1. ToSet(batch) = {Head(batch)} \cup ToSet(batch')
    BY <1>1, <1>2, SetOfHeadTail
  <2>2. ToSet(channel') = ToSet(channel) \cup {Head(batch)}
    BY <1>2, <1>4, <1>5, SetOfAppend
  <2> SUFFICES ASSUME NEW u \in 1..Len(inbox), u < offset' \/ u <= confirmed
               PROVE  \/ u \in taken \cup cut
                      \/ u \in ToSet(channel') \cup ToSet(batch')
    BY <1>1 DEF NothingSkipped
  <2>3. u = Head(batch) \/ u < offset \/ u <= confirmed
    BY <1>2, <1>3, <1>4, <1>5 DEF Before
  <2> QED
    BY <2>1, <2>2, <2>3 DEF Updates, NothingSkipped
<1> QED
  BY <1>7, <1>8, <1>9, <1>10 DEF Updates

LEMMA TakeKeeps == ASSUME Updates, Take  PROVE Updates'
<1> USE DEF Count
<1>1. /\ proc = "running" /\ channel # <<>> /\ channel' = Tail(channel)
      /\ inbox' = inbox /\ confirmed' = confirmed /\ conf' = conf /\ proxy' = proxy
      /\ direct' = direct /\ proc' = proc /\ offset' = offset /\ batch' = batch
      /\ taken' = taken \cup {Head(channel)} /\ cut' = cut
      /\ job' = [update |-> Head(channel),
                 left |-> IF inbox[Head(channel)] \in Allowed THEN Answers ELSE 1]
  BY DEF Take, surroundings, connGhost
<1>2. channel \in Seq(1..Count) /\ Head(channel) \in 1..Count /\ channel' \in Seq(1..Count)
  BY <1>1 DEF Updates, ConnectionTypeOK
<1>3. ConnectionTypeOK'
  <2>1. job' \in [update : 1..Count, left : Nat \ {0}]
    BY <1>1, <1>2, ConnectionBounds
  <2> QED
    BY <1>1, <1>2, <2>1 DEF Updates, ConnectionTypeOK
<1>4. Memoryless' /\ Contiguous'
  BY <1>1 DEF Updates, Memoryless, Contiguous, Before
<1>5. NothingSkipped'
  <2>1. ToSet(channel) = {Head(channel)} \cup ToSet(channel')
    BY <1>1, <1>2, SetOfHeadTail
  <2> QED
    BY <1>1, <2>1 DEF Updates, NothingSkipped
<1> QED
  BY <1>3, <1>4, <1>5 DEF Updates

\* A process that ends leaves what it had fetched to the history.
LEMMA EndKeeps == ASSUME Updates, NEW bad \in BOOLEAN, End(bad)  PROVE Updates'
<1> USE DEF Count
<1>1. /\ proc' = "off" /\ offset' = 1 /\ batch' = <<>> /\ channel' = <<>> /\ job' = NoJob
      /\ cut \cup ToSet(batch) \cup ToSet(channel) \subseteq cut' /\ taken' = taken
      /\ inbox' = inbox /\ confirmed' = confirmed /\ conf' = conf
      /\ proxy' = proxy /\ direct' = direct
  BY DEF End, NoMemory, surroundings
<1>2. confirmed \in 0..Count /\ Len(inbox) \in Nat /\ offset \in 1..(Count + 1)
  BY DEF Updates, ConnectionTypeOK
<1>3. <<>> \in Seq(1..Count) /\ 1 \in 1..(Count + 1)
  BY <1>2
<1>4. ConnectionTypeOK'
  BY <1>1, <1>2, <1>3 DEF Updates, ConnectionTypeOK
<1>5. Memoryless' /\ Contiguous'
  BY <1>1 DEF Memoryless, Contiguous
<1>6. NothingSkipped'
  <2> SUFFICES ASSUME NEW u \in 1..Len(inbox), u < 1 \/ u <= confirmed
               PROVE  u \in taken \cup cut'
    BY <1>1 DEF NothingSkipped
  <2>1. u <= confirmed
    OBVIOUS
  <2>2. u \in taken \cup cut \/ u \in ToSet(channel) \cup ToSet(batch)
    BY <2>1 DEF Updates, NothingSkipped
  <2> QED
    BY <1>1, <2>2
<1> QED
  BY <1>4, <1>5, <1>6 DEF Updates

\* A new message is neither confirmed nor asked for.
LEMMA WriteKeeps == ASSUME Updates, NEW s \in Senders, Write(s)  PROVE Updates'
<1>1. /\ inbox' = Append(inbox, s) /\ confirmed' = confirmed /\ offset' = offset
      /\ batch' = batch /\ channel' = channel /\ job' = job /\ proc' = proc /\ conf' = conf
      /\ proxy' = proxy /\ direct' = direct /\ taken' = taken /\ cut' = cut
  BY DEF Write, surroundings, memory, connGhost
<1>2. /\ inbox \in Seq(Senders) /\ Count \in Nat /\ confirmed \in 0..Count
      /\ offset \in 1..(Count + 1)
  BY DEF Updates, ConnectionTypeOK, Count
<1>3. inbox' \in Seq(Senders) /\ Count' = Count + 1
  BY <1>1, <1>2 DEF Count
<1>4. ConnectionTypeOK'
  <2>1. 1..Count \subseteq 1..Count'
    BY <1>2, <1>3
  <2>2. batch' \in Seq(1..Count') /\ channel' \in Seq(1..Count')
    BY <1>1, <2>1, SeqInLarger DEF Updates, ConnectionTypeOK
  <2>3. job' = NoJob \/ job' \in [update : 1..Count', left : Nat \ {0}]
    BY <1>1, <2>1 DEF Updates, ConnectionTypeOK
  <2>4. confirmed' \in 0..Count' /\ offset' \in 1..(Count' + 1)
    BY <1>1, <1>2, <1>3
  <2> QED
    BY <1>1, <1>3, <2>2, <2>3, <2>4 DEF Updates, ConnectionTypeOK
<1>5. Memoryless' /\ Contiguous'
  BY <1>1 DEF Updates, Memoryless, Contiguous, Before
<1>6. NothingSkipped'
  <2> SUFFICES ASSUME NEW u \in 1..Count', u < offset \/ u <= confirmed
               PROVE  \/ u \in taken \cup cut
                      \/ u \in ToSet(channel) \cup ToSet(batch)
    BY <1>1 DEF NothingSkipped, Count
  <2>1. u \in 1..Count
    BY <1>2, <1>3
  <2> QED
    BY <2>1 DEF Updates, NothingSkipped, Count
<1> QED
  BY <1>4, <1>5, <1>6 DEF Updates

\* The remaining steps leave the updates alone.
LEMMA OthersKeep ==
    ASSUME Updates, Start \/ Connect \/ Answer \/ Signal \/ Weather \/ UNCHANGED connVars
    PROVE  Updates'
<1> USE DEF Count
<1>1. /\ inbox' = inbox /\ confirmed' = confirmed /\ batch' = batch /\ channel' = channel
      /\ taken' = taken /\ cut' = cut /\ conf' = conf
  BY DEF Start, Connect, Answer, Signal, Weather, connVars, memory, connGhost
<1>2. offset' = offset
  BY DEF Updates, Memoryless, FirstOffset, Start, Connect, Answer, Signal, Weather, connVars, memory
<1>3. /\ proxy' \in {proxy} \cup Network /\ direct' \in {direct} \cup Network
      /\ proc' \in {proc, "off", "connecting", "running"}
  BY DEF Start, Connect, Answer, Signal, Weather, connVars, surroundings
<1>4. job' = NoJob \/ job' \in [update : 1..Count, left : Nat \ {0}]
  <2>1. CASE job' = job
    BY <2>1 DEF Updates, ConnectionTypeOK
  <2>2. CASE Answer
    <3>1. job # NoJob /\ job' = IF job.left = 1 THEN NoJob ELSE [job EXCEPT !.left = @ - 1]
      BY <2>2 DEF Answer
    <3>2. job \in [update : 1..Count, left : Nat \ {0}]
      BY <3>1 DEF Updates, ConnectionTypeOK
    <3> QED
      BY <3>1, <3>2
  <2>3. job' = job \/ Answer
    BY DEF Start, Connect, Signal, Weather, connVars, memory
  <2> QED
    BY <2>1, <2>2, <2>3
<1>5. ConnectionTypeOK'
  BY <1>1, <1>2, <1>3, <1>4 DEF Updates, ConnectionTypeOK
<1>6. Memoryless'
  BY <1>1, <1>2 DEF Updates, Memoryless, Start, Connect, Answer, Signal, Weather, connVars, memory
<1>7. Contiguous' /\ NothingSkipped'
  BY <1>1, <1>2 DEF Updates, Contiguous, Before, NothingSkipped
<1> QED
  BY <1>5, <1>6, <1>7 DEF Updates

LEMMA UpdatesInvariant == ConnectionSpec => []Updates
<1>1. ASSUME Updates, [ConnectionNext]_connVars  PROVE Updates'
  <2>1. CASE Poll
    BY <1>1, <2>1, PollKeeps
  <2>2. CASE Push
    BY <1>1, <2>2, PushKeeps
  <2>3. CASE Take
    BY <1>1, <2>3, TakeKeeps
  <2>4. CASE GiveUp \/ StopWaiting \/ Stop \/ Kill
    <3>1. PICK bad \in BOOLEAN : End(bad)
      BY <2>4 DEF GiveUp, StopWaiting, Stop, Kill
    <3> QED
      BY <1>1, <3>1, EndKeeps
  <2>5. CASE \E s \in Senders : Write(s)
    BY <1>1, <2>5, WriteKeeps
  <2>6. CASE Start \/ Connect \/ Answer \/ Signal \/ Weather \/ Retry \/ UNCHANGED connVars
    BY <1>1, <2>6, OthersKeep DEF Retry
  <2> QED
    BY <1>1, <2>1, <2>2, <2>3, <2>4, <2>5, <2>6 DEF ConnectionNext, Connecting
<1> QED
  BY UpdatesInit, <1>1, PTL DEF ConnectionSpec

-----------------------------------------------------------------------------
(* Theorems about the connection.                                           *)

\* The parts of the connection have their types, whatever is written, lost or stopped.
THEOREM ConnectionTypeCorrect == ConnectionSpec => []ConnectionTypeOK
<1>1. Updates => ConnectionTypeOK
  BY DEF Updates
<1> QED
  BY <1>1, UpdatesInvariant, PTL

\* No message is passed over: what getUpdates confirms by its offset was handled, waits
\* in the channel or in the library's goroutine, or was lost with a process that ended.
THEOREM NoneIsSkipped == ConnectionSpec => []NothingSkipped
<1>1. Updates => NothingSkipped
  BY DEF Updates
<1> QED
  BY <1>1, UpdatesInvariant, PTL

\* fallbackTransport takes the second way only when the first one was refused, so what
\* the bot sends once is delivered at most once.
THEOREM NoneIsDoubled == ConnectionSpec => []DeliveredOnce
<1>1. ConnectionInit => DeliveredOnce
  BY DEF ConnectionInit, DeliveredOnce
<1>2. ASSUME DeliveredOnce, ConnectionTypeOK, [ConnectionNext]_connVars  PROVE DeliveredOnce'
  <2>1. CASE Answer
    <3>1. PICK a \in RoundTrip : twice' = (twice \/ a.reaches > 1)
      BY <2>1 DEF Answer
    <3>2. ~(a.reaches > 1)
      <4>1. a.reaches \in 0..1
        BY <1>2, OnceOverBothWays DEF ConnectionTypeOK
      <4> QED
        BY <4>1
    <3> QED
      BY <1>2, <3>1, <3>2 DEF DeliveredOnce
  <2>2. CASE ~Answer
    <3>1. twice' = twice
      BY <1>2, <2>2 DEF ConnectionNext, connVars, connGhost, Start, Connecting, Connect, GiveUp, StopWaiting, Retry,
            Poll, Push, Take, Stop, End, Write, Signal, Kill, Weather
    <3> QED
      BY <1>2, <3>1 DEF DeliveredOnce
  <2> QED
    BY <2>1, <2>2
<1> QED
  BY <1>1, <1>2, ConnectionTypeCorrect, PTL DEF ConnectionSpec

\* The start and the loop of Run end with an error only for a configuration that cannot
\* work or a signal: no state of the network, however long it lasts, ends the bot.
THEOREM NetworkEndsNothing == ConnectionSpec => []NeverGivesUp
<1>1. ConnectionInit => NeverGivesUp
  BY DEF ConnectionInit, NeverGivesUp
<1>2. ASSUME NeverGivesUp, [ConnectionNext]_connVars  PROVE NeverGivesUp'
  <2>1. CASE GiveUp
    <3>1. conf.route = "invalid" \/ conf.token = "bad"
      BY <2>1 DEF GiveUp, Permanent
    <3>2. conf' = conf
      BY <2>1 DEF GiveUp, End
    <3> QED
      BY <3>1, <3>2 DEF NeverGivesUp
  <2>2. CASE StopWaiting
    <3>1. signal'
      BY <2>2 DEF StopWaiting, End
    <3> QED
      BY <3>1 DEF NeverGivesUp
  <2>3. CASE Start \/ Stop \/ Kill
    <3>1. ~failed'
      BY <2>3 DEF Start, Stop, Kill, End
    <3> QED
      BY <3>1 DEF NeverGivesUp
  <2>4. CASE ~(GiveUp \/ StopWaiting \/ Start \/ Stop \/ Kill)
    <3>1. failed' = failed /\ conf' = conf /\ (signal' = signal \/ signal')
      BY <1>2, <2>4 DEF ConnectionNext, connVars, connGhost, memory, Connecting, Connect, Retry, Poll, Push, Take,
            Answer, Write, Signal, Weather
    <3> QED
      BY <1>2, <3>1 DEF NeverGivesUp
  <2> QED
    BY <2>1, <2>2, <2>3, <2>4
<1> QED
  BY <1>1, <1>2, PTL DEF ConnectionSpec

-----------------------------------------------------------------------------
(****************************************************************************)
(* The dialogues.  As long as the user presses buttons of the last message  *)
(* only, the keyboard shown last tells which dialogue is in session, and    *)
(* that no other one is; and the address that waits for a route has none,   *)
(* unless it was given one from elsewhere.  Whatever is pressed, the        *)
(* keyboard that applies stands below a summary of what the wizard holds.   *)
(****************************************************************************)

\* The wizard and /exclude are never in session together.
OneSession == wizard = None \/ exclude = None

\* Unless something came between, the keyboard shown last belongs to the session.
Foremost ==
    ~disturbed =>
        /\ wizard # None => board \in WizardBoards \cup {None} /\ adding = None
        /\ exclude # None => board \in {"exclude", None} /\ adding = None

\* The keyboard that applies is shown below a summary that is still true: in the step
\* of the confirmation, no other button does anything.
SummaryTrue ==
    board = "confirm" /\ wizard # None =>
        /\ wizard.step = "confirm" /\ shown # None
        /\ shown.server = ServerAt(shown.list, wizard.server)
        /\ shown.countries = wizard.countries /\ shown.clients = wizard.clients

\* The address that waits for a route had none when it was typed, and has none now.
Routeless ==
    ~disturbed /\ "clients" \notin others /\ adding \in Addresses => RoutesOf(adding) = {}

DialoguesInv ==
    OneSession /\ NothingTakenBack /\ Foremost /\ SummaryTrue /\ ConfirmedFirst /\ Routeless

-----------------------------------------------------------------------------
(* The dialogues: buttons.                                                  *)

\* A button belongs to the dialogue whose keyboard shows it, and tells which one that is.
LEMMA ShownBy ==
    ASSUME NEW k, NEW b \in ButtonsOn(k)
    PROVE  /\ b.of = "wizard"  => k \in WizardBoards
           /\ b.of = "exclude" => k = "exclude"
           /\ b.of = "clients" => k \in {"list", "remove", "route"}
           /\ b.act = "apply"  => k = "confirm"
           /\ b.act \in {"clientAdd", "clientDel", "clientDone"} => k = "clients"
<1> USE DEF Button, ButtonOf
<1>1. CASE b = Button("wizard", "cancel") /\ k \in WizardBoards
  BY <1>1 DEF WizardBoards
<1>2. CASE b \in OnBoard(k)
  <2>1. CASE k = "server"
    BY <1>2, <2>1 DEF OnBoard, WizardBoards
  <2>2. CASE k = "exclusions"
    BY <1>2, <2>2 DEF OnBoard, WizardBoards
  <2>3. CASE k = "exclude_ips"
    BY <1>2, <2>3 DEF OnBoard, WizardBoards
  <2>4. CASE k = "clients"
    BY <1>2, <2>4 DEF OnBoard, WizardBoards
  <2>5. CASE k = "client_route"
    BY <1>2, <2>5 DEF OnBoard, WizardBoards
  <2>6. CASE k = "confirm"
    BY <1>2, <2>6 DEF OnBoard, WizardBoards
  <2>7. CASE k = "exclude"
    BY <1>2, <2>7 DEF OnBoard
  <2>8. CASE k = "list"
    BY <1>2, <2>8 DEF OnBoard
  <2>9. CASE k = "remove"
    BY <1>2, <2>9 DEF OnBoard
  <2>10. CASE k = "route"
    BY <1>2, <2>10 DEF OnBoard
  <2>11. CASE k \notin {"server", "exclusions", "exclude_ips", "clients", "client_route",
                        "confirm", "exclude", "list", "remove", "route"}
    BY <1>2, <2>11 DEF OnBoard
  <2> QED BY <2>1, <2>2, <2>3, <2>4, <2>5, <2>6, <2>7, <2>8, <2>9, <2>10, <2>11
<1> QED BY <1>1, <1>2 DEF ButtonsOn

\* A button pressed since the last command without disturbing is on the last keyboard.
LEMMA Undisturbed ==
    ASSUME NEW b, Press(b), ~disturbed'
    PROVE  ~disturbed /\ b \in ButtonsOn(board)
BY DEF Press

-----------------------------------------------------------------------------
(* The dialogues: what the handlers do.                                     *)

\* A button of the wizard opens no session, and shows a keyboard of the wizard or none.
\* Only apply touches the configuration; whatever leads to the keyboard that applies shows
\* a summary with it, or finds it there and changes nothing.
LEMMA WizardPressed ==
    ASSUME NEW b, PressWizard(b)
    PROVE  /\ UNCHANGED <<exclude, adding, others, opened>> /\ (wizard' # None => wizard # None)
           /\ board' \in WizardBoards \cup {board}
           /\ PressApply \/ (UNCHANGED <<clients, exips>> /\ applied' = None)
           /\ board' = "confirm" /\ wizard' # None =>
                 \/ wizard' = Goto(wizard, "confirm") /\ shown' = Summary(wizard)
                 \/ board = "confirm" /\ shown' = shown
                    /\ (wizard.step = "confirm" => wizard' = wizard)
<1> USE DEF WizardBoards, In, InClients, Nothing, Wizard, WizardShows, WizardSays, NoneApplied, config
<1>1. CASE b.act = "server" /\ PressServer(b.arg)
  BY <1>1 DEF PressServer
<1>2. CASE b.act = "excl" /\ PressCountry(b.arg)
  BY <1>2 DEF PressCountry
<1>3. CASE b.act = "exclDone" /\ PressCountriesDone
  BY <1>3 DEF PressCountriesDone
<1>4. CASE b.act = "rm" /\ PressRemoveIP(b.arg)
  BY <1>4 DEF PressRemoveIP
<1>5. CASE b.act = "add" /\ PressAddIP
  BY <1>5 DEF PressAddIP
<1>6. CASE b.act = "done" /\ PressIPsDone
  BY <1>6 DEF PressIPsDone
<1>7. CASE b.act = "clientAdd" /\ PressClientAdd
  BY <1>7 DEF PressClientAdd
<1>8. CASE b.act = "clientDel" /\ PressClientDel
  BY <1>8 DEF PressClientDel
<1>9. CASE b.act = "clientDone" /\ PressClientDone
  BY <1>9 DEF PressClientDone
<1>10. CASE b.act = "route" /\ PressRoute(b.arg)
  BY <1>10 DEF PressRoute, Accept
<1>11. CASE b.act = "apply" /\ PressApply
  BY <1>11 DEF PressApply
<1>12. CASE b.act = "cancel" /\ PressCancel
  BY <1>12 DEF PressCancel
<1>13. CASE ~Handled(b) /\ Nothing
  BY <1>13
<1> QED BY <1>1, <1>2, <1>3, <1>4, <1>5, <1>6, <1>7, <1>8, <1>9, <1>10, <1>11, <1>12, <1>13
        DEF PressWizard

\* The server an index names is one of the list.
LEMMA ServerNamed ==
    ASSUME NEW list \in ServerLists, NEW i
    PROVE  ServerAt(list, i) \in Servers \cup {None}
<1>1. ToSet(list) \subseteq Servers
  BY DEF Servers
<1>2. i \in DOMAIN list => list[i] \in ToSet(list)
  BY DEF ToSet
<1> QED BY <1>1, <1>2 DEF ServerAt

\* What the summary says, if the session is one.
LEMMA SummarySays ==
    ASSUME DialoguesTypeOK, wizard # None
    PROVE  /\ Summary(wizard) \in Summaries
           /\ Summary(wizard).list \in ServerLists
           /\ Summary(wizard).server = ServerAt(Summary(wizard).list, wizard.server)
           /\ Summary(wizard).countries = wizard.countries
           /\ Summary(wizard).clients = wizard.clients
           /\ LET w == Goto(wizard, "confirm") IN
              w.step = "confirm" /\ w.server = wizard.server
              /\ w.countries = wizard.countries /\ w.clients = wizard.clients
<1>1. ServerAt(servers, wizard.server) \in Servers \cup {None} /\ servers \in ServerLists
  BY ServerNamed DEF DialoguesTypeOK
<1> QED BY <1>1 DEF DialoguesTypeOK, Summary, Summaries, Goto

LEMMA WizardStep ==
    ASSUME DialoguesTypeOK, DialoguesInv, NEW b, Press(b), b.of = "wizard"
    PROVE  DialoguesInv'
<1>1. PressWizard(b) /\ disturbed' = (disturbed \/ b \notin ButtonsOn(board))
  BY DEF Press
<1>2. ~disturbed' => ~disturbed /\ board \in WizardBoards
  BY Undisturbed, ShownBy
<1> USE DEF DialoguesInv
<1>3. OneSession' /\ NothingTakenBack'
  <2>1. exclude' # None => exips' = exips
    BY <1>1, WizardPressed DEF OneSession, PressApply
  <2> QED BY <1>1, <2>1, WizardPressed DEF OneSession, NothingTakenBack
<1>4. Foremost'
  BY <1>1, <1>2, WizardPressed, KeyboardAssumption DEF Foremost, Keyboards, WizardBoards
<1>5. SummaryTrue'
  <2> SUFFICES ASSUME board' = "confirm", wizard' # None
               PROVE  /\ wizard'.step = "confirm" /\ shown' # None
                      /\ shown'.server = ServerAt(shown'.list, wizard'.server)
                      /\ shown'.countries = wizard'.countries /\ shown'.clients = wizard'.clients
    BY DEF SummaryTrue, ServerAt
  <2>1. wizard # None
    BY <1>1, WizardPressed
  <2>2. CASE wizard' = Goto(wizard, "confirm") /\ shown' = Summary(wizard)
    BY <2>1, <2>2, SummarySays, KeyboardAssumption
  <2>3. CASE board = "confirm" /\ shown' = shown /\ (wizard.step = "confirm" => wizard' = wizard)
    BY <2>1, <2>3 DEF SummaryTrue
  <2> QED BY <1>1, <2>2, <2>3, WizardPressed
<1>6. ConfirmedFirst'
  <2>1. CASE applied' = None
    BY <2>1 DEF ConfirmedFirst
  <2>2. CASE PressApply /\ applied' # None
    <3>1. PICK server \in {ServerAt(servers, wizard.server), None} :
             applied' = [board |-> board, said |-> shown, list |-> servers, server |-> server,
                         countries |-> SavedCountries(wizard.countries), clients |-> clients']
      BY <2>2 DEF PressApply
    <3>2. /\ applied'.board = board /\ applied'.said = shown /\ applied'.list = servers
          /\ applied'.server = server /\ applied'.countries = SavedCountries(wizard.countries)
          /\ applied'.clients = clients'
      BY <3>1
    <3>3. clients' = SavedClients(wizard.clients) /\ wizard # None
      BY <2>2 DEF PressApply
    <3> SUFFICES ASSUME board = "confirm"
                 PROVE  /\ shown # None
                        /\ clients' = SavedClients(shown.clients)
                        /\ applied'.countries = SavedCountries(shown.countries)
                        /\ server \in {shown.server, None} \/ servers # shown.list
      BY <3>2 DEF ConfirmedFirst, SavedClients, SavedCountries
    <3> QED BY <3>2, <3>3 DEF SummaryTrue
  <2> QED BY <1>1, <2>1, <2>2, WizardPressed
<1>7. Routeless'
  <2> SUFFICES ASSUME ~disturbed', "clients" \notin others', adding' \in Addresses
               PROVE  RoutesOf(adding)' = {}
    BY DEF Routeless
  <2>1. adding' = adding /\ others' = others /\ ~disturbed
    BY <1>1, <1>2, WizardPressed
  <2>2. wizard = None
    BY <2>1, TextAssumption DEF Foremost
  <2>3. clients' = clients
    BY <1>1, <2>2, WizardPressed DEF PressApply
  <2> QED BY <2>1, <2>3 DEF Routeless, RoutesOf
<1> QED BY <1>3, <1>4, <1>5, <1>6, <1>7

\* A step that leaves the wizard alone, and shows no keyboard that applies, keeps the summary.
LEMMA SummaryStays ==
    ASSUME SummaryTrue, wizard' \in {wizard, None}, NoneApplied, board' = "confirm" => board = "confirm"
    PROVE  SummaryTrue' /\ ConfirmedFirst'
<1>1. ConfirmedFirst'
  BY DEF NoneApplied, ConfirmedFirst
<1>2. CASE wizard' = None \/ board' # "confirm"
  BY <1>1, <1>2 DEF SummaryTrue
<1>3. CASE wizard' # None /\ board' = "confirm"
  <2>1. wizard' = wizard /\ shown' = shown /\ board = "confirm"
    BY <1>3 DEF NoneApplied
  <2> QED BY <1>1, <1>3, <2>1 DEF SummaryTrue, ServerAt
<1> QED BY <1>1, <1>2, <1>3

LEMMA ExcludeStep ==
    ASSUME DialoguesInv, NEW b, Press(b), b.of = "exclude"
    PROVE  DialoguesInv'
<1>1. PressExclude(b) /\ disturbed' = (disturbed \/ b \notin ButtonsOn(board))
  BY DEF Press
<1>2. ~disturbed' => ~disturbed /\ board = "exclude"
  BY Undisturbed, ShownBy
<1>3. /\ UNCHANGED <<wizard, adding, clients, others>> /\ NoneApplied
      /\ board' \in {"exclude", board}
      /\ \/ exclude' = None
         \/ exclude # None /\ UNCHANGED <<exips, opened>>
  BY <1>1 DEF PressExclude, Exclude, Nothing, config
<1>4. SummaryTrue' /\ ConfirmedFirst'
  BY <1>3, SummaryStays DEF DialoguesInv
<1> QED
  BY <1>2, <1>3, <1>4, KeyboardAssumption, TextAssumption
  DEF DialoguesInv, OneSession, NothingTakenBack, Foremost, Routeless, RoutesOf, WizardBoards,
      Keyboards

LEMMA ClientsStep ==
    ASSUME DialoguesInv, NEW b, Press(b), b.of = "clients"
    PROVE  DialoguesInv'
<1>1. PressClients(b) /\ disturbed' = (disturbed \/ b \notin ButtonsOn(board))
  BY DEF Press
<1>2. ~disturbed' => ~disturbed /\ board \in {"list", "remove", "route"}
  BY Undisturbed, ShownBy
<1>3. /\ UNCHANGED <<wizard, exclude, exips, others, opened>> /\ NoneApplied
      /\ adding' \in {None, ""} \/ (adding' = adding /\ clients' \subseteq clients)
      /\ board' \in {"list", "remove", None, board}
  <2> USE DEF Clients, Nothing, config
  <2>1. CASE b.act = "remove" /\ PressRemove(b.arg)
    BY <2>1 DEF PressRemove
  <2>2. CASE b.act = "rm_yes" /\ PressRemoveYes(b.arg)
    BY <2>2 DEF PressRemoveYes
  <2>3. CASE b.act = "rm_no" /\ Clients(adding, clients, "list")
    BY <2>3
  <2>4. CASE b.act = "pause" /\ PressPause
    BY <2>4 DEF PressPause
  <2>5. CASE b.act = "add" /\ PressAdd
    BY <2>5 DEF PressAdd
  <2>6. CASE b.act = "close" /\ PressClose
    BY <2>6 DEF PressClose
  <2>7. CASE b.act = "route" /\ PressAddRoute(b.arg)
    BY <2>7 DEF PressAddRoute
  <2>8. CASE b.act = "routeCancel" /\ Clients(None, clients, "list")
    BY <2>8
  <2> QED BY <1>1, <2>1, <2>2, <2>3, <2>4, <2>5, <2>6, <2>7, <2>8 DEF PressClients
<1>4. ~disturbed' => wizard = None /\ exclude = None
  BY <1>2, KeyboardAssumption DEF DialoguesInv, Foremost, WizardBoards, Keyboards
<1>5. Routeless'
  BY <1>2, <1>3, TextAssumption DEF DialoguesInv, Routeless, RoutesOf
<1>6. SummaryTrue' /\ ConfirmedFirst'
  BY <1>3, SummaryStays, KeyboardAssumption DEF DialoguesInv, Keyboards, WizardBoards
<1> QED
  BY <1>3, <1>4, <1>5, <1>6 DEF DialoguesInv, OneSession, NothingTakenBack, Foremost

LEMMA CommandStep ==
    ASSUME DialoguesInv, Configure \/ ExcludeCommand \/ ClientsCommand
    PROVE  DialoguesInv'
<1>1. /\ OneSession' /\ adding' = None /\ UNCHANGED <<exips, clients>> /\ applied' = None
      /\ exclude' # None => \/ exclude' = exips /\ opened' = exips
                            \/ UNCHANGED <<exclude, others, opened>>
      /\ wizard' # None  => board' \in {"server", None}
      /\ exclude' # None => board' \in {"exclude", None}
  BY DEF Configure, ExcludeCommand, ClientsCommand, Command, Fails, Shows, OneSession, config
<1> QED
  BY <1>1, KeyboardAssumption, TextAssumption
  DEF DialoguesInv, NothingTakenBack, Foremost, SummaryTrue, ConfirmedFirst, Routeless,
      WizardBoards, Keyboards

\* A text reaches the dialogues in session only, and the first that shows a keyboard is
\* the one it belongs to.
LEMMA TextStep ==
    ASSUME DialoguesInv, NEW x \in Texts, Text(x)
    PROVE  DialoguesInv'
<1>1. PICK c \in ClientsText(x) :
         /\ adding' = c[1] /\ exclude' = ExcludeText(x)[1] /\ wizard' = WizardText(x)[1]
         /\ board' = IF WizardText(x)[2] # None THEN WizardText(x)[2]
                     ELSE IF ExcludeText(x)[2] # None THEN ExcludeText(x)[2]
                     ELSE IF c[2] # None THEN c[2] ELSE board
         /\ UNCHANGED <<clients, exips, disturbed, others, opened>>
         /\ NoneApplied
  BY DEF Text, config
<1>2. \/ c[1] = adding /\ c[2] = None
      \/ adding = "" /\ c[1] = x /\ c[2] = "route" /\ RoutesOf(x) = {}
  <2>1. c = <<adding, None>> \/ (c = <<x, "route">> /\ adding = "" /\ RoutesOf(x) = {})
    <3>1. CASE adding # "" \/ x \notin Addresses
      BY <3>1 DEF ClientsText
    <3>2. CASE adding = "" /\ x \in Addresses
      BY <3>2 DEF ClientsText
    <3> QED BY <3>1, <3>2
  <2>2. CASE c = <<adding, None>>
    BY <2>2
  <2>3. CASE c = <<x, "route">> /\ adding = "" /\ RoutesOf(x) = {}
    <3>1. c[1] = x /\ c[2] = "route"
      BY <2>3
    <3> QED BY <2>3, <3>1
  <2> QED BY <2>1, <2>2, <2>3
<1>3. \/ ExcludeText(x)[1] = exclude /\ ExcludeText(x)[2] = None
      \/ exclude # None /\ ExcludeText(x)[2] = "exclude"
  BY DEF ExcludeText
<1>4. \/ WizardText(x)[1] = wizard /\ WizardText(x)[2] = None
      \/ wizard # None /\ WizardText(x)[2] \in {"exclude_ips", "client_route"}
  BY DEF WizardText, In
<1> USE DEF DialoguesInv
<1>5. /\ wizard' # None => wizard # None
      /\ exclude' # None => exclude # None
  BY <1>1, <1>3, <1>4
<1>6. adding' = adding \/ (adding = "" /\ adding' = x /\ RoutesOf(x) = {})
  BY <1>1, <1>2
<1>7. \/ board' = board
      \/ wizard # None /\ board' \in {"exclude_ips", "client_route"}
      \/ exclude # None /\ board' = "exclude"
      \/ adding = "" /\ board' = "route"
  <2>1. None \notin {"exclude_ips", "client_route", "exclude", "route"}
    BY KeyboardAssumption DEF Keyboards, WizardBoards
  <2>2. CASE WizardText(x)[2] # None
    BY <1>1, <1>4, <2>2
  <2>3. CASE WizardText(x)[2] = None /\ ExcludeText(x)[2] # None
    BY <1>1, <1>3, <2>3
  <2>4. CASE WizardText(x)[2] = None /\ ExcludeText(x)[2] = None /\ c[2] # None
    BY <1>1, <1>2, <2>4
  <2>5. CASE WizardText(x)[2] = None /\ ExcludeText(x)[2] = None /\ c[2] = None
    BY <1>1, <2>5
  <2> QED BY <2>2, <2>3, <2>4, <2>5
<1>8. board' = "confirm" => board = "confirm" /\ wizard' = wizard
  <2>1. /\ "confirm" \notin {"exclude_ips", "client_route", "exclude", "route"}
        /\ None \notin {"exclude_ips", "client_route"}
    BY KeyboardAssumption DEF Keyboards, WizardBoards
  <2>2. CASE WizardText(x)[1] = wizard
    BY <1>1, <1>7, <2>1, <2>2
  <2>3. CASE WizardText(x)[2] \in {"exclude_ips", "client_route"}
    BY <1>1, <2>1, <2>3
  <2> QED BY <1>4, <2>2, <2>3
<1>9. OneSession' /\ NothingTakenBack'
  BY <1>1, <1>5 DEF OneSession, NothingTakenBack
<1>10. Foremost'
  <2> SUFFICES ASSUME ~disturbed'
               PROVE  /\ wizard' # None => board' \in WizardBoards \cup {None} /\ adding' = None
                      /\ exclude' # None => board' \in {"exclude", None} /\ adding' = None
    BY DEF Foremost
  <2>1. ~disturbed /\ None # ""
    BY <1>1, TextAssumption
  <2>2. ASSUME wizard' # None  PROVE board' \in WizardBoards \cup {None} /\ adding' = None
    <3>1. wizard # None /\ exclude = None /\ adding = None /\ board \in WizardBoards \cup {None}
      BY <1>5, <2>1, <2>2 DEF OneSession, Foremost
    <3> QED BY <1>6, <1>7, <2>1, <3>1 DEF WizardBoards
  <2>3. ASSUME exclude' # None  PROVE board' \in {"exclude", None} /\ adding' = None
    <3>1. exclude # None /\ wizard = None /\ adding = None /\ board \in {"exclude", None}
      BY <1>5, <2>1, <2>3 DEF OneSession, Foremost
    <3> QED BY <1>6, <1>7, <2>1, <3>1
  <2> QED BY <2>2, <2>3
<1>11. SummaryTrue' /\ ConfirmedFirst'
  <2>1. ConfirmedFirst'
    BY <1>1 DEF NoneApplied, ConfirmedFirst
  <2>2. CASE board' = "confirm"
    BY <1>1, <1>8, <2>2, SummaryStays
  <2>3. CASE board' # "confirm"
    BY <2>1, <2>3 DEF SummaryTrue
  <2> QED BY <2>2, <2>3
<1>12. Routeless'
  <2> SUFFICES ASSUME ~disturbed', "clients" \notin others', adding' \in Addresses
               PROVE  RoutesOf(adding)' = {}
    BY DEF Routeless
  <2>1. ~disturbed /\ others' = others /\ clients' = clients
    BY <1>1
  <2> QED BY <1>6, <2>1 DEF Routeless, RoutesOf
<1> QED BY <1>9, <1>10, <1>11, <1>12

LEMMA DialoguesStep ==
    DialoguesTypeOK /\ DialoguesInv /\ [DialoguesNext]_dialogueVars => DialoguesInv'
<1> SUFFICES ASSUME DialoguesTypeOK, DialoguesInv, [DialoguesNext]_dialogueVars PROVE DialoguesInv'
  OBVIOUS
<1>1. ASSUME NEW b, Press(b)  PROVE DialoguesInv'
  <2>1. b.of \in {"wizard", "exclude", "clients"}
    BY <1>1 DEF Press
  <2> QED BY <1>1, <2>1, WizardStep, ExcludeStep, ClientsStep
<1> USE DEF DialoguesInv, OneSession, NothingTakenBack, Foremost, Routeless, RoutesOf
<1>2. CASE OthersSave
  <2>1. SummaryTrue' /\ ConfirmedFirst'
    BY <1>2, SummaryStays DEF OthersSave
  <2>2. /\ UNCHANGED <<wizard, exclude, adding, board, disturbed, opened>>
        /\ exips' = exips \/ "exips" \in others'
        /\ clients' = clients \/ "clients" \in others'
        /\ others \subseteq others'
    BY <1>2 DEF OthersSave
  <2> QED BY <2>1, <2>2
<1>3. CASE BotRestart
  <2>1. SummaryTrue' /\ ConfirmedFirst'
    BY <1>3, SummaryStays DEF BotRestart
  <2> QED BY <1>3, <2>1, TextAssumption DEF BotRestart, config
<1>4. CASE UNCHANGED dialogueVars
  <2>1. SummaryTrue' /\ ConfirmedFirst'
    BY <1>4 DEF dialogueVars, dialogueGhost, SummaryTrue, ConfirmedFirst, ServerAt, SavedClients,
       SavedCountries
  <2> QED BY <1>4, <2>1 DEF dialogueVars, config, dialogueGhost
<1> QED BY <1>1, <1>2, <1>3, <1>4, CommandStep, TextStep DEF DialoguesNext

-----------------------------------------------------------------------------
(* The dialogues: lists.                                                    *)

\* SeqOf are the sequences up to a length.
LEMMA ShortSequence ==
    ASSUME NEW S, NEW n \in Nat, NEW s
    PROVE  s \in SeqOf(S, n) <=> s \in Seq(S) /\ Len(s) <= n
<1>1. ASSUME s \in SeqOf(S, n)  PROVE s \in Seq(S) /\ Len(s) <= n
  <2>1. PICK m \in 0..n : s \in [1..m -> S]
    BY <1>1 DEF SeqOf
  <2>2. s \in Seq(S)
    BY <2>1, SeqDef
  <2>3. Len(s) \in Nat /\ DOMAIN s = 1..Len(s) /\ DOMAIN s = 1..m
    BY <2>1, <2>2, LenProperties
  <2>4. Len(s) = m
    <3>1. ~(m < Len(s))
      <4> SUFFICES ASSUME m < Len(s)  PROVE FALSE
        OBVIOUS
      <4>1. Len(s) \in 1..Len(s) /\ Len(s) \notin 1..m
        BY <2>3
      <4> QED BY <2>3, <4>1
    <3>2. ~(Len(s) < m)
      <4> SUFFICES ASSUME Len(s) < m  PROVE FALSE
        OBVIOUS
      <4>1. m \in 1..m /\ m \notin 1..Len(s)
        BY <2>3
      <4> QED BY <2>3, <4>1
    <3>3. Len(s) \in Nat /\ m \in Nat
      BY <2>3
    <3> QED BY <3>1, <3>2, <3>3
  <2> QED BY <2>2, <2>4
<1>2. ASSUME s \in Seq(S), Len(s) <= n  PROVE s \in SeqOf(S, n)
  <2>1. Len(s) \in 0..n /\ s \in [1..Len(s) -> S]
    BY <1>2, LenProperties
  <2> QED BY <2>1 DEF SeqOf
<1> QED BY <1>1, <1>2

LEMMA ListIs ==
    ASSUME NEW s
    PROVE  s \in Lists <=> s \in Seq(Addresses) /\ Len(s) <= MaxIPs /\ IsInjective(s)
BY ShortSequence, DialogueBounds DEF Lists

\* An index beyond the end changes nothing; any other takes one address out.
LEMMA WithoutIsList ==
    ASSUME NEW s \in Lists, NEW i \in Positions
    PROVE  Without(s, i) \in Lists
<1>1. /\ s \in Seq(Addresses) /\ Len(s) <= MaxIPs /\ Len(s) \in Nat /\ DOMAIN s = 1..Len(s)
      /\ \A k, l \in DOMAIN s : s[k] = s[l] => k = l
  BY ListIs, LenProperties DEF IsInjective
<1>2. CASE i \notin DOMAIN s
  BY <1>2 DEF Without
<1>3. CASE i \in DOMAIN s
  <2> DEFINE a == SubSeq(s, 1, i - 1)  b == SubSeq(s, i + 1, Len(s))  t == a \o b
  <2>1. i \in 1..Len(s) /\ i \in Nat /\ \A k \in 1..Len(s) : s[k] \in Addresses
    BY <1>1, <1>3, ElementOfSeq
  <2>2. /\ a \in Seq(Addresses) /\ Len(a) = i - 1
        /\ \A k \in 1..(i - 1) : a[k] = s[k]
    <3>1. \A k \in 1..(i - 1) : s[k] \in Addresses
      BY <1>1, <2>1
    <3> QED BY <2>1, <3>1, SubSeqProperties
  <2>3. /\ b \in Seq(Addresses) /\ Len(b) = Len(s) - i
        /\ \A k \in 1..(Len(s) - i) : b[k] = s[i + k]
    <3>1. \A k \in (i + 1)..Len(s) : s[k] \in Addresses
      BY <1>1, <2>1
    <3>2. i + 1 \in Int /\ Len(s) \in Int
      BY <1>1, <2>1
    <3>3. /\ b \in Seq(Addresses)
          /\ Len(b) = IF i + 1 <= Len(s) THEN Len(s) - (i + 1) + 1 ELSE 0
          /\ \A k \in 1..(Len(s) - (i + 1) + 1) : b[k] = s[(i + 1) + k - 1]
      BY <3>1, <3>2, SubSeqProperties
    <3> HIDE DEF b
    <3>4. Len(b) = Len(s) - i
      <4>1. Len(b) = IF i + 1 <= Len(s) THEN Len(s) - (i + 1) + 1 ELSE 0
        BY <3>3
      <4>2. Len(s) \in Nat /\ i \in Nat /\ i <= Len(s)
        BY <1>1, <2>1
      <4> QED BY <4>1, <4>2
    <3>5. ASSUME NEW k \in 1..(Len(s) - i)  PROVE b[k] = s[i + k]
      <4>1. k \in 1..(Len(s) - (i + 1) + 1) /\ (i + 1) + k - 1 = i + k
        BY <1>1, <2>1
      <4> QED BY <3>3, <4>1
    <3> QED BY <3>3, <3>4, <3>5
  <2> HIDE DEF a, b
  <2>4. /\ t \in Seq(Addresses) /\ Len(t) = Len(s) - 1
        /\ \A k \in 1..(Len(s) - 1) : t[k] = IF k <= i - 1 THEN a[k] ELSE b[k - (i - 1)]
    <3>1. Len(a) + Len(b) = Len(s) - 1
      BY <1>1, <2>1, <2>2, <2>3
    <3> QED BY <2>2, <2>3, <3>1, ConcatProperties
  <2> HIDE DEF t
  <2>5. \A k \in 1..(Len(s) - 1) : t[k] = IF k < i THEN s[k] ELSE s[k + 1]
    <3> SUFFICES ASSUME NEW k \in 1..(Len(s) - 1)
                 PROVE  t[k] = IF k < i THEN s[k] ELSE s[k + 1]
      OBVIOUS
    <3>1. CASE k < i
      BY <1>1, <2>1, <2>2, <2>4, <3>1
    <3>2. CASE ~(k < i)
      <4>1. k - (i - 1) \in 1..(Len(s) - i) /\ i + (k - (i - 1)) = k + 1 /\ ~(k <= i - 1)
        BY <1>1, <2>1, <3>2
      <4> QED BY <2>3, <2>4, <3>2, <4>1
    <3> QED BY <3>1, <3>2
  <2>6. DOMAIN t = 1..(Len(s) - 1)
    BY <2>4, LenProperties
  <2>7. IsInjective(t)
    <3> SUFFICES ASSUME NEW k \in 1..(Len(s) - 1), NEW l \in 1..(Len(s) - 1), t[k] = t[l]
                 PROVE  k = l
      BY <2>6 DEF IsInjective
    <3> QED BY <1>1, <2>1, <2>5
  <2>8. Len(t) <= MaxIPs
    BY <1>1, <2>4, DialogueBounds
  <2>9. Without(s, i) = t
    BY <1>3 DEF Without, RemoveAt, t, a, b
  <2> QED BY <2>4, <2>7, <2>8, <2>9, ListIs
<1> QED BY <1>2, <1>3

\* An address that is not on the list can be added while there is room.
LEMMA AppendIsList ==
    ASSUME NEW s \in Lists, NEW x \in Addresses, ~Contains(s, x), Len(s) # MaxIPs
    PROVE  Append(s, x) \in Lists
<1>1. /\ s \in Seq(Addresses) /\ Len(s) <= MaxIPs /\ Len(s) \in Nat /\ DOMAIN s = 1..Len(s)
      /\ \A k, l \in DOMAIN s : s[k] = s[l] => k = l
  BY ListIs, LenProperties DEF IsInjective
<1>2. \A k \in 1..Len(s) : s[k] # x
  BY DEF Contains
<1> DEFINE t == Append(s, x)
<1>3. /\ t \in Seq(Addresses) /\ Len(t) = Len(s) + 1
      /\ \A k \in 1..Len(s) : t[k] = s[k]
      /\ t[Len(s) + 1] = x
  BY <1>1
<1> HIDE DEF t
<1>4. DOMAIN t = 1..(Len(s) + 1)
  BY <1>3, LenProperties
<1>5. IsInjective(t)
  <2> SUFFICES ASSUME NEW k \in 1..(Len(s) + 1), NEW l \in 1..(Len(s) + 1), t[k] = t[l]
               PROVE  k = l
    BY <1>4 DEF IsInjective
  <2> QED BY <1>1, <1>2, <1>3
<1>6. Len(t) <= MaxIPs
  <2>1. MaxIPs \in Nat
    BY DialogueBounds
  <2>2. Len(s) \in Nat /\ Len(s) <= MaxIPs /\ Len(t) = Len(s) + 1
    BY <1>1, <1>3
  <2> QED BY <2>1, <2>2
<1> QED BY <1>3, <1>5, <1>6, ListIs DEF t

LEMMA FirstLists == <<>> \in Lists /\ \A x \in Addresses : <<x>> \in Lists
<1>1. <<>> \in Lists
  <2>1. <<>> \in Seq(Addresses) /\ Len(<<>>) = 0 /\ DOMAIN <<>> = 1..0
    OBVIOUS
  <2>2. IsInjective(<<>>)
    BY <2>1 DEF IsInjective
  <2>3. MaxIPs \in Nat
    BY DialogueBounds
  <2>4. Len(<<>>) <= MaxIPs
    BY <2>1, <2>3
  <2> QED BY <2>1, <2>2, <2>4, ListIs
<1>2. ASSUME NEW x \in Addresses  PROVE <<x>> \in Lists
  <2>1. <<x>> \in Seq(Addresses) /\ Len(<<x>>) = 1 /\ DOMAIN <<x>> = 1..1
    OBVIOUS
  <2>2. IsInjective(<<x>>)
    BY <2>1 DEF IsInjective
  <2>3. MaxIPs \in Nat /\ 1 <= MaxIPs
    BY DialogueBounds
  <2> QED BY <2>1, <2>2, <2>3, ListIs
<1> QED BY <1>1, <1>2

-----------------------------------------------------------------------------
(* The dialogues: types.                                                    *)

Sessions == [step : WizardSteps, server : Indices, countries : SUBSET Countries,
             exips : Lists, clients : SeqOf(Hosts \X Routes, MaxClients),
             pending : Hosts \cup {None}]

\* What a button carries.
LEMMA Carried ==
    ASSUME NEW b \in Buttons
    PROVE  /\ b.of = "wizard" /\ b.act = "server" => b.arg \in Indices
           /\ b.of = "wizard" /\ b.act = "excl" => b.arg \in Countries
           /\ b.act = "rm" => b.arg \in Positions
           /\ b.act = "route" => b.arg \in Routes
<1> USE DEF Button, ButtonOf
<1>1. PICK k \in Boards : b \in ButtonsOn(k)
  BY DEF Buttons
<1>2. CASE b = Button("wizard", "cancel")
  BY <1>2
<1>3. CASE b \in OnBoard(k)
  <2>1. CASE k = "server"
    BY <1>3, <2>1 DEF OnBoard
  <2>2. CASE k = "exclusions"
    BY <1>3, <2>2 DEF OnBoard
  <2>3. CASE k = "exclude_ips"
    BY <1>3, <2>3 DEF OnBoard
  <2>4. CASE k = "clients"
    BY <1>3, <2>4 DEF OnBoard
  <2>5. CASE k = "client_route"
    BY <1>3, <2>5 DEF OnBoard
  <2>6. CASE k = "confirm"
    BY <1>3, <2>6 DEF OnBoard
  <2>7. CASE k = "exclude"
    BY <1>3, <2>7 DEF OnBoard
  <2>8. CASE k = "list"
    BY <1>3, <2>8 DEF OnBoard
  <2>9. CASE k = "remove"
    BY <1>3, <2>9 DEF OnBoard
  <2>10. CASE k = "route"
    BY <1>3, <2>10 DEF OnBoard
  <2>11. CASE k \notin Keyboards
    BY <1>3, <2>11 DEF OnBoard, Keyboards, WizardBoards
  <2> QED BY <2>1, <2>2, <2>3, <2>4, <2>5, <2>6, <2>7, <2>8, <2>9, <2>10, <2>11
          DEF Keyboards, WizardBoards
<1> QED BY <1>1, <1>2, <1>3 DEF ButtonsOn

\* The clients entered: one more while there is room, or one less.
LEMMA ClientsEntered ==
    ASSUME NEW S, NEW s \in SeqOf(S, MaxClients)
    PROVE  /\ \A e \in S : Len(s) < MaxClients => Append(s, e) \in SeqOf(S, MaxClients)
           /\ s # <<>> => Front(s) \in SeqOf(S, MaxClients)
<1>1. s \in Seq(S) /\ Len(s) <= MaxClients /\ Len(s) \in Nat /\ MaxClients \in Nat
  BY ShortSequence, DialogueBounds, LenProperties
<1>2. ASSUME NEW e \in S, Len(s) < MaxClients  PROVE Append(s, e) \in SeqOf(S, MaxClients)
  <2>1. Append(s, e) \in Seq(S) /\ Len(Append(s, e)) = Len(s) + 1
    BY <1>1
  <2>2. Len(Append(s, e)) <= MaxClients
    BY <1>1, <1>2, <2>1
  <2> QED BY <1>1, <2>1, <2>2, ShortSequence
<1>3. ASSUME s # <<>>  PROVE Front(s) \in SeqOf(S, MaxClients)
  <2>1. \A i \in 1..(Len(s) - 1) : s[i] \in S
    BY <1>1, ElementOfSeq
  <2>2. 1 \in Int /\ Len(s) - 1 \in Int
    BY <1>1
  <2>3. /\ Front(s) \in Seq(S)
        /\ Len(Front(s)) = IF 1 <= Len(s) - 1 THEN (Len(s) - 1) - 1 + 1 ELSE 0
    BY <2>1, <2>2, SubSeqProperties DEF Front
  <2>4. Len(Front(s)) <= MaxClients
    <3>1. Len(Front(s)) = IF 1 <= Len(s) - 1 THEN (Len(s) - 1) - 1 + 1 ELSE 0
      BY <2>3
    <3> QED BY <1>1, <3>1
  <2> QED BY <1>1, <2>3, <2>4, ShortSequence
<1> QED BY <1>2, <1>3

LEMMA NewIsSession == NewSession \in Sessions
<1>1. <<>> \in SeqOf(Hosts \X Routes, MaxClients)
  <2>1. <<>> \in Seq(Hosts \X Routes) /\ Len(<<>>) = 0
    OBVIOUS
  <2>2. MaxClients \in Nat /\ Len(<<>>) <= MaxClients
    BY <2>1, DialogueBounds
  <2> QED BY <2>1, <2>2, ShortSequence
<1> QED BY <1>1, FirstLists DEF NewSession, Sessions, WizardSteps, Indices

\* A handler of the wizard that leaves a session, a keyboard and the rest as it is.
LEMMA ShowsTyped ==
    ASSUME DialoguesTypeOK, NEW w \in Sessions \cup {None}, NEW k \in Boards,
           WizardShows(w, k), disturbed' \in BOOLEAN,
           shown' \in Summaries \cup {None}, applied' \in Applications \cup {None}
    PROVE  DialoguesTypeOK'
BY DEF DialoguesTypeOK, WizardShows, Sessions, config

LEMMA NoneAppliedTyped ==
    ASSUME DialoguesTypeOK, NoneApplied
    PROVE  shown' \in Summaries \cup {None} /\ applied' \in Applications \cup {None}
BY DEF DialoguesTypeOK, NoneApplied

LEMMA WizardTyped ==
    ASSUME DialoguesTypeOK, NEW w \in Sessions \cup {None}, NEW k \in Boards,
           Wizard(w, k), disturbed' \in BOOLEAN
    PROVE  DialoguesTypeOK'
BY NoneAppliedTyped, ShowsTyped DEF Wizard

LEMMA NothingTyped ==
    ASSUME DialoguesTypeOK, Nothing, disturbed' \in BOOLEAN
    PROVE  DialoguesTypeOK'
BY NoneAppliedTyped DEF DialoguesTypeOK, Nothing, config

\* What apply saves are pairs of an address and a route.
LEMMA SavedIsConfig ==
    ASSUME NEW w \in Sessions
    PROVE  SavedClients(w.clients) \subseteq Addresses \X Routes
<1>1. w.clients \in Seq(Hosts \X Routes)
  BY ShortSequence, DialogueBounds DEF Sessions
<1>2. \A i \in DOMAIN w.clients : w.clients[i] \in Hosts \X Routes
  BY <1>1, LenProperties, ElementOfSeq
<1> QED BY <1>2 DEF SavedClients, Addresses

LEMMA PressWizardTyped ==
    ASSUME DialoguesTypeOK, NEW b \in Buttons, b.of = "wizard", PressWizard(b),
           disturbed' \in BOOLEAN
    PROVE  DialoguesTypeOK'
<1>1. /\ wizard = None \/ wizard \in Sessions
      /\ board \in Boards /\ exips \in Lists
  BY DEF DialoguesTypeOK, Sessions
<1>2. WizardBoards \subseteq Boards
  BY DEF Boards, Keyboards
<1>3. \A step \in WizardSteps : wizard # None => Goto(wizard, step) \in Sessions
  BY <1>1 DEF Goto, Sessions
<1>4. CASE b.act = "server" /\ PressServer(b.arg)
  <2>1. CASE Nothing
    BY <2>1, NothingTyped
  <2>2. PICK i \in Indices : i = b.arg
    BY <1>4, Carried
  <2>3. wizard # None => [wizard EXCEPT !.server = i, !.step = "exclusions",
                                        !.countries = @ \cup {Default}] \in Sessions
    BY <1>1, ChoiceAssumption DEF Sessions, WizardSteps
  <2>4. wizard # None /\ "exclusions" \in Boards
    BY <1>2, <1>4 DEF PressServer, In, WizardBoards
  <2> QED BY <1>4, <2>1, <2>2, <2>3, <2>4, WizardTyped DEF PressServer
<1>5. CASE b.act = "excl" /\ PressCountry(b.arg)
  <2>1. PICK k \in Countries : k = b.arg
    BY <1>5, Carried
  <2>2. wizard # None => [wizard EXCEPT !.countries = Flip(@, k)] \in Sessions
    BY <1>1 DEF Sessions, Flip
  <2> QED BY <1>2, <1>5, <2>1, <2>2, WizardTyped DEF PressCountry, In, WizardBoards
<1>6. CASE b.act = "exclDone" /\ PressCountriesDone
  <2>1. \A ips \in Lists :
           wizard # None => [wizard EXCEPT !.step = "exclude_ips", !.exips = ips] \in Sessions
    BY <1>1 DEF Sessions, WizardSteps
  <2>2. wizard # None => wizard.exips \in Lists
    BY <1>1 DEF Sessions
  <2> QED BY <1>1, <1>2, <1>6, <2>1, <2>2, WizardTyped DEF PressCountriesDone, In, WizardBoards
<1>7. CASE b.act = "rm" /\ PressRemoveIP(b.arg)
  <2>1. PICK i \in Positions : i = b.arg
    BY <1>7, Carried
  <2>2. wizard # None => wizard.exips \in Lists
    BY <1>1 DEF Sessions
  <2>3. wizard # None => Without(wizard.exips, i) \in Lists
    BY <2>2, WithoutIsList
  <2>4. wizard # None => [wizard EXCEPT !.exips = Without(@, i)] \in Sessions
    BY <1>1, <2>3 DEF Sessions
  <2> QED BY <1>2, <1>7, <2>1, <2>4, WizardTyped DEF PressRemoveIP, In, WizardBoards
<1>8. CASE b.act = "add" /\ PressAddIP
  BY <1>1, <1>8, WizardTyped DEF PressAddIP, WizardSays, In
<1>9. CASE b.act = "done" /\ PressIPsDone
  BY <1>2, <1>3, <1>9, WizardTyped DEF PressIPsDone, In, WizardBoards, WizardSteps
<1>10. CASE b.act = "clientAdd" /\ PressClientAdd
  BY <1>1, <1>3, <1>10, WizardTyped DEF PressClientAdd, WizardSays, InClients, In, WizardSteps
<1>11. CASE b.act = "clientDel" /\ PressClientDel
  <2>1. wizard \in Sessions
    BY <1>1, <1>11 DEF PressClientDel, InClients, In
  <2>2. PICK cs : cs = IF wizard.clients = <<>> THEN wizard.clients ELSE Front(wizard.clients)
    OBVIOUS
  <2>3. cs \in SeqOf(Hosts \X Routes, MaxClients)
    BY <2>1, <2>2, ClientsEntered DEF Sessions
  <2>4. [wizard EXCEPT !.clients = cs, !.step = "clients"] \in Sessions
    BY <2>1, <2>3 DEF Sessions, WizardSteps
  <2>5. [wizard EXCEPT !.clients = cs] \in Sessions
    BY <2>1, <2>3 DEF Sessions, WizardSteps
  <2> QED BY <1>2, <1>11, <2>2, <2>4, <2>5, WizardTyped DEF PressClientDel, WizardBoards
<1>12. CASE b.act = "clientDone" /\ PressClientDone
  <2>1. wizard # None /\ "confirm" \in Boards /\ "confirm" \in WizardSteps
    BY <1>2, <1>12 DEF PressClientDone, InClients, In, WizardBoards, WizardSteps
  <2>2. Goto(wizard, "confirm") \in Sessions
    BY <1>3, <2>1
  <2>3. Summary(wizard) \in Summaries
    BY <2>1, SummarySays
  <2> QED BY <1>1, <1>12, <2>1, <2>2, <2>3, WizardTyped, ShowsTyped DEF PressClientDone, WizardSays
<1>13. CASE b.act = "route" /\ PressRoute(b.arg)
  <2>1. PICK r \in Routes : r = b.arg
    BY <1>13, Carried
  <2>2. wizard \in Sessions /\ wizard.pending # None /\ Len(wizard.clients) < MaxClients
    BY <1>1, <1>13 DEF PressRoute, In, Accept
  <2>3. PICK e : e = <<wizard.pending, r>>
    OBVIOUS
  <2>4. e \in Hosts \X Routes
    BY <2>2, <2>3 DEF Sessions
  <2>5. PICK cs : cs = Append(wizard.clients, e)
    OBVIOUS
  <2>6. cs \in SeqOf(Hosts \X Routes, MaxClients)
    BY <2>2, <2>4, <2>5, ClientsEntered DEF Sessions
  <2>7. [wizard EXCEPT !.clients = cs, !.pending = None, !.step = "clients"] \in Sessions
    BY <2>2, <2>6 DEF Sessions, WizardSteps
  <2>8. Wizard([wizard EXCEPT !.clients = cs, !.pending = None, !.step = "clients"], "clients")
    BY <1>13, <2>1, <2>3, <2>5 DEF PressRoute, Accept
  <2> QED BY <1>2, <2>7, <2>8, WizardTyped DEF WizardBoards
<1>14. CASE b.act = "apply" /\ PressApply
  <2>1. wizard \in Sessions
    BY <1>1, <1>14 DEF PressApply
  <2>2. SavedClients(wizard.clients) \subseteq Addresses \X Routes /\ wizard.exips \in Lists
    BY <2>1, SavedIsConfig DEF Sessions
  <2>3. clients' \subseteq Addresses \X Routes /\ exips' \in Lists
    BY <1>14, <2>2 DEF DialoguesTypeOK, PressApply
  <2>4. applied' \in Applications \cup {None}
    <3> SUFFICES ASSUME NEW server \in {ServerAt(servers, wizard.server), None}
                 PROVE  [board |-> board, said |-> shown, list |-> servers, server |-> server,
                         countries |-> SavedCountries(wizard.countries), clients |-> clients']
                           \in Applications
      BY <1>14 DEF PressApply
    <3>1. server \in Servers \cup {None} /\ servers \in ServerLists
      BY ServerNamed DEF DialoguesTypeOK
    <3>2. SavedCountries(wizard.countries) \in SUBSET Countries
      BY <2>1, ChoiceAssumption DEF Sessions, SavedCountries
    <3>3. board \in Boards /\ shown \in Summaries \cup {None}
      BY DEF DialoguesTypeOK
    <3> QED BY <2>3, <3>1, <3>2, <3>3 DEF Applications
  <2> QED BY <1>14, <2>3, <2>4 DEF DialoguesTypeOK, PressApply
<1>15. CASE b.act = "cancel" /\ PressCancel
  BY <1>1, <1>15, WizardTyped DEF PressCancel, WizardSays
<1>16. CASE Nothing
  BY <1>16, NothingTyped
<1> QED
  BY <1>4, <1>5, <1>6, <1>7, <1>8, <1>9, <1>10, <1>11, <1>12, <1>13, <1>14, <1>15, <1>16
  DEF PressWizard

LEMMA PressExcludeTyped ==
    ASSUME DialoguesTypeOK, NEW b \in Buttons, PressExclude(b), disturbed' \in BOOLEAN
    PROVE  DialoguesTypeOK'
<1>1. ASSUME NEW e \in Lists \cup {None}, NEW k \in Boards, Exclude(e, k), exips' \in Lists
      PROVE  DialoguesTypeOK'
  BY <1>1, NoneAppliedTyped DEF DialoguesTypeOK, Exclude
<1>2. "exclude" \in Boards /\ board \in Boards /\ exips \in Lists /\ exclude \in Lists \cup {None}
  BY DEF DialoguesTypeOK, Boards, Keyboards
<1>3. CASE Nothing
  BY <1>3, NothingTyped
<1>4. CASE exclude # None /\ b.act = "rm" /\ Exclude(Without(exclude, b.arg), "exclude")
           /\ UNCHANGED exips
  <2>1. b.arg \in Positions
    BY <1>4, Carried
  <2>2. Without(exclude, b.arg) \in Lists
    BY <1>2, <1>4, <2>1, WithoutIsList
  <2> QED BY <1>1, <1>2, <1>4, <2>2
<1>5. CASE exclude # None /\ Exclude(None, board) /\ exips' \in {exclude, exips}
  BY <1>1, <1>2, <1>5
<1> QED BY <1>3, <1>4, <1>5 DEF PressExclude

LEMMA PressClientsTyped ==
    ASSUME DialoguesTypeOK, NEW b \in Buttons, PressClients(b), disturbed' \in BOOLEAN
    PROVE  DialoguesTypeOK'
<1>1. ASSUME NEW a \in Addresses \cup {"", None}, NEW cs, cs \subseteq Addresses \X Routes,
             NEW k \in Boards, Clients(a, cs, k)
      PROVE  DialoguesTypeOK'
  BY <1>1, NoneAppliedTyped DEF DialoguesTypeOK, Clients
<1>2. /\ {"list", "remove", None, board} \subseteq Boards
      /\ adding \in Addresses \cup {"", None} /\ clients \subseteq Addresses \X Routes
  BY DEF DialoguesTypeOK, Boards, Keyboards
<1>3. CASE Nothing
  BY <1>3, NothingTyped
<1>4. CASE PressRemove(b.arg) \/ PressPause \/ PressAdd \/ PressClose
  BY <1>1, <1>2, <1>3, <1>4 DEF PressRemove, PressPause, PressAdd, PressClose
<1>5. CASE PressRemoveYes(b.arg)
  BY <1>1, <1>2, <1>3, <1>5 DEF PressRemoveYes
<1>6. CASE b.act = "route" /\ PressAddRoute(b.arg)
  <2>1. b.arg \in Routes
    BY <1>6, Carried
  <2>2. adding \notin {None, ""} => clients \cup {<<adding, b.arg>>} \subseteq Addresses \X Routes
    <3> SUFFICES ASSUME adding \notin {None, ""}
                 PROVE  clients \cup {<<adding, b.arg>>} \subseteq Addresses \X Routes
      OBVIOUS
    <3>1. adding \in Addresses
      BY <1>2
    <3>2. <<adding, b.arg>> \in Addresses \X Routes
      BY <2>1, <3>1
    <3> QED BY <1>2, <3>2
  <2>3. (IF b.arg \in TunnelRoutes THEN "list" ELSE board) \in Boards
    BY <1>2
  <2> QED BY <1>1, <1>2, <1>6, <2>2, <2>3 DEF PressAddRoute
<1>7. CASE Clients(adding, clients, "list") \/ Clients(None, clients, "list")
  BY <1>1, <1>2, <1>7
<1> QED BY <1>3, <1>4, <1>5, <1>6, <1>7 DEF PressClients

LEMMA CommandTyped ==
    ASSUME DialoguesTypeOK, Configure \/ ExcludeCommand \/ ClientsCommand
    PROVE  DialoguesTypeOK'
<1>1. NewSession \in Sessions
  BY NewIsSession
<1>2. {"server", "exclude", "list", None} \subseteq Boards
  BY DEF Boards, Keyboards, WizardBoards
<1>3. CASE Configure
  BY <1>1, <1>2, <1>3 DEF DialoguesTypeOK, Configure, Command, Shows, Fails, Sessions, config
<1>4. CASE ExcludeCommand
  BY <1>2, <1>4 DEF DialoguesTypeOK, ExcludeCommand, Command, Shows, Fails, config
<1>5. CASE ClientsCommand
  BY <1>2, <1>5 DEF DialoguesTypeOK, ClientsCommand, Command, Shows, Fails, config
<1> QED BY <1>3, <1>4, <1>5

LEMMA TextTyped ==
    ASSUME DialoguesTypeOK, NEW x \in Texts, Text(x)
    PROVE  DialoguesTypeOK'
<1>1. PICK c \in ClientsText(x) :
         /\ adding' = c[1] /\ exclude' = ExcludeText(x)[1] /\ wizard' = WizardText(x)[1]
         /\ board' = IF WizardText(x)[2] # None THEN WizardText(x)[2]
                     ELSE IF ExcludeText(x)[2] # None THEN ExcludeText(x)[2]
                     ELSE IF c[2] # None THEN c[2] ELSE board
         /\ UNCHANGED <<clients, exips, servers, disturbed, others, opened>>
         /\ NoneApplied
  BY DEF Text, config
<1>2. {"exclude_ips", "client_route", "exclude", "route"} \subseteq Boards
  BY DEF Boards, Keyboards, WizardBoards
<1>3. adding' \in Addresses \cup {"", None} /\ c[2] \in Boards
  <2>1. \/ c = <<adding, None>>
        \/ c = <<x, "route">> /\ x \in Addresses
    <3>1. CASE adding # "" \/ x \notin Addresses
      BY <3>1 DEF ClientsText
    <3>2. CASE adding = "" /\ x \in Addresses
      BY <3>2 DEF ClientsText
    <3> QED BY <3>1, <3>2
  <2>2. CASE c = <<adding, None>>
    BY <1>1, <2>2 DEF DialoguesTypeOK, Boards
  <2>3. CASE c = <<x, "route">> /\ x \in Addresses
    BY <1>1, <1>2, <2>3
  <2> QED BY <2>1, <2>2, <2>3
<1>4. exclude' \in Lists \cup {None} /\ ExcludeText(x)[2] \in Boards
  <2>1. CASE exclude = None \/ x \notin Addresses \/ Contains(exclude, x) \/ Len(exclude) = MaxIPs
    BY <1>1, <2>1 DEF ExcludeText, DialoguesTypeOK, Boards
  <2>2. CASE ~(exclude = None \/ x \notin Addresses \/ Contains(exclude, x) \/ Len(exclude) = MaxIPs)
    <3>1. exclude \in Lists
      BY <2>2 DEF DialoguesTypeOK
    <3>2. Append(exclude, x) \in Lists
      BY <2>2, <3>1, AppendIsList
    <3> QED BY <1>1, <1>2, <2>2, <3>2 DEF ExcludeText
  <2> QED BY <2>1, <2>2
<1>5. wizard' \in Sessions \cup {None} /\ WizardText(x)[2] \in Boards
  <2> DEFINE Room == /\ In("exclude_ips") /\ x \in Addresses /\ ~Contains(wizard.exips, x)
                     /\ Len(wizard.exips) < MaxIPs
  <2>1. wizard \in Sessions \cup {None} /\ None \in Boards
    BY DEF DialoguesTypeOK, Sessions, Boards
  <2>2. CASE Room
    <3>1. wizard \in Sessions /\ wizard.exips \in Lists
      BY <2>1, <2>2 DEF In, Sessions
    <3>2. PICK ips : ips = Append(wizard.exips, x)
      OBVIOUS
    <3>3. ips \in Lists
      <4>1. Len(wizard.exips) # MaxIPs
        BY <2>2, <3>1, ListIs, DialogueBounds
      <4> QED BY <2>2, <3>1, <3>2, <4>1, AppendIsList
    <3>4. [wizard EXCEPT !.exips = ips] \in Sessions
      BY <3>1, <3>3 DEF Sessions
    <3>5. WizardText(x) = <<[wizard EXCEPT !.exips = ips], "exclude_ips">>
      BY <2>2, <3>2 DEF WizardText, In
    <3> QED BY <1>1, <1>2, <3>4, <3>5
  <2>3. CASE ~Room /\ In("client_ip") /\ x \in Hosts
    <3>1. [wizard EXCEPT !.pending = x, !.step = "client_route"] \in Sessions
      BY <2>1, <2>3 DEF In, Sessions, WizardSteps
    <3>2. WizardText(x) = <<[wizard EXCEPT !.pending = x, !.step = "client_route"], "client_route">>
      BY <2>3 DEF WizardText, In
    <3> QED BY <1>1, <1>2, <3>1, <3>2
  <2>4. CASE ~Room /\ ~(In("client_ip") /\ x \in Hosts)
    <3>1. WizardText(x) = <<wizard, None>>
      BY <2>4 DEF WizardText
    <3> QED BY <1>1, <2>1, <3>1
  <2> QED BY <2>2, <2>3, <2>4
<1>6. board' \in Boards
  BY <1>1, <1>3, <1>4, <1>5 DEF DialoguesTypeOK
<1>7. shown' \in Summaries \cup {None} /\ applied' \in Applications \cup {None}
  BY <1>1, NoneAppliedTyped
<1> QED BY <1>1, <1>3, <1>4, <1>5, <1>6, <1>7 DEF DialoguesTypeOK, Sessions

LEMMA DialoguesTyped == DialoguesTypeOK /\ [DialoguesNext]_dialogueVars => DialoguesTypeOK'
<1> SUFFICES ASSUME DialoguesTypeOK, [DialoguesNext]_dialogueVars  PROVE DialoguesTypeOK'
  OBVIOUS
<1>1. ASSUME NEW b \in Buttons, Press(b)  PROVE DialoguesTypeOK'
  <2>1. disturbed' \in BOOLEAN
    BY <1>1 DEF Press, DialoguesTypeOK
  <2> QED BY <1>1, <2>1, PressWizardTyped, PressExcludeTyped, PressClientsTyped DEF Press
<1>2. CASE OthersSave
  <2>1. <<>> \in Lists
    BY FirstLists
  <2>2. \A h \in Hosts, r \in Routes : <<h, r>> \in Addresses \X Routes
    BY DEF Addresses
  <2>3. /\ clients' \subseteq Addresses \X Routes /\ exips' \in Lists
        /\ others' \subseteq {"clients", "exips"} /\ servers' \in ServerLists
    BY <1>2, <2>1, <2>2 DEF OthersSave, DialoguesTypeOK
  <2>4. shown' \in Summaries \cup {None} /\ applied' \in Applications \cup {None}
    BY <1>2, NoneAppliedTyped DEF OthersSave
  <2> QED BY <1>2, <2>3, <2>4 DEF OthersSave, DialoguesTypeOK
<1>3. CASE BotRestart
  <2>1. shown' \in Summaries \cup {None} /\ applied' \in Applications \cup {None}
    BY <1>3, NoneAppliedTyped DEF BotRestart
  <2> QED BY <1>3, <2>1 DEF BotRestart, DialoguesTypeOK, config
<1>4. CASE UNCHANGED dialogueVars
  BY <1>4 DEF dialogueVars, config, dialogueGhost, DialoguesTypeOK
<1> QED BY <1>1, <1>2, <1>3, <1>4, CommandTyped, TextTyped DEF DialoguesNext

-----------------------------------------------------------------------------
(* Theorems about the dialogues.                                            *)

\* For any addresses, routes, countries and lengths, the sessions keep their types, whatever
\* buttons of whatever age are pressed: the lists of excluded addresses hold none twice.
THEOREM DialoguesTypeCorrect == DialoguesSpec => []DialoguesTypeOK
<1>1. DialoguesInit => DialoguesTypeOK
  <2> SUFFICES ASSUME DialoguesInit  PROVE DialoguesTypeOK
    OBVIOUS
  <2>1. exips \in Lists
    BY FirstLists DEF DialoguesInit, Addresses
  <2> QED BY <2>1 DEF DialoguesInit, DialoguesTypeOK, Boards
<1> QED BY <1>1, DialoguesTyped, PTL DEF DialoguesSpec

LEMMA AlwaysDialogues == DialoguesSpec => []DialoguesInv
<1>1. DialoguesInit => DialoguesInv
  BY TextAssumption DEF DialoguesInit, DialoguesInv, OneSession, NothingTakenBack, Foremost, SummaryTrue,
     ConfirmedFirst, Routeless, RoutesOf
<1> QED BY <1>1, DialoguesStep, DialoguesTypeCorrect, PTL DEF DialoguesSpec

\* RouteMessage offers a text to all three dialogues: only one of them takes it, unless an
\* old button was pressed since the last command.
THEOREM OneDialogueListens == DialoguesSpec => []OneUnlessOld
<1>1. DialoguesInv => OneUnlessOld
  BY TextAssumption
  DEF DialoguesInv, OneSession, Foremost, OneUnlessOld, OnlyOneActive, Listening, In
<1> QED BY <1>1, AlwaysDialogues, PTL

\* While /exclude is in session, the wizard is not: no dialogue of this chat changes
\* xray.exclude_ips between the copy /exclude works on and its "done".  What is changed
\* there from outside of the chat is overwritten by it.
THEOREM ExcludeTakesNothingBack == DialoguesSpec => []NothingTakenBack
<1>1. DialoguesInv => NothingTakenBack
  BY DEF DialoguesInv
<1> QED BY <1>1, AlwaysDialogues, PTL

\* The keyboard that applies is shown with a summary only, and below it nothing can be
\* changed any more: applied by the keyboard shown last are the clients, the countries (the
\* default one for none) and the server that the summary has named, whatever old buttons
\* were pressed; the excluded addresses are not in it, and another server is set up if the
\* list was changed meanwhile.
THEOREM SummaryComesFirst == DialoguesSpec => []ConfirmedFirst
<1>1. DialoguesInv => ConfirmedFirst
  BY DEF DialoguesInv
<1> QED BY <1>1, AlwaysDialogues, PTL

\* PressAddRoute saves the route chosen for the address typed before: in between, only an
\* old button, or a change from outside of the chat, can have given it another route.
THEOREM ClientIsAddedOnce == DialoguesSpec => AddsOnce
<1>1. DialoguesInv =>
         [\A h \in Addresses, r \in Routes :
            <<h, r>> \in clients' \ clients /\ adding = h /\ adding' = None
               => RoutesOf(h) = {} \/ disturbed \/ "clients" \in others]_dialogueVars
  BY DEF DialoguesInv, Routeless
<1> QED BY <1>1, AlwaysDialogues, PTL DEF AddsOnce

-----------------------------------------------------------------------------
(****************************************************************************)
(* The notices.  NoticesInv carries them: what a check has in hand agrees   *)
(* with the store, and who has been told of a version is remembered as told *)
(* of it or of a later one, although the oldest versions are forgotten.     *)
(****************************************************************************)

Recorded(u) == users[u] # NoRecord

\* What a check does: it has users to go through, and perhaps one at hand.
Targets == Users \X Chats
Between == [at : {"next"}, version : Versions, todo : SUBSET Targets]
AtHand  == [at : {"sent", "blocked"}, version : Versions, todo : SUBSET Targets, user : Users]
InHand ==
    /\ checker \in {Idle} \cup Between \cup AtHand
    /\ checker # Idle =>
          /\ checker.version <= latest
          /\ \A s, t \in checker.todo : s[1] = t[1] => s = t
          /\ \A t \in checker.todo : Recorded(t[1])
    /\ checker \in AtHand => /\ Recorded(checker.user)
                            /\ \A t \in checker.todo : t[1] # checker.user

\* Nobody who is on the disk is missing in memory, if the disk was read.
Kept == ~unread => \A u \in Users : file[u] # NoRecord => Recorded(u)

\* The check has sent a notice it has not recorded yet.
Pending(u) == checker.at = "sent" /\ checker.user = u

\* Versions told and remembered are of the past: none is later than the one a check tells.
Past(v) == v <= latest /\ (checker # Idle => v <= checker.version)
ToldPast ==
    \A u \in Users : /\ \A v \in told[u] : Past(v)
                     /\ Recorded(u) => \A i \in 1..Len(users[u].notified) : Past(users[u].notified[i])
                     /\ file[u] # NoRecord =>
                           \A i \in 1..Len(file[u].notified) : file[u].notified[i] <= latest

\* Whoever was told of a version is remembered as told of it, or of a later one.
NotBefore(u, v) == Recorded(u) /\ \E i \in 1..Len(users[u].notified) : users[u].notified[i] >= v
Remembers ==
    \A u \in Users \ unmarked : \A v \in told[u] : Pending(u) \/ NotBefore(u, v)

\* The chat a check goes by is the one the store knows, and refused the notice if the check
\* found so.
ChatsAgree ==
    /\ checker # Idle =>
          \A t \in checker.todo : t[1] \in stranded \/ users[t[1]].chat = t[2]
    /\ checker.at = "blocked" =>
          checker.user \in stranded \/ <<checker.user, users[checker.user].chat>> \in refused

NoticesInv ==
    /\ NoticesTypeOK /\ InHand /\ Kept
    /\ ToldPast /\ Remembers /\ NotifiedOnce
    /\ ChatsAgree /\ InactiveWasRefused

-----------------------------------------------------------------------------
(* The notices: what the operations of the store do.                        *)

LEMMA Bounds ==
    /\ Newest \in Nat \ {0} /\ Limit \in Nat \ {0} /\ MaxRuns \in Nat \ {0}
    /\ MayFail \in BOOLEAN /\ Listed \subseteq Users
BY NoticeBounds

LEMMA VersionLists ==
    ASSUME NEW s
    PROVE  s \in BoundedSeq(Versions, Limit)
              <=> s \in Seq(Versions) /\ Len(s) <= Limit
<1>1. BoundedSeq(Versions, Limit) = UNION {[1..m -> Versions] : m \in 0..Limit}
  BY DEF BoundedSeq, SeqOf
<1>2. ASSUME s \in BoundedSeq(Versions, Limit)
      PROVE  s \in Seq(Versions) /\ Len(s) <= Limit
  <2>1. PICK m \in 0..Limit : s \in [1..m -> Versions]
    BY <1>1, <1>2
  <2>2. m \in Nat /\ m <= Limit
    BY <2>1, Bounds
  <2> QED
    BY <2>1, <2>2, SeqDef
<1>3. ASSUME s \in Seq(Versions), Len(s) <= Limit
      PROVE  s \in BoundedSeq(Versions, Limit)
  <2>1. s \in [1..Len(s) -> Versions] /\ Len(s) \in 0..Limit
    BY <1>3, LenProperties, Bounds
  <2> QED
    BY <1>1, <2>1
<1> QED
  BY <1>2, <1>3

\* The list of a user's versions after one more: it holds the new one and nothing but it
\* and versions that were there.
LEMMA LastHeld ==
    ASSUME NEW s \in BoundedSeq(Versions, Limit), NEW v \in Versions
    PROVE  /\ LastVersions(Append(s, v)) \in BoundedSeq(Versions, Limit)
           /\ \E i \in 1..Len(LastVersions(Append(s, v))) : LastVersions(Append(s, v))[i] = v
           /\ \A i \in 1..Len(LastVersions(Append(s, v))) :
                  \/ LastVersions(Append(s, v))[i] = v
                  \/ \E j \in 1..Len(s) : LastVersions(Append(s, v))[i] = s[j]
<1>1. PICK r : r = Append(s, v)
  OBVIOUS
<1>2. s \in Seq(Versions) /\ Len(s) \in Nat /\ Len(s) <= Limit
  BY VersionLists, LenProperties
<1>3. /\ r \in Seq(Versions) /\ Len(r) = Len(s) + 1 /\ r[Len(r)] = v
      /\ \A i \in 1..Len(s) : r[i] = s[i]
  BY <1>1, <1>2, AppendProperties
<1>4. \A i \in 1..Len(r) : r[i] \in Versions /\ (r[i] = v \/ \E j \in 1..Len(s) : r[i] = s[j])
  BY <1>2, <1>3, ElementOfSeq
<1>5. CASE Len(r) <= Limit
  <2>1. LastVersions(r) = r
    BY <1>2, <1>3, <1>5, Bounds DEF LastVersions
  <2>2. Len(r) \in 1..Len(r)
    BY <1>2, <1>3
  <2> QED
    BY <1>1, <1>3, <1>4, <1>5, <2>1, <2>2, VersionLists
<1>6. CASE Len(r) > Limit
  <2>1. PICK q : q = SubSeq(r, Len(r) - Limit + 1, Len(r))
    OBVIOUS
  <2>2. LastVersions(r) = q
    BY <1>6, <2>1 DEF LastVersions
  <2>3. /\ Len(r) - Limit + 1 \in Int /\ Len(r) \in Int
        /\ \A i \in (Len(r) - Limit + 1)..Len(r) : i \in 1..Len(r)
    BY <1>2, <1>3, <1>6, Bounds
  <2>4. \A i \in (Len(r) - Limit + 1)..Len(r) : r[i] \in Versions
    BY <1>4, <2>3
  <2>5. /\ q \in Seq(Versions)
        /\ Len(q) = IF Len(r) - Limit + 1 <= Len(r) THEN Len(r) - (Len(r) - Limit + 1) + 1 ELSE 0
        /\ \A i \in 1..(Len(r) - (Len(r) - Limit + 1) + 1) : q[i] = r[Len(r) - Limit + 1 + i - 1]
    BY <2>1, <2>3, <2>4, SubSeqProperties
  <2>6. Len(q) = Limit
    BY <1>2, <1>3, <2>5, Bounds
  <2>7. \A i \in 1..Limit : q[i] = r[Len(r) - Limit + i] /\ Len(r) - Limit + i \in 1..Len(r)
    BY <1>2, <1>3, <1>6, <2>5, Bounds
  <2>8. Limit \in 1..Len(q) /\ Len(r) - Limit + Limit = Len(r)
    BY <1>2, <1>3, <2>6, Bounds
  <2>9. q[Limit] = v
    BY <1>3, <2>6, <2>7, <2>8
  <2>10. q \in BoundedSeq(Versions, Limit)
    BY <2>5, <2>6, VersionLists, Bounds
  <2> QED
    BY <1>1, <1>4, <2>2, <2>6, <2>7, <2>8, <2>9, <2>10
<1> QED
  BY <1>2, <1>3, <1>5, <1>6, Bounds

LEMMA FileIsRead == NoticesTypeOK => Loaded = file /\ Loaded \in Stores
BY RecordAssumption DEF NoticesTypeOK, Loaded, Read

\* An entry that is there is a record, and the store has an entry for each user.
LEMMA Entry ==
    ASSUME NoticesTypeOK, NEW u \in Users
    PROVE  /\ Recorded(u) <=> users[u] \in Records
           /\ users[u] \in Records \cup {NoRecord}
BY RecordAssumption DEF NoticesTypeOK, Stores, Recorded

\* At most the entry of u changes, and it does not go.
Written(u) ==
    /\ users' \in Stores /\ file' \in {file, users'}
    /\ \A w \in Users \ {u} : users'[w] = users[w]
    /\ \A w \in Users : Recorded(w) => users'[w] # NoRecord

LEMMA EntryWritten ==
    ASSUME NoticesTypeOK, NEW u \in Users, NEW e \in Records, Save([users EXCEPT ![u] = e])
    PROVE  Written(u) /\ users'[u] = e
<1>1. users \in [Users -> Records \cup {NoRecord}]
  BY DEF NoticesTypeOK, Stores
<1>2. users' = [users EXCEPT ![u] = e] /\ file' \in {file, users'}
  BY DEF Save
<1>3. users' \in Stores
  BY <1>1, <1>2 DEF Stores
<1> QED
  BY <1>1, <1>2, <1>3, RecordAssumption DEF Written, Recorded

LEMMA Untouched ==
    ASSUME NoticesTypeOK, UNCHANGED store, NEW u \in Users
    PROVE  Written(u) /\ users'[u] = users[u]
BY DEF NoticesTypeOK, Written, store, Recorded

LEMMA InteractionWritten ==
    ASSUME NoticesTypeOK, NEW u \in Users, NEW c \in Chats, RecordInteraction(u, c)
    PROVE  /\ Written(u)
           /\ users'[u] \in Records /\ users'[u].chat = c /\ users'[u].active
           /\ users'[u].notified = IF Recorded(u) THEN users[u].notified ELSE <<>>
<1> DEFINE n == IF Recorded(u) THEN users[u].notified ELSE <<>>
           e == [chat |-> c, active |-> TRUE, notified |-> n]
<1>1. <<>> \in BoundedSeq(Versions, Limit)
  <2>1. <<>> \in Seq(Versions) /\ Len(<<>>) <= Limit
    BY EmptySeq, Bounds
  <2> QED BY <2>1, VersionLists
<1>2. n \in BoundedSeq(Versions, Limit)
  BY <1>1, Entry DEF Records
<1>3. e \in Records /\ e.chat = c /\ e.active = TRUE /\ e.notified = n
  BY <1>2 DEF Records
<1>4. users \in [Users -> Records \cup {NoRecord}]
  BY DEF NoticesTypeOK, Stores
<1>5. [users EXCEPT ![u] = [chat |-> c, active |-> TRUE,
                            notified |-> IF @ = NoRecord THEN <<>> ELSE @.notified]]
      = [users EXCEPT ![u] = e]
  BY <1>4 DEF Recorded
<1>6. Save([users EXCEPT ![u] = e])
  BY <1>5 DEF RecordInteraction
<1>7. Written(u) /\ users'[u] = e
  <2> HIDE DEF e
  <2> QED BY <1>3, <1>6, EntryWritten
<1> QED
  BY <1>3, <1>7

LEMMA MarkWritten ==
    ASSUME NoticesTypeOK, NEW u \in Users, NEW v \in Versions, MarkNotified(u, v)
    PROVE  /\ Written(u)
           /\ Recorded(u) =>
                 /\ users'[u] \in Records
                 /\ users'[u].chat = users[u].chat /\ users'[u].active = users[u].active
                 /\ \E i \in 1..Len(users'[u].notified) : users'[u].notified[i] = v
                 /\ \A i \in 1..Len(users'[u].notified) :
                       \/ users'[u].notified[i] = v
                       \/ \E j \in 1..Len(users[u].notified) :
                             users'[u].notified[i] = users[u].notified[j]
           /\ ~Recorded(u) => users'[u] = users[u]
<1>1. CASE ~Recorded(u)
  BY <1>1, Untouched DEF MarkNotified, Recorded
<1>2. CASE Recorded(u) /\ IsNotified(u, v)
  <2>1. UNCHANGED store
    BY <1>2 DEF MarkNotified
  <2>2. users[u] \in Records
    BY <1>2, Entry
  <2> QED
    BY <1>2, <2>1, <2>2, Untouched DEF IsNotified, Contains
<1>3. CASE Recorded(u) /\ ~IsNotified(u, v)
  <2>1. users[u] \in Records /\ users[u].notified \in BoundedSeq(Versions, Limit)
    BY <1>3, Entry DEF Records
  <2>2. PICK l : l = LastVersions(Append(users[u].notified, v))
    OBVIOUS
  <2>3. /\ l \in BoundedSeq(Versions, Limit)
        /\ \E i \in 1..Len(l) : l[i] = v
        /\ \A i \in 1..Len(l) : l[i] = v \/ \E j \in 1..Len(users[u].notified) : l[i] = users[u].notified[j]
    BY <2>1, <2>2, LastHeld
  <2>4. PICK e : e = [users[u] EXCEPT !.notified = l]
    OBVIOUS
  <2>5. e \in Records /\ e.chat = users[u].chat /\ e.active = users[u].active /\ e.notified = l
    BY <2>1, <2>3, <2>4 DEF Records
  <2>6. [users EXCEPT ![u].notified = LastVersions(Append(@, v))] = [users EXCEPT ![u] = e]
    BY <2>2, <2>4
  <2>7. Save([users EXCEPT ![u] = e])
    BY <1>3, <2>6 DEF MarkNotified, Recorded
  <2>8. Written(u) /\ users'[u] = e
    BY <2>5, <2>7, EntryWritten
  <2> QED
    BY <1>3, <2>3, <2>5, <2>8
<1> QED
  BY <1>1, <1>2, <1>3

LEMMA InactiveWritten ==
    ASSUME NoticesTypeOK, NEW u \in Users, SetInactive(u)
    PROVE  /\ Written(u)
           /\ Recorded(u) => /\ users'[u] \in Records
                             /\ users'[u].chat = users[u].chat
                             /\ users'[u].notified = users[u].notified
           /\ ~Recorded(u) => users'[u] = users[u]
<1>1. CASE ~Recorded(u)
  BY <1>1, Untouched DEF SetInactive, Recorded
<1>2. CASE Recorded(u)
  <2>1. users[u] \in Records
    BY <1>2, Entry
  <2>2. PICK e : e = [users[u] EXCEPT !.active = FALSE]
    OBVIOUS
  <2>3. e \in Records /\ e.chat = users[u].chat /\ e.notified = users[u].notified
    BY <2>1, <2>2 DEF Records
  <2>4. Save([users EXCEPT ![u] = e])
    BY <1>2, <2>2 DEF SetInactive, Recorded
  <2> QED
    BY <1>2, <2>3, <2>4, EntryWritten
<1> QED
  BY <1>1, <1>2

-----------------------------------------------------------------------------
(* The notices: what the steps of a check do.                               *)

LEMMA Phase ==
    ASSUME InHand
    PROVE  /\ checker = Idle <=> checker.at = "idle"
           /\ checker \in Between <=> checker.at = "next"
           /\ checker \in AtHand <=> checker.at \in {"sent", "blocked"}
BY DEF InHand, Between, AtHand, Idle

\* A user the check comes to.
LEMMA Target ==
    ASSUME NoticesTypeOK, InHand, checker.at = "next", NEW t \in checker.todo
    PROVE  /\ checker \in Between /\ checker # Idle
           /\ t \in Targets /\ t[1] \in Users /\ t[2] \in Chats /\ Recorded(t[1])
           /\ checker.version \in Versions /\ checker.version <= latest
BY Phase DEF InHand, Between, Targets, Idle

\* The user is dropped from the list, or taken in hand.
LEMMA Dropped ==
    ASSUME NoticesTypeOK, InHand, checker.at = "next", NEW t \in checker.todo
    PROVE  /\ With(t) \in Between /\ With(t).at = "next"
           /\ With(t).version = checker.version /\ With(t).todo = checker.todo \ {t}
BY Target DEF With, Between

LEMMA Taken ==
    ASSUME NoticesTypeOK, InHand, checker.at = "next", NEW t \in checker.todo, NEW at \in {"sent", "blocked"}
    PROVE  /\ Now(t, at) \in AtHand /\ Now(t, at).at = at /\ Now(t, at).user = t[1]
           /\ Now(t, at).version = checker.version /\ Now(t, at).todo = checker.todo \ {t}
<1>1. checker.todo \ {t} \in SUBSET Targets /\ t[1] \in Users /\ checker.version \in Versions
  BY Target DEF Between
<1> QED
  BY <1>1 DEF Now, AtHand

\* Recording what was sent, or found blocked, puts the user out of hand.
LEMMA Continued ==
    ASSUME NoticesTypeOK, InHand, checker.at \in {"sent", "blocked"}, Continue
    PROVE  /\ checker' \in Between /\ checker'.at = "next" /\ checker \in AtHand
           /\ checker'.version = checker.version /\ checker'.todo = checker.todo
           /\ checker.user \in Users /\ Recorded(checker.user)
           /\ checker.version \in Versions /\ checker.version <= latest
<1>1. checker \in AtHand /\ checker # Idle
  BY Phase DEF Idle
<1>2. checker.todo \in SUBSET Targets /\ checker.user \in Users /\ checker.version \in Versions
  BY <1>1 DEF AtHand
<1> QED
  BY <1>1, <1>2 DEF Continue, Between, InHand

\* A step is one of these.
Drops(t)   == checker.at = "next" /\ t \in checker.todo /\ (Skip(t) \/ SendFails(t))
Takes(t)   == checker.at = "next" /\ t \in checker.todo /\ (Send(t) \/ SendBlocked(t))
LEMMA Steps ==
    ASSUME [NoticesNext]_noticeVars
    PROVE  \/ \E u \in Users : \E c \in Chats : Message(u, c)
           \/ \E c \in Chats : Block(c) \/ Unblock(c)
           \/ Release \/ Check
           \/ \E t \in checker.todo : Drops(t)
           \/ \E t \in checker.todo : Takes(t)
           \/ Mark \/ MarkInactive \/ EndCheck \/ Restart
           \/ UNCHANGED noticeVars
<1>1. \A u \in Users : ChatsOf[u] \subseteq Chats
  BY DEF Chats
<1> QED
  BY <1>1 DEF NoticesNext, Tell, ForNext, Drops, Takes

-----------------------------------------------------------------------------
(* The notices: types, the list of a check, and the disk.                   *)

\* Memory keeps everybody, and the disk is as it was or like memory.
Grows == /\ users' \in Stores /\ file' \in {file, users'}
         /\ \A w \in Users : Recorded(w) => users'[w] # NoRecord

\* A start takes what is on the disk, or nothing.
LEMMA Started ==
    ASSUME NoticesTypeOK, Restart
    PROVE  /\ users' \in Stores /\ file' = file /\ unread' = (users' # file)
           /\ users' = file \/ \A w \in Users : users'[w] = NoRecord
<1>1. Empty \in Stores /\ \A w \in Users : Empty[w] = NoRecord
  BY DEF Empty, Stores
<1>2. users' \in {Loaded, Empty} /\ file' = file /\ unread' = (users' # Loaded)
  BY DEF Restart
<1> QED
  BY <1>1, <1>2, FileIsRead

LEMMA StoreGrows ==
    ASSUME NoticesTypeOK, InHand, [NoticesNext]_noticeVars
    PROVE  Restart \/ (Grows /\ unread' = unread)
<1> USE DEF Grows
<1>0. ASSUME UNCHANGED store  PROVE Grows
  BY <1>0 DEF store, NoticesTypeOK, Recorded
<1>1. ASSUME NEW u \in Users, NEW c \in Chats, Message(u, c)
      PROVE  Grows
  BY <1>0, <1>1, InteractionWritten DEF Message, Written
<1>2. ASSUME Mark  PROVE Grows
  BY <1>2, Continued, MarkWritten DEF Mark, Written
<1>3. ASSUME MarkInactive  PROVE Grows
  BY <1>3, Continued, InactiveWritten DEF MarkInactive, Written
<1>4. ASSUME \/ \E c \in Chats : Block(c) \/ Unblock(c)
             \/ Release \/ Check \/ EndCheck \/ UNCHANGED noticeVars
             \/ \E t \in checker.todo : Drops(t)
             \/ \E t \in checker.todo : Takes(t)
      PROVE  Grows
  BY <1>0, <1>4 DEF Block, Unblock, Release, Check, EndCheck, Drops, Takes, Skip, SendFails, Send, SendBlocked,
                    noticeVars, store
<1>5. Restart \/ unread' = unread
  BY Steps DEF Message, Block, Unblock, Release, Check, Drops, Takes, Skip, SendFails, Send, SendBlocked, Mark,
               MarkInactive, EndCheck, noticeVars, noticeGhost
<1> QED
  BY <1>1, <1>2, <1>3, <1>4, <1>5, Steps

LEMMA TypeKept ==
    ASSUME NoticesTypeOK, InHand, [NoticesNext]_noticeVars
    PROVE  NoticesTypeOK'
<1>1. users' \in Stores /\ file' \in Stores
  BY StoreGrows, Started DEF NoticesTypeOK, Grows
<1>2. latest' \in Versions /\ current' \in 1..latest'
  <2>1. latest \in Versions /\ current \in 1..latest
    BY DEF NoticesTypeOK
  <2>2. CASE Release
    BY <2>1, <2>2, Bounds DEF Release, Versions
  <2>3. CASE Restart
    BY <2>1, <2>3, Bounds DEF Restart, Versions
  <2>4. CASE UNCHANGED <<latest, current>>
    BY <2>1, <2>4
  <2> QED
    BY <2>2, <2>3, <2>4, Steps
    DEF Message, Block, Unblock, Check, Drops, Takes, Skip, SendFails, Send, SendBlocked, Mark, MarkInactive,
        EndCheck, noticeVars, env
<1>3. allowed' \subseteq Listed /\ blocked' \subseteq Chats /\ runs' \in 1..MaxRuns
  <2>1. allowed \subseteq Listed /\ blocked \subseteq Chats /\ runs \in 1..MaxRuns
    BY DEF NoticesTypeOK
  <2>2. CASE Restart
    BY <2>1, <2>2, Bounds DEF Restart
  <2>3. ASSUME NEW c \in Chats, allowed' = allowed, runs' = runs,
               blocked' = blocked \ {c} \/ blocked' = blocked \cup {c}
        PROVE  allowed' \subseteq Listed /\ blocked' \subseteq Chats /\ runs' \in 1..MaxRuns
    BY <2>1, <2>3
  <2>4. CASE UNCHANGED <<allowed, blocked, runs>>
    BY <2>1, <2>4
  <2> QED
    BY <2>2, <2>3, <2>4, Steps
    DEF Message, Block, Unblock, Release, Check, Drops, Takes, Skip, SendFails, Send, SendBlocked, Mark,
        MarkInactive, EndCheck, noticeVars, env
<1>4. checker'.at \in {"idle", "next", "sent", "blocked"}
  <2>1. ASSUME NEW t \in checker.todo, Drops(t)
        PROVE  checker'.at = "next"
    BY <2>1, Dropped DEF Drops, Skip, SendFails
  <2>2. ASSUME NEW t \in checker.todo, Takes(t)
        PROVE  checker'.at \in {"sent", "blocked"}
    BY <2>2, Taken DEF Takes, Send, SendBlocked
  <2>3. CASE Mark \/ MarkInactive
    BY <2>3, Continued DEF Mark, MarkInactive
  <2>4. CASE checker' = Idle
    BY <2>4 DEF Idle
  <2>5. CASE checker' = checker
    BY <2>5 DEF NoticesTypeOK
  <2>6. CASE Check
    BY <2>6 DEF Check
  <2> QED
    BY <2>1, <2>2, <2>3, <2>4, <2>5, <2>6, Steps
    DEF Message, Block, Unblock, Release, EndCheck, Restart, noticeVars
<1>5. told' \in [Users -> SUBSET Versions] /\ again' \subseteq Users /\ unmarked' \subseteq Users
  <2>1. told \in [Users -> SUBSET Versions] /\ again \subseteq Users /\ unmarked \subseteq Users
    BY DEF NoticesTypeOK
  <2>2. ASSUME NEW t \in checker.todo, Drops(t) \/ Takes(t)
        PROVE  told' \in [Users -> SUBSET Versions] /\ again' \subseteq Users /\ unmarked' \subseteq Users
    <3>1. t[1] \in Users /\ checker.version \in Versions
      BY <2>2, Target DEF Drops, Takes
    <3>2. ASSUME Delivered(t[1], checker.version)
          PROVE  told' \in [Users -> SUBSET Versions] /\ again' \subseteq Users
      BY <2>1, <3>1, <3>2 DEF Delivered
    <3> QED
      BY <2>1, <2>2, <3>1, <3>2 DEF Drops, Takes, Skip, SendFails, Send, SendBlocked, noticeGhost
  <2>3. CASE Restart
    BY <2>1, <2>3 DEF Restart
  <2>4. CASE UNCHANGED <<told, again, unmarked>>
    BY <2>1, <2>4
  <2> QED
    BY <2>2, <2>3, <2>4, Steps
    DEF Message, Block, Unblock, Release, Check, Mark, MarkInactive, EndCheck, noticeVars, noticeGhost
<1>6. unread' \in BOOLEAN
  BY StoreGrows, Started DEF NoticesTypeOK
<1>7. refused' \subseteq Users \X Chats
  <2>1. refused \subseteq Users \X Chats
    BY DEF NoticesTypeOK
  <2>2. CASE refused' \subseteq refused
    BY <2>1, <2>2
  <2>3. ASSUME NEW u \in Users, NEW c \in Chats, Message(u, c)
        PROVE  refused' \subseteq refused
    BY <2>3 DEF Message
  <2>4. ASSUME NEW t \in checker.todo, Takes(t)
        PROVE  refused' \subseteq Users \X Chats
    <3>1. t \in Users \X Chats
      BY <2>4, Target DEF Takes, Targets
    <3>2. refused' = refused \/ refused' = refused \cup {t}
      BY <2>4 DEF Takes, Send, SendBlocked
    <3> QED
      BY <2>1, <3>1, <3>2
  <2> QED
    BY <2>2, <2>3, <2>4, Steps
    DEF Block, Unblock, Release, Check, Drops, Skip, SendFails, Mark, MarkInactive, EndCheck, Restart,
        noticeVars, noticeGhost
<1>8. stranded' \subseteq Users
  <2>1. stranded \subseteq Users
    BY DEF NoticesTypeOK
  <2>2. ASSUME NEW u \in Users, NEW c \in Chats, Message(u, c)
        PROVE  stranded' \subseteq Users
    BY <2>1, <2>2 DEF Message
  <2>3. CASE Restart
    BY <2>1, <2>3 DEF Restart
  <2>4. CASE UNCHANGED stranded
    BY <2>1, <2>4
  <2> QED
    BY <2>2, <2>3, <2>4, Steps
    DEF Block, Unblock, Release, Check, Drops, Takes, Skip, SendFails, Send, SendBlocked, Mark, MarkInactive,
        EndCheck, noticeVars, noticeGhost
<1> QED
  BY <1>1, <1>2, <1>3, <1>4, <1>5, <1>6, <1>7, <1>8 DEF NoticesTypeOK

LEMMA KeptKept ==
    ASSUME NoticesTypeOK, InHand, Kept, [NoticesNext]_noticeVars
    PROVE  Kept'
BY StoreGrows, Started DEF Kept, Grows, Recorded

LEMMA InHandKept ==
    ASSUME NoticesTypeOK, InHand, [NoticesNext]_noticeVars
    PROVE  InHand'
<1>0. NoticesTypeOK' /\ latest' >= latest /\ latest \in Nat /\ latest' \in Nat
  <2>1. NoticesTypeOK'
    BY TypeKept
  <2>2. latest \in Nat /\ latest' \in Nat
    BY <2>1, Bounds DEF NoticesTypeOK, Versions
  <2>3. latest' = latest \/ latest' = latest + 1
    BY Steps DEF Message, Block, Unblock, Release, Check, Drops, Takes, Skip, SendFails, Send, SendBlocked, Mark,
                 MarkInactive, EndCheck, Restart, noticeVars, env
  <2> QED
    BY <2>1, <2>2, <2>3
<1>1. ASSUME NEW t \in checker.todo, Drops(t)
      PROVE  InHand'
  <2>1. /\ checker.at = "next" /\ checker' = With(t) /\ UNCHANGED <<users, latest>>
    BY <1>1 DEF Drops, Skip, SendFails, store, env
  <2>2. checker' \in Between /\ checker'.at = "next" /\ checker'.version = checker.version
        /\ checker'.todo = checker.todo \ {t} /\ checker # Idle
    BY <2>1, Dropped, Target
  <2>3. checker' \notin AtHand
    BY <2>2 DEF AtHand
  <2> QED
    BY <2>1, <2>2, <2>3 DEF InHand, Recorded
<1>2. ASSUME NEW t \in checker.todo, Takes(t)
      PROVE  InHand'
  <2>1. PICK at \in {"sent", "blocked"} :
           checker.at = "next" /\ checker' = Now(t, at) /\ UNCHANGED <<users, latest>>
    BY <1>2 DEF Takes, Send, SendBlocked, store, env
  <2>2. /\ checker' \in AtHand /\ checker'.user = t[1] /\ checker'.version = checker.version
        /\ checker'.todo = checker.todo \ {t}
        /\ checker # Idle /\ Recorded(t[1])
    BY <2>1, Taken, Target
  <2>3. \A s \in checker'.todo : s[1] # t[1]
    BY <2>2 DEF InHand
  <2> QED
    BY <2>1, <2>2, <2>3 DEF InHand, Recorded
<1>3. ASSUME Mark \/ MarkInactive
      PROVE  InHand'
  <2>1. /\ checker.at \in {"sent", "blocked"} /\ Continue /\ latest' = latest
    BY <1>3 DEF Mark, MarkInactive, env
  <2>2. checker \in AtHand /\ checker # Idle
    BY <2>1, Phase DEF Idle
  <2>3. checker' \in Between /\ checker'.version = checker.version /\ checker'.todo = checker.todo
        /\ checker'.at = "next"
    BY <2>1, Continued
  <2>4. checker' \notin AtHand
    BY <2>3 DEF AtHand
  <2>5. \A w \in Users : Recorded(w) => users'[w] # NoRecord
    <3>1. ~Restart
      BY <2>3 DEF Restart, Idle
    <3> QED
      BY <3>1, StoreGrows DEF Grows
  <2>6. checker.todo \in SUBSET Targets
    BY <2>2 DEF AtHand
  <2>7. \A t \in checker.todo : t[1] \in Users
    BY <2>6 DEF Targets
  <2> QED
    BY <2>1, <2>2, <2>3, <2>4, <2>5, <2>7 DEF InHand, Recorded
<1>4. ASSUME checker' = Idle
      PROVE  InHand'
  BY <1>4 DEF InHand, Idle, AtHand
<1>5. ASSUME Check
      PROVE  InHand'
  <2>1. /\ checker' = [at |-> "next", version |-> latest,
                       todo |-> {<<u, users[u].chat>> : u \in ActiveUsers}]
        /\ UNCHANGED <<users, latest>>
    BY <1>5 DEF Check, env, store
  <2>2. \A u \in ActiveUsers : u \in Users /\ Recorded(u) /\ users[u].chat \in Chats
    BY Entry DEF ActiveUsers, Records, Recorded
  <2>3. latest \in Versions
    BY DEF NoticesTypeOK
  <2>4. /\ checker'.version = latest /\ checker'.at = "next"
        /\ checker'.todo = {<<u, users[u].chat>> : u \in ActiveUsers}
    BY <2>1
  <2>5. checker'.todo \in SUBSET Targets
    BY <2>2, <2>4 DEF Targets
  <2>6. checker' \in Between /\ checker' \notin AtHand
    BY <2>1, <2>3, <2>4, <2>5 DEF Between, AtHand
  <2>7. \A s, t \in checker'.todo : s[1] = t[1] => s = t
    BY <2>4
  <2>8. \A t \in checker'.todo : users'[t[1]] # NoRecord
    BY <2>1, <2>2, <2>4 DEF Recorded
  <2> QED
    BY <1>0, <2>1, <2>4, <2>6, <2>7, <2>8 DEF InHand, Recorded
<1>6. ASSUME UNCHANGED checker, checker' # Idle
      PROVE  InHand'
  <2>1. \A w \in Users : Recorded(w) => users'[w] # NoRecord
    BY <1>6, StoreGrows DEF Restart, Grows
  <2>2. checker \in Between \cup AtHand
    BY <1>6 DEF InHand
  <2>3. \A t \in checker.todo : t[1] \in Users
    BY <2>2 DEF Between, AtHand, Targets
  <2>4. checker \in AtHand => checker.user \in Users
    BY DEF AtHand
  <2>5. checker.version \in Versions /\ \A n \in Versions : n \in Nat
    BY <2>2, Bounds DEF Between, AtHand, Versions
  <2>6. checker.version <= latest'
    BY <1>0, <1>6, <2>5 DEF InHand
  <2> QED
    BY <1>6, <2>1, <2>3, <2>4, <2>6 DEF InHand, Recorded
<1> QED
  BY <1>1, <1>2, <1>3, <1>4, <1>5, <1>6, Steps
  DEF Message, Block, Unblock, Release, EndCheck, Restart, noticeVars

LEMMA Initially == NoticesInit => NoticesInv
<1> SUFFICES ASSUME NoticesInit  PROVE NoticesInv
  OBVIOUS
<1>1. Empty \in Stores /\ \A u \in Users : Empty[u] = NoRecord
  BY DEF Empty, Stores
<1>2. 1 \in Versions /\ 1 \in 1..1 /\ 1 \in 1..MaxRuns
  BY Bounds DEF Versions
<1>3. checker \notin AtHand /\ checker.at = "idle"
  BY DEF NoticesInit, Idle, AtHand
<1>4. NoticesTypeOK
  BY <1>1, <1>2, <1>3, Bounds DEF NoticesInit, NoticesTypeOK
<1>5. InHand /\ Kept
  BY <1>1, <1>3 DEF NoticesInit, InHand, Kept
<1>6. ToldPast /\ Remembers /\ NotifiedOnce
  BY <1>1, <1>3 DEF NoticesInit, ToldPast, Remembers, NotifiedOnce, Recorded
<1>7. ChatsAgree /\ InactiveWasRefused
  BY <1>1, <1>3 DEF NoticesInit, ChatsAgree, InactiveWasRefused, Inactive
<1> QED
  BY <1>4, <1>5, <1>6, <1>7 DEF NoticesInv

-----------------------------------------------------------------------------
(* The notices: who was told of what.                                       *)

\* Versions are numbers, and what is told and remembered are versions.
LEMMA VersionsAre ==
    ASSUME NoticesTypeOK
    PROVE  /\ \A n \in Versions : n \in Nat
           /\ latest \in Versions
           /\ \A u \in Users : told[u] \subseteq Versions
           /\ \A u \in Users : Recorded(u) =>
                 \A i \in 1..Len(users[u].notified) : users[u].notified[i] \in Versions
           /\ \A u \in Users : file[u] # NoRecord =>
                 \A i \in 1..Len(file[u].notified) : file[u].notified[i] \in Versions
<1>1. \A e \in Records : \A i \in 1..Len(e.notified) : e.notified[i] \in Versions
  <2>1. \A e \in Records : e.notified \in Seq(Versions)
    BY VersionLists DEF Records
  <2> QED
    BY <2>1, ElementOfSeq
<1>2. \A u \in Users : file[u] # NoRecord => file[u] \in Records
  BY DEF NoticesTypeOK, Stores
<1>3. \A u \in Users : Recorded(u) => users[u] \in Records
  BY Entry
<1>4. \A n \in Versions : n \in Nat
  BY Bounds DEF Versions
<1> QED
  BY <1>1, <1>2, <1>3, <1>4 DEF NoticesTypeOK

\* A version becomes one told when a check comes to a user who is not remembered as told.
NowTold(w, t) == /\ t \in checker.todo /\ t[1] = w /\ checker.at = "next" /\ ToBeTold(w)
                 /\ Drops(t) \/ Takes(t)
LEMMA ToldBy ==
    ASSUME NoticesTypeOK, InHand, [NoticesNext]_noticeVars, NEW w \in Users, NEW v \in told'[w]
    PROVE  \/ v \in told[w]
           \/ v = checker.version /\ \E t \in checker.todo : NowTold(w, t)
<1>1. ASSUME NEW t \in checker.todo, Drops(t) \/ Takes(t), told' # told
      PROVE  v \in told[w] \/ (v = checker.version /\ NowTold(w, t))
  <2>1. Delivered(t[1], checker.version) /\ ToBeTold(t[1]) /\ checker.at = "next"
    BY <1>1 DEF Drops, Takes, Skip, SendFails, Send, SendBlocked, noticeGhost
  <2> QED
    BY <1>1, <2>1 DEF Delivered, NowTold, NoticesTypeOK
<1>2. CASE told' = told
  BY <1>2
<1> QED
  BY <1>1, <1>2, Steps
  DEF Message, Block, Unblock, Release, Check, Mark, MarkInactive, EndCheck, Restart, noticeVars, noticeGhost

\* A version becomes one remembered when it is marked.
LEMMA RememberedBy ==
    ASSUME NoticesTypeOK, InHand, [NoticesNext]_noticeVars, ~Restart, NEW w \in Users, users'[w] # NoRecord,
           NEW i \in 1..Len(users'[w].notified)
    PROVE  \/ Mark /\ checker.user = w /\ users'[w].notified[i] = checker.version
           \/ Recorded(w) /\ \E j \in 1..Len(users[w].notified) :
                                users'[w].notified[i] = users[w].notified[j]
<1>1. CASE users'[w] = users[w]
  BY <1>1 DEF Recorded
<1>2. ASSUME NEW u \in Users, NEW c \in Chats, Message(u, c), users'[w] # users[w]
      PROVE  Recorded(w) /\ users'[w].notified = users[w].notified
  <2>1. RecordInteraction(u, c)
    BY <1>2 DEF Message, store
  <2>2. w = u /\ users'[w].notified = IF Recorded(w) THEN users[w].notified ELSE <<>>
    BY <1>2, <2>1, InteractionWritten DEF Written
  <2>3. 1..Len(<<>>) = {}
    OBVIOUS
  <2> QED
    BY <2>2, <2>3
<1>3. CASE Mark /\ users'[w] # users[w]
  <2>1. /\ MarkNotified(checker.user, checker.version) /\ checker.user \in Users
        /\ checker.version \in Versions /\ Recorded(checker.user)
    BY <1>3, Continued DEF Mark
  <2> QED
    BY <1>3, <2>1, MarkWritten DEF Written
<1>4. CASE MarkInactive /\ users'[w] # users[w]
  <2>1. /\ SetInactive(checker.user) /\ checker.user \in Users /\ Recorded(checker.user)
    BY <1>4, Continued DEF MarkInactive
  <2> QED
    BY <1>4, <2>1, InactiveWritten DEF Written
<1> QED
  BY <1>1, <1>2, <1>3, <1>4, Steps
  DEF Block, Unblock, Release, Check, Drops, Takes, Skip, SendFails, Send, SendBlocked, EndCheck, noticeVars, store

\* What is past stays past, and so does the version a check tells.
LEMMA PastOn ==
    ASSUME NoticesTypeOK, InHand, [NoticesNext]_noticeVars, NEW v \in Versions, Past(v)
    PROVE  v <= latest' /\ (checker' # Idle => v <= checker'.version)
<1>0. /\ v \in Nat /\ latest \in Nat /\ latest' \in Nat /\ v <= latest
      /\ checker # Idle => v <= checker.version
  BY TypeKept, Bounds DEF NoticesTypeOK, Past, Versions
<1>1. latest' = latest \/ latest' = latest + 1
  BY Steps DEF Message, Block, Unblock, Release, Check, Drops, Takes, Skip, SendFails, Send, SendBlocked, Mark,
               MarkInactive, EndCheck, Restart, noticeVars, env
<1>2. ASSUME NEW t \in checker.todo, Drops(t) \/ Takes(t)
      PROVE  checker'.version = checker.version /\ checker # Idle
  BY <1>2, Dropped, Taken, Target DEF Drops, Takes, Skip, SendFails, Send, SendBlocked
<1>3. CASE Mark \/ MarkInactive
  BY <1>0, <1>1, <1>3, Continued, Phase DEF Mark, MarkInactive, Idle
<1>4. CASE Check
  BY <1>0, <1>1, <1>4 DEF Check
<1> QED
  BY <1>0, <1>1, <1>2, <1>3, <1>4, Steps
  DEF Message, Block, Unblock, Release, EndCheck, Restart, noticeVars

LEMMA PastKept ==
    ASSUME NoticesInv, [NoticesNext]_noticeVars
    PROVE  ToldPast'
<1>0. NoticesTypeOK /\ InHand /\ ToldPast /\ NoticesTypeOK'
  BY TypeKept DEF NoticesInv
<1>1. ASSUME checker # Idle  PROVE checker.version \in Versions /\ Past(checker.version)
  <2>1. checker \in Between \cup AtHand
    BY <1>0, <1>1 DEF InHand
  <2>2. checker.version \in Versions
    BY <2>1 DEF Between, AtHand
  <2> QED
    BY <1>0, <1>1, <2>2, VersionsAre DEF Past, InHand
<1>2. ASSUME NEW u \in Users, NEW v \in told'[u]
      PROVE  v <= latest' /\ (checker' # Idle => v <= checker'.version)
  <2>1. v \in Versions /\ Past(v)
    BY <1>0, <1>1, <1>2, ToldBy, VersionsAre, Phase DEF ToldPast, NowTold
  <2> QED
    BY <1>0, <2>1, PastOn
<1>3. ASSUME NEW u \in Users, users'[u] # NoRecord, NEW i \in 1..Len(users'[u].notified), ~Restart
      PROVE  users'[u].notified[i] <= latest'
             /\ (checker' # Idle => users'[u].notified[i] <= checker'.version)
  <2>1. CASE Mark /\ users'[u].notified[i] = checker.version
    BY <1>0, <1>1, <2>1, PastOn, Phase DEF Mark
  <2>2. ASSUME Recorded(u), NEW j \in 1..Len(users[u].notified),
               users'[u].notified[i] = users[u].notified[j]
        PROVE  users'[u].notified[i] <= latest'
               /\ (checker' # Idle => users'[u].notified[i] <= checker'.version)
    <3>1. users[u].notified[j] \in Versions /\ Past(users[u].notified[j])
      BY <1>0, <2>2, VersionsAre DEF ToldPast
    <3> QED
      BY <1>0, <2>2, <3>1, PastOn
  <2> QED
    BY <1>0, <1>3, <2>1, <2>2, RememberedBy
<1>4. CASE Restart
  <2>1. file' = file /\ latest' = latest /\ checker' = Idle
        /\ \A w \in Users : users'[w] \in {file[w], NoRecord}
    BY <1>0, <1>4, Started DEF Restart
  <2> QED
    BY <1>0, <1>2, <2>1 DEF ToldPast, Past, Recorded
<1>5. CASE ~Restart
  <2>1. file' \in {file, users'}
    BY <1>0, <1>5, StoreGrows DEF Grows
  <2>2. \A n \in Versions : n <= latest => n <= latest'
    <3>1. latest' = latest \/ latest' = latest + 1
      BY Steps DEF Message, Block, Unblock, Release, Check, Drops, Takes, Skip, SendFails, Send, SendBlocked, Mark,
                   MarkInactive, EndCheck, noticeVars, env, Restart
    <3> QED
      BY <1>0, <3>1, VersionsAre
  <2>3. ASSUME NEW u \in Users, file'[u] # NoRecord, NEW i \in 1..Len(file'[u].notified)
        PROVE  file'[u].notified[i] <= latest'
    BY <1>0, <1>3, <1>5, <2>1, <2>2, <2>3, VersionsAre DEF ToldPast
  <2> QED
    BY <1>2, <1>3, <1>5, <2>3 DEF ToldPast, Past, Recorded
<1> QED
  BY <1>4, <1>5

\* Unless the bot starts anew, what is remembered of a version told is not lost.
LEMMA StaysRemembered ==
    ASSUME NoticesTypeOK, InHand, [NoticesNext]_noticeVars, ~Restart, NEW u \in Users,
           NEW v \in Versions, Past(v), NotBefore(u, v)
    PROVE  users'[u] # NoRecord /\ \E i \in 1..Len(users'[u].notified) : users'[u].notified[i] >= v
<1>1. CASE users'[u] = users[u]
  BY <1>1 DEF NotBefore, Recorded
<1>2. ASSUME NEW w \in Users, NEW c \in Chats, Message(w, c), users'[u] # users[u]
      PROVE  users'[u] # NoRecord /\ users'[u].notified = users[u].notified
  <2>1. RecordInteraction(w, c)
    BY <1>2 DEF Message, store
  <2> QED
    BY <1>2, <2>1, InteractionWritten DEF Written, NotBefore
<1>3. CASE Mark /\ users'[u] # users[u]
  <2>1. /\ MarkNotified(checker.user, checker.version) /\ checker.user \in Users
        /\ checker.version \in Versions /\ Recorded(checker.user) /\ checker # Idle
    BY <1>3, Continued, Phase DEF Mark, Idle
  <2>2. /\ users'[u] # NoRecord
        /\ \E i \in 1..Len(users'[u].notified) : users'[u].notified[i] = checker.version
    BY <1>3, <2>1, MarkWritten DEF Written
  <2>3. checker.version >= v
    BY <2>1, VersionsAre DEF Past
  <2> QED
    BY <2>2, <2>3
<1>4. CASE MarkInactive /\ users'[u] # users[u]
  <2>1. /\ SetInactive(checker.user) /\ checker.user \in Users /\ Recorded(checker.user)
    BY <1>4, Continued DEF MarkInactive
  <2> QED
    BY <1>4, <2>1, InactiveWritten DEF Written, NotBefore, Recorded
<1> QED
  BY <1>1, <1>2, <1>3, <1>4, Steps
  DEF NotBefore, Block, Unblock, Release, Check, Drops, Takes, Skip, SendFails, Send, SendBlocked, EndCheck, noticeVars,
      store

LEMMA UnmarkedGrows == ASSUME [NoticesNext]_noticeVars  PROVE unmarked \subseteq unmarked'
BY Steps DEF Message, Block, Unblock, Release, Check, Drops, Takes, Skip, SendFails, Send, SendBlocked, Mark,
             MarkInactive, EndCheck, Restart, noticeVars, noticeGhost

LEMMA RemembersKept ==
    ASSUME NoticesInv, [NoticesNext]_noticeVars
    PROVE  Remembers'
<1>0. NoticesTypeOK /\ InHand /\ ToldPast /\ Remembers
  BY DEF NoticesInv
<1> SUFFICES ASSUME NEW u \in Users, u \notin unmarked', NEW v \in told'[u]
             PROVE  \/ checker'.at = "sent" /\ checker'.user = u
                    \/ users'[u] # NoRecord /\ \E i \in 1..Len(users'[u].notified) : users'[u].notified[i] >= v
  BY DEF Remembers, Pending, NotBefore, Recorded
<1>1. u \notin unmarked
  BY UnmarkedGrows
<1>2. CASE v \in told[u]
  <2>1. v \in Versions /\ Past(v)
    BY <1>0, <1>2, VersionsAre DEF ToldPast
  <2>2. Pending(u) \/ NotBefore(u, v)
    BY <1>0, <1>1, <1>2 DEF Remembers
  <2>3. CASE Restart
    <3>1. users'[u] = users[u] /\ ~Pending(u)
      BY <2>3 DEF Restart, Pending
    <3> QED
      BY <2>2, <3>1 DEF NotBefore, Recorded
  <2>4. CASE ~Restart /\ NotBefore(u, v)
    BY <1>0, <2>1, <2>4, StaysRemembered
  <2>5. CASE Mark /\ Pending(u)
    <3>1. /\ MarkNotified(u, checker.version) /\ checker.version \in Versions /\ Recorded(u)
          /\ checker # Idle
      BY <1>0, <2>5, Continued, Phase DEF Mark, Pending, Idle
    <3>2. /\ users'[u] # NoRecord
          /\ \E i \in 1..Len(users'[u].notified) : users'[u].notified[i] = checker.version
      BY <1>0, <3>1, MarkWritten DEF Written
    <3>3. checker.version >= v
      BY <1>0, <2>1, <3>1, VersionsAre DEF Past
    <3> QED
      BY <3>2, <3>3
  <2>6. CASE UNCHANGED checker /\ Pending(u)
    BY <2>6 DEF Pending
  <2>7. Pending(u) /\ ~Restart /\ ~Mark => UNCHANGED checker
    BY Steps DEF Pending, Message, Block, Unblock, Release, Check, Drops, Takes, MarkInactive, EndCheck, noticeVars
  <2> QED
    BY <2>2, <2>3, <2>4, <2>5, <2>6, <2>7
<1>3. ASSUME v \notin told[u]
      PROVE  checker'.at = "sent" /\ checker'.user = u
  <2>1. PICK t \in checker.todo : NowTold(u, t)
    BY <1>0, <1>3, ToldBy
  <2>2. CASE Send(t)
    BY <1>0, <2>1, <2>2, Taken DEF Send, NowTold
  <2>3. ~Send(t) => told' = told \/ u \in unmarked'
    BY <2>1 DEF NowTold, Drops, Takes, Skip, SendFails, SendBlocked, noticeGhost
  <2> QED
    BY <1>3, <2>2, <2>3
<1> QED
  BY <1>2, <1>3

LEMMA OnceKept ==
    ASSUME NoticesInv, [NoticesNext]_noticeVars
    PROVE  NotifiedOnce'
<1>0. NoticesTypeOK /\ InHand /\ ToldPast /\ Remembers /\ NotifiedOnce
  BY DEF NoticesInv
<1>1. ASSUME NEW u \in Users, NEW t \in checker.todo, t[1] = u, checker.at = "next", ToBeTold(u),
             checker.version \in told[u]
      PROVE  u \in unmarked
  <2> SUFFICES ASSUME u \notin unmarked  PROVE FALSE
    OBVIOUS
  <2>1. NotBefore(u, checker.version)
    BY <1>0, <1>1 DEF Remembers, Pending
  <2>2. PICK i \in 1..Len(users[u].notified) : users[u].notified[i] >= checker.version
    BY <2>1 DEF NotBefore
  <2>3. users[u].notified[i] <= checker.version
    BY <1>0, <1>1, <2>1, <2>2, Phase DEF ToldPast, Past, NotBefore
  <2>4. users[u].notified[i] \in Nat /\ checker.version \in Nat
    BY <1>0, <1>1, <2>1, <2>2, VersionsAre, Target DEF NotBefore
  <2>5. users[u].notified[i] = checker.version
    BY <2>2, <2>3, <2>4
  <2> QED
    BY <1>1, <2>1, <2>2, <2>5 DEF ToBeTold, IsNotified, Contains, NotBefore, Recorded
<1>2. ASSUME NEW t \in checker.todo, Drops(t) \/ Takes(t)
      PROVE  again' \subseteq unmarked'
  <2>1. \/ UNCHANGED again
        \/ /\ checker.at = "next" /\ ToBeTold(t[1])
           /\ again' = IF checker.version \in told[t[1]] THEN again \cup {t[1]} ELSE again
    BY <1>2 DEF Drops, Takes, Skip, SendFails, Send, SendBlocked, Delivered, noticeGhost
  <2>2. t[1] \in Users
    BY <1>0, <1>2, Target DEF Drops, Takes
  <2> QED
    BY <1>0, <1>1, <2>1, <2>2, UnmarkedGrows DEF NotifiedOnce
<1>3. CASE UNCHANGED again
  BY <1>0, <1>3, UnmarkedGrows DEF NotifiedOnce
<1> QED
  BY <1>2, <1>3, Steps
  DEF NotifiedOnce, Message, Block, Unblock, Release, Check, Mark, MarkInactive, EndCheck, Restart, noticeVars, noticeGhost

-----------------------------------------------------------------------------
(* The notices: who is left out.                                            *)

LEMMA AgreeKept ==
    ASSUME NoticesInv, [NoticesNext]_noticeVars
    PROVE  ChatsAgree'
<1>0. NoticesTypeOK /\ InHand /\ ChatsAgree
  BY DEF NoticesInv
<1>1. ASSUME NEW u \in Users, NEW c \in Chats, Message(u, c)
      PROVE  ChatsAgree'
  <2>1. \A w \in Users \ {u} : users'[w] = users[w]
    BY <1>0, <1>1, InteractionWritten DEF Message, Written, store
  <2>2. checker' = checker /\ \A x \in refused : x[1] # u => x \in refused'
    BY <1>1 DEF Message
  <2>3. /\ \A w \in Users \ {u} : w \in stranded => w \in stranded'
        /\ BeingTold(u) => \/ u \in stranded'
                           \/ UNCHANGED <<store, refused, stranded>>
    BY <1>1 DEF Message
  <2>4. CASE BeingTold(u) /\ UNCHANGED <<store, refused, stranded>>
    BY <1>0, <2>2, <2>4 DEF ChatsAgree, store
  <2>5. CASE ~BeingTold(u) \/ u \in stranded'
    <3>1. ASSUME checker # Idle, NEW t \in checker.todo
          PROVE  t[1] \in stranded' \/ users'[t[1]].chat = t[2]
      <4>1. t[1] \in Users /\ checker.at # "idle"
        BY <1>0, <3>1, Phase DEF InHand, Between, AtHand, Targets
      <4>2. BeingTold(t[1])
        BY <3>1, <4>1 DEF BeingTold
      <4> QED
        BY <1>0, <2>1, <2>3, <2>5, <3>1, <4>1, <4>2 DEF ChatsAgree
    <3>2. ASSUME checker.at = "blocked"
          PROVE  checker.user \in stranded' \/ <<checker.user, users'[checker.user].chat>> \in refused'
      <4>1. checker.user \in Users
        BY <1>0, <3>2, Phase DEF AtHand
      <4>2. BeingTold(checker.user)
        BY <3>2 DEF BeingTold
      <4>3. CASE checker.user = u
        BY <2>5, <4>2, <4>3
      <4>4. CASE checker.user # u
        BY <1>0, <2>1, <2>2, <2>3, <3>2, <4>1, <4>4 DEF ChatsAgree
      <4> QED
        BY <4>3, <4>4
    <3> QED
      BY <2>2, <3>1, <3>2 DEF ChatsAgree
  <2> QED
    BY <2>3, <2>4, <2>5
<1>2. ASSUME Check
      PROVE  ChatsAgree'
  BY <1>2 DEF Check, ChatsAgree, store
<1>3. ASSUME NEW t \in checker.todo, Drops(t)
      PROVE  ChatsAgree'
  <2>1. /\ checker.at = "next" /\ checker' = With(t) /\ UNCHANGED <<users, refused, stranded>>
    BY <1>3 DEF Drops, Skip, SendFails, store, noticeGhost
  <2>2. checker'.at = "next" /\ checker'.todo = checker.todo \ {t} /\ checker # Idle
    BY <1>0, <2>1, Dropped, Target
  <2> QED
    BY <1>0, <2>1, <2>2 DEF ChatsAgree
<1>4. ASSUME NEW t \in checker.todo, Takes(t)
      PROVE  ChatsAgree'
  <2>1. PICK at \in {"sent", "blocked"} :
           /\ checker.at = "next" /\ checker' = Now(t, at) /\ UNCHANGED <<users, stranded>>
           /\ at = "blocked" => t \in refused'
    BY <1>4 DEF Takes, Send, SendBlocked, store
  <2>2. /\ checker'.at = at /\ checker'.todo = checker.todo \ {t} /\ checker # Idle
        /\ checker'.user = t[1]
    BY <1>0, <2>1, Taken, Target
  <2>3. t = <<t[1], t[2]>>
    BY <1>0, <2>1, Target DEF Targets
  <2> QED
    BY <1>0, <2>1, <2>2, <2>3 DEF ChatsAgree
<1>5. ASSUME Mark \/ MarkInactive
      PROVE  ChatsAgree'
  <2>1. checker.at \in {"sent", "blocked"} /\ Continue /\ UNCHANGED <<refused, stranded>>
    BY <1>5 DEF Mark, MarkInactive, noticeGhost
  <2>2. /\ checker'.at = "next" /\ checker'.todo = checker.todo /\ checker \in AtHand
        /\ checker.user \in Users /\ checker.version \in Versions /\ checker # Idle
        /\ Recorded(checker.user)
    BY <1>0, <2>1, Continued, Phase DEF Idle
  <2>3. \A t \in checker.todo : t[1] \in Users /\ t[1] # checker.user
    BY <1>0, <2>2 DEF InHand, AtHand, Targets
  <2>4. \A w \in Users \ {checker.user} : users'[w] = users[w]
    BY <1>0, <1>5, <2>2, MarkWritten, InactiveWritten DEF Mark, MarkInactive, Written
  <2> QED
    BY <1>0, <2>1, <2>2, <2>3, <2>4 DEF ChatsAgree
<1>6. CASE checker' = Idle
  BY <1>6 DEF ChatsAgree, Idle
<1>7. CASE checker' = checker /\ users' = users /\ stranded' = stranded /\ refused' = refused
  BY <1>0, <1>7 DEF ChatsAgree
<1> QED
  BY <1>1, <1>2, <1>3, <1>4, <1>5, <1>6, <1>7, Steps
  DEF Block, Unblock, Release, EndCheck, Restart, noticeVars, env, store, noticeGhost

LEMMA RefusedKept ==
    ASSUME NoticesInv, [NoticesNext]_noticeVars
    PROVE  InactiveWasRefused'
<1>0. NoticesTypeOK /\ InHand /\ ChatsAgree /\ InactiveWasRefused
  BY DEF NoticesInv
<1> SUFFICES ASSUME NEW u \in Users, users'[u] # NoRecord, ~users'[u].active, u \notin stranded'
             PROVE  <<u, users'[u].chat>> \in refused'
  BY DEF InactiveWasRefused, Inactive
<1>1. ASSUME NEW w \in Users, NEW c \in Chats, Message(w, c)
      PROVE  <<u, users'[u].chat>> \in refused'
  <2>1. CASE UNCHANGED <<store, refused, stranded>>
    BY <1>0, <2>1 DEF InactiveWasRefused, Inactive, store
  <2>2. CASE /\ RecordInteraction(w, c) /\ refused' = {t \in refused : t[1] # w}
             /\ stranded \subseteq stranded' \cup {w}
    <3>1. u # w /\ users'[u] = users[u]
      BY <1>0, <2>2, InteractionWritten DEF Written
    <3> QED
      BY <1>0, <2>2, <3>1 DEF InactiveWasRefused, Inactive
  <2> QED
    BY <1>1, <2>1, <2>2 DEF Message
<1>2. CASE Mark
  <2>1. /\ MarkNotified(checker.user, checker.version) /\ checker.user \in Users
        /\ checker.version \in Versions /\ Recorded(checker.user)
        /\ UNCHANGED <<refused, stranded>>
    BY <1>0, <1>2, Continued DEF Mark, noticeGhost
  <2>2. users[u] # NoRecord /\ users'[u].chat = users[u].chat /\ users'[u].active = users[u].active
    BY <1>0, <2>1, MarkWritten DEF Written, Recorded
  <2> QED
    BY <1>0, <2>1, <2>2 DEF InactiveWasRefused, Inactive
<1>3. CASE MarkInactive
  <2>1. /\ SetInactive(checker.user) /\ checker.user \in Users /\ Recorded(checker.user)
        /\ checker.at = "blocked" /\ UNCHANGED <<refused, stranded>>
    BY <1>0, <1>3, Continued DEF MarkInactive, noticeGhost
  <2>2. CASE u = checker.user
    BY <1>0, <2>1, <2>2, InactiveWritten DEF ChatsAgree
  <2>3. CASE u # checker.user
    BY <1>0, <2>1, <2>3, InactiveWritten DEF Written, InactiveWasRefused, Inactive
  <2> QED
    BY <2>2, <2>3
<1>4. CASE Restart
  <2>1. users'[u] = users[u] /\ u \notin stranded /\ refused' = refused
    BY <1>4 DEF Restart
  <2> QED
    BY <1>0, <2>1 DEF InactiveWasRefused, Inactive
<1>5. CASE users' = users /\ stranded' = stranded /\ refused \subseteq refused'
  BY <1>0, <1>5 DEF InactiveWasRefused, Inactive
<1> QED
  BY <1>1, <1>2, <1>3, <1>4, <1>5, Steps
  DEF Block, Unblock, Release, Check, Drops, Takes, Skip, SendFails, Send, SendBlocked, EndCheck, noticeVars,
      store, noticeGhost

-----------------------------------------------------------------------------
(* Theorems about the notices.                                              *)

LEMMA Invariant == NoticesSpec => []NoticesInv
<1>1. NoticesInv /\ [NoticesNext]_noticeVars => NoticesInv'
  BY TypeKept, InHandKept, KeptKept, PastKept, RemembersKept, OnceKept, AgreeKept, RefusedKept
  DEF NoticesInv
<1> QED
  BY Initially, <1>1, PTL DEF NoticesSpec

\* For any users and chats, and whatever fails, variables keep their types: in particular
\* chats.json can be read back after every save.
THEOREM NoticesTypeCorrect == NoticesSpec => []NoticesTypeOK
<1>1. NoticesInv => NoticesTypeOK
  BY DEF NoticesInv
<1> QED
  BY Invariant, <1>1, PTL

\* The bot does not lose its users: one who is on the disk stays there, whether a save
\* fails, the process ends between saves, or it starts with the list anew; so long as
\* the process at work could read chats.json when it started.
THEOREM UsersStay == NoticesSpec => NobodyForgotten
<1>1. NoticesInv /\ NoticesInv' /\ [NoticesNext]_noticeVars =>
         (~unread => \A u \in Users : Loaded[u] # NoRecord => Loaded'[u] # NoRecord)
  <2> SUFFICES ASSUME NoticesInv, NoticesInv', [NoticesNext]_noticeVars, ~unread
               PROVE  \A u \in Users : Loaded[u] # NoRecord => Loaded'[u] # NoRecord
    OBVIOUS
  <2>1. file \in Stores /\ file' \in Stores
    BY DEF NoticesInv, NoticesTypeOK
  <2>2. Loaded = file /\ Loaded' = file'
    BY <2>1, RecordAssumption DEF Loaded, Read
  <2> QED
    BY <2>2, StoreGrows, Started DEF NoticesInv, Kept, Grows, Recorded
<1> QED
  BY Invariant, <1>1, PTL DEF NoticesSpec, NobodyForgotten

\* However many versions there are and however few of them a record remembers, nobody is
\* told of the same one twice; the exceptions are those of unmarked.
THEOREM ToldOnce == NoticesSpec => []NotifiedOnce
<1>1. NoticesInv => NotifiedOnce
  BY DEF NoticesInv
<1> QED
  BY Invariant, <1>1, PTL

\* Whoever is left out of the notices had one refused in the chat the bot knows, and has had
\* no message recorded since, for any users who share any chats; the exceptions are those
\* of stranded.
THEOREM OnlyRefusedAreLeftOut == NoticesSpec => []InactiveWasRefused
<1>1. NoticesInv => InactiveWasRefused
  BY DEF NoticesInv
<1> QED
  BY Invariant, <1>1, PTL
=============================================================================
