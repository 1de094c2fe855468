-------------------------- MODULE ConfigStore_proofs --------------------------
(****************************************************************************)
(* For any number of web requests, any clients, tunnels and servers, and    *)
(* any choice of operations of the web UI and the bot: the configuration    *)
(* file has two writers only - ConfigStore implements TwoWriters -, it is   *)
(* unreadable for known reasons only, and an import changes both files.     *)
(****************************************************************************)
EXTENDS ConfigStore, TLAPS

\* Where a request of the web UI works on the files.
Inside == {"generate", "load", "save", "write", "saveList", "writeList", "script"}

OpsOf(a) == IF a = Bot THEN BotOps ELSE WebOps

Typed ==
    /\ mutex \in Requests \cup {None}
    /\ pc \in [Actors -> Labels]
    /\ op \in [Actors -> WebOps \cup BotOps \cup {NoOp}]
    /\ copy \in [Actors -> Configs \cup {None}]
    /\ found \in [Actors -> Lists \cup {<<>>}]

\* A request is at work under the mutex only; the bot never asks for it.
Guarded(a) ==
    /\ a \in Requests /\ pc[a] \in Inside => mutex = a
    /\ a = Bot => pc[a] # "lock"

\* A copy is held from the load to the end of the write; the wizard reads the list
\* of servers in between.
Holds(a) ==
    /\ pc[a] # "idle" => op[a] \in OpsOf(a)
    /\ copy[a] # None => \/ pc[a] \in {"save", "write"}
                         \/ a = Bot /\ pc[a] \in {"readList", "end"}
    /\ pc[a] \in {"save", "write"} => copy[a] # None
    /\ pc[a] = "readList" => \/ op[a].kind \in {"select", "xray"} /\ copy[a] = None
                             \/ op[a].kind = "wizard" /\ copy[a] # None

\* The list that was read is one the operation can use.
Chosen(a) ==
    /\ pc[a] = "idle" => found[a] = <<>>
    /\ op[a].kind \notin {"select", "xray", "wizard"} => found[a] = <<>>
    /\ op[a].kind = "select" /\ pc[a] \in {"lock", "generate", "load", "save", "write"}
          => found[a] \in ListsFor(op[a])
    /\ op[a].kind = "wizard" /\ pc[a] \in {"save", "write"} => found[a] \in Lists
    /\ op[a].kind = "xray" => pc[a] \in {"readList", "generate", "script", "end"}
    /\ pc[a] \in {"saveList", "writeList"} => op[a].kind = "import"

Local(a) == Guarded(a) /\ Holds(a) /\ Chosen(a)
StoreInv == Typed /\ \A a \in Actors : Local(a)

-----------------------------------------------------------------------------
(* The order of the steps.                                                  *)

LEMMA FirstLabels ==
    ASSUME NEW a \in Actors, NEW o \in OpsOf(a)
    PROVE  /\ First(a, o.kind) \in Labels
           /\ a \in Requests => First(a, o.kind) \in {"readList", "lock"}
           /\ a = Bot => First(a, o.kind) \in {"readList", "load", "saveList", "script"}
           /\ First(a, o.kind) = "readList" <=> o.kind \in {"select", "xray"}
           /\ First(a, o.kind) = "saveList" => o.kind = "import"
           /\ o.kind = "select" => a # Bot
           /\ o.kind \in {"xray", "wizard"} => a = Bot
<1>1. CASE a = Bot
  <2>1. o.kind \in BotKinds /\ a \notin Requests
    BY <1>1, ActorAssumption, OpAssumption DEF OpsOf
  <2>2. o.kind # "select"
    BY <2>1 DEF BotKinds
  <2> QED BY <1>1, <2>1, <2>2 DEF Labels, First, FirstOfBot, FirstOfWeb
<1>2. CASE a # Bot
  <2>1. o.kind \in WebKinds
    BY <1>2, OpAssumption DEF OpsOf
  <2>2. o.kind # "xray" /\ o.kind # "wizard"
    BY <2>1 DEF WebKinds
  <2> QED BY <1>2, <2>2 DEF Labels, First, FirstOfBot, FirstOfWeb
<1> QED BY <1>1, <1>2

LEMMA AfterLabels ==
    ASSUME NEW k
    PROVE  /\ After(k, "lock") = IF k = "select" THEN "generate"
                                 ELSE IF k = "import" THEN "saveList"
                                 ELSE IF k = "script" THEN "script" ELSE "load"
           /\ After(k, "readList") = IF k = "select" THEN "lock"
                                     ELSE IF k = "xray" THEN "generate" ELSE "save"
           /\ After(k, "generate") = IF k = "select" THEN "load" ELSE "script"
           /\ After(k, "load") = IF k = "wizard" THEN "readList" ELSE "save"
           /\ After(k, "write") \in {"generate", "script", "end"}
           /\ k # "wizard" => After(k, "write") # "generate"
           /\ After(k, "script") = "end"
BY DEF After

-----------------------------------------------------------------------------
(* The invariant.                                                           *)

\* A step of one actor leaves alone what the invariant says of the others.
LEMMA Others ==
    ASSUME StoreInv, NEW a \in Actors, NEW b \in Actors, b # a,
           pc'[b] = pc[b], op'[b] = op[b], copy'[b] = copy[b], found'[b] = found[b],
           mutex' = mutex \/ mutex = None \/ mutex = a
    PROVE  Local(b)'
<1>1. Local(b)
  BY DEF StoreInv
<1>2. mutex = b => mutex' = mutex
  BY ActorAssumption DEF Actors
<1>3. Guarded(b)'
  BY <1>1, <1>2 DEF Local, Guarded
<1>4. Holds(b)'
  BY <1>1 DEF Local, Holds
<1>5. Chosen(b)'
  BY <1>1 DEF Local, Chosen
<1> QED BY <1>3, <1>4, <1>5 DEF Local

LEMMA StoreInit == Init => StoreInv
<1> SUFFICES ASSUME Init PROVE StoreInv
  OBVIOUS
<1>1. Typed
  BY DEF Init, Typed, Labels, Actors
<1>2. ASSUME NEW a \in Actors PROVE Local(a)
  <2>1. pc[a] = "idle" /\ op[a] = NoOp /\ copy[a] = None /\ found[a] = <<>>
    BY DEF Init
  <2>2. op[a].kind = "script"
    BY <2>1 DEF NoOp
  <2> QED BY <2>1, <2>2 DEF Local, Guarded, Holds, Chosen, Inside
<1> QED BY <1>1, <1>2 DEF StoreInv

LEMMA BeginKeeps ==
    ASSUME StoreInv, NEW a \in Actors, NEW o \in OpsOf(a), Begin(a, o)
    PROVE  StoreInv'
<1>1. /\ pc[a] = "idle" /\ pc' = [pc EXCEPT ![a] = First(a, o.kind)]
      /\ op' = [op EXCEPT ![a] = o]
      /\ UNCHANGED <<mutex, copy, found>>
  BY DEF Begin, At, Goto
<1>2. Local(a) /\ Typed
  BY DEF StoreInv
<1>3. /\ pc'[a] = First(a, o.kind) /\ op'[a] = o
      /\ \A b \in Actors \ {a} : pc'[b] = pc[b] /\ op'[b] = op[b]
  BY <1>1, <1>2 DEF Typed
<1>4. Typed'
  BY <1>1, <1>2, FirstLabels DEF Typed, OpsOf
<1>5. copy[a] = None /\ found[a] = <<>>
  BY <1>1, <1>2 DEF Local, Holds, Chosen
<1>6. Local(a)'
  <2>1. Guarded(a)'
    BY <1>3, FirstLabels DEF Guarded, Inside
  <2>2. Holds(a)'
    BY <1>1, <1>3, <1>5, FirstLabels DEF Holds, Actors
  <2>3. Chosen(a)'
    BY <1>1, <1>3, <1>5, FirstLabels DEF Chosen, Actors
  <2> QED BY <2>1, <2>2, <2>3 DEF Local
<1>7. \A b \in Actors \ {a} : Local(b)'
  BY <1>1, <1>3, Others
<1> QED BY <1>4, <1>6, <1>7 DEF StoreInv

\* What is left to show of a step of one actor.
LEMMA StepKeeps ==
    ASSUME StoreInv, NEW a \in Actors, op' = op,
           pc'[a] \in Labels, pc' = [pc EXCEPT ![a] = pc'[a]],
           copy'[a] \in Configs \cup {None}, copy' = [copy EXCEPT ![a] = copy'[a]],
           found'[a] \in Lists \cup {<<>>}, found' = [found EXCEPT ![a] = found'[a]],
           mutex' \in Requests \cup {None}, mutex' = mutex \/ mutex = None,
           Local(a)'
    PROVE  StoreInv'
<1>1. Typed
  BY DEF StoreInv
<1>2. Typed'
  BY <1>1 DEF Typed
<1>3. ASSUME NEW b \in Actors, b # a PROVE Local(b)'
  <2>1. pc'[b] = pc[b] /\ op'[b] = op[b] /\ copy'[b] = copy[b] /\ found'[b] = found[b]
    BY <1>1, <1>3 DEF Typed
  <2> QED BY <1>3, <2>1, Others
<1> QED BY <1>2, <1>3 DEF StoreInv

\* A step that touches neither the copy nor the list that was read, nor the mutex.
LEMMA PlainKeeps ==
    ASSUME StoreInv, NEW a \in Actors, NEW l \in Labels, pc' = [pc EXCEPT ![a] = l],
           UNCHANGED <<op, copy, found, mutex>>,
           pc'[a] = l => Local(a)'
    PROVE  StoreInv'
<1>1. Typed
  BY DEF StoreInv
<1>2. pc'[a] = l
  BY <1>1 DEF Typed
<1> QED BY <1>1, <1>2, StepKeeps DEF Typed

LEMMA LockKeeps ==
    ASSUME StoreInv, NEW a \in Actors, Lock(a)
    PROVE  StoreInv'
<1> DEFINE k == op[a].kind
           l == After(k, "lock")
<1>1. Local(a) /\ Typed
  BY DEF StoreInv
<1>2. /\ pc[a] = "lock" /\ mutex = None /\ mutex' = a /\ pc' = [pc EXCEPT ![a] = l]
      /\ op' = op /\ copy' = copy /\ found' = found
  BY DEF Lock, At, Step, Goto, local
<1>3. a \in Requests
  BY <1>1, <1>2 DEF Local, Guarded, Actors
<1>4. /\ l \in {"generate", "saveList", "script", "load"} /\ (l = "generate" <=> k = "select")
      /\ l = "saveList" => k = "import"
  BY AfterLabels
<1>5. copy[a] = None /\ k # "wizard" /\ k # "xray"
  BY <1>1, <1>2, <1>3, ActorAssumption, OpAssumption DEF OpsOf, WebKinds, Local, Holds
<1>6. pc'[a] = l
  BY <1>1, <1>2 DEF Typed
<1> HIDE DEF l
<1>7. Local(a)'
  BY <1>1, <1>2, <1>3, <1>4, <1>5, <1>6, ActorAssumption DEF Local, Guarded, Holds, Chosen
<1> QED BY <1>1, <1>2, <1>3, <1>4, <1>6, <1>7, StepKeeps DEF Typed, Labels

LEMMA GenerateKeeps ==
    ASSUME StoreInv, NEW a \in Actors, Generate(a)
    PROVE  StoreInv'
<1> DEFINE k == op[a].kind
           l == After(k, "generate")
<1>1. Local(a) /\ Typed
  BY DEF StoreInv
<1>2. /\ pc[a] = "generate" /\ UNCHANGED <<op, copy, found, mutex>>
      /\ pc' = [pc EXCEPT ![a] = l] \/ pc' = [pc EXCEPT ![a] = "end"]
  BY DEF Generate, At, Step, GiveUp, Goto, local
<1>3. l \in {"load", "script"} /\ (l = "load" <=> k = "select")
  BY AfterLabels
<1>4. copy[a] = None /\ (a \in Requests => mutex = a)
  BY <1>1, <1>2 DEF Local, Holds, Guarded, Inside
<1> HIDE DEF l
<1>5. ASSUME NEW m \in {l, "end"}, pc'[a] = m
      PROVE  Local(a)'
  BY <1>1, <1>2, <1>3, <1>4, <1>5 DEF Local, Guarded, Holds, Chosen
<1>6. CASE pc' = [pc EXCEPT ![a] = l]
  BY <1>2, <1>3, <1>5, <1>6, PlainKeeps DEF Labels
<1>7. CASE pc' = [pc EXCEPT ![a] = "end"]
  BY <1>2, <1>5, <1>7, PlainKeeps DEF Labels
<1> QED BY <1>2, <1>6, <1>7

\* The list of servers is saved, or the script runs.
LEMMA ListKeeps ==
    ASSUME StoreInv, NEW a \in Actors, SaveList(a) \/ WriteList(a) \/ Script(a)
    PROVE  StoreInv'
<1>1. Local(a) /\ Typed
  BY DEF StoreInv
<1>2. PICK l \in {"writeList", "load", "end"} :
         /\ pc[a] \in {"saveList", "writeList", "script"} /\ pc' = [pc EXCEPT ![a] = l]
         /\ l = "load" => pc[a] = "writeList"
         /\ l = "writeList" => pc[a] = "saveList"
         /\ UNCHANGED <<op, copy, found, mutex>>
  BY AfterLabels DEF SaveList, WriteList, Script, At, Step, GiveUp, Goto, local
<1>3. copy[a] = None /\ (a \in Requests => mutex = a)
  BY <1>1, <1>2 DEF Local, Holds, Guarded, Inside
<1>4. pc'[a] = l => Local(a)'
  BY <1>1, <1>2, <1>3 DEF Local, Guarded, Holds, Chosen
<1> QED BY <1>2, <1>4, PlainKeeps DEF Labels

LEMMA ReadListKeeps ==
    ASSUME StoreInv, NEW a \in Actors, ReadList(a)
    PROVE  StoreInv'
<1> DEFINE k == op[a].kind
           l == After(k, "readList")
<1>1. Local(a) /\ Typed
  BY DEF StoreInv
<1>2. pc[a] = "readList" /\ UNCHANGED <<op, copy, mutex>>
  BY DEF ReadList, At
<1>3. /\ k = "select" => a \in Requests
      /\ k \in {"xray", "wizard"} => a = Bot
  BY <1>1, <1>2, OpAssumption DEF Local, Holds, OpsOf, WebKinds, BotKinds, Actors
<1>4. \/ k \in {"select", "xray"} /\ copy[a] = None
      \/ k = "wizard" /\ copy[a] # None
  BY <1>1, <1>2 DEF Local, Holds
<1>5. CASE pc' = [pc EXCEPT ![a] = "end"] /\ UNCHANGED found
  <2>1. pc'[a] = "end" => Local(a)'
    BY <1>1, <1>2, <1>3, <1>4, <1>5 DEF Local, Guarded, Holds, Chosen, Inside
  <2> QED BY <1>2, <1>5, <2>1, PlainKeeps DEF Labels
<1>6. ASSUME pc' = [pc EXCEPT ![a] = l], NEW s \in Lists, found' = [found EXCEPT ![a] = s],
             k \in {"select", "xray"} => op[a].index \in DOMAIN s
      PROVE  StoreInv'
  <2>1. /\ k = "select" => l = "lock"
        /\ k = "xray" => l = "generate"
        /\ k = "wizard" => l = "save"
    BY AfterLabels
  <2>2. pc'[a] = l /\ found'[a] = s
    BY <1>1, <1>6 DEF Typed
  <2>3. k \in {"select", "wizard"} => s \in ListsFor(op[a])
    BY <1>6 DEF ListsFor
  <2>4. Bot \notin Requests
    BY ActorAssumption
  <2> HIDE DEF l
  <2>5. Guarded(a)' /\ Holds(a)'
    BY <1>1, <1>2, <1>3, <1>4, <2>1, <2>2, <2>4 DEF Local, Guarded, Holds, Inside
  <2>6. Chosen(a)'
    BY <1>1, <1>2, <1>4, <1>6, <2>1, <2>2, <2>3 DEF Local, Chosen
  <2>7. pc'[a] \in Labels
    BY <1>4, <2>1, <2>2 DEF Labels
  <2> QED BY <1>1, <1>2, <1>6, <2>2, <2>5, <2>6, <2>7, StepKeeps DEF Typed, Local
<1>7. /\ GiveUp(a) => pc' = [pc EXCEPT ![a] = "end"]
      /\ Step(a) => pc' = [pc EXCEPT ![a] = l]
  BY <1>2 DEF GiveUp, Step, Goto
<1> QED BY <1>5, <1>6, <1>7 DEF ReadList

LEMMA LoadKeeps ==
    ASSUME StoreInv, NEW a \in Actors, Load(a)
    PROVE  StoreInv'
<1> DEFINE k == op[a].kind
           l == After(k, "load")
<1>1. Local(a) /\ Typed
  BY DEF StoreInv
<1>2. pc[a] = "load" /\ UNCHANGED <<op, found, mutex>>
  BY DEF Load, At
<1>3. /\ k = "wizard" => a = Bot
      /\ a \in Requests => mutex = a
      /\ copy[a] = None
  BY <1>1, <1>2, OpAssumption DEF Local, Holds, Guarded, OpsOf, WebKinds, Inside
<1>4. CASE pc' = [pc EXCEPT ![a] = "end"] /\ UNCHANGED copy
  <2>1. pc'[a] = "end" => Local(a)'
    BY <1>1, <1>2, <1>3, <1>4 DEF Local, Guarded, Holds, Chosen, Inside
  <2> QED BY <1>2, <1>4, <2>1, PlainKeeps DEF Labels
<1>5. CASE /\ Readable /\ copy' = [copy EXCEPT ![a] = file]
           /\ pc' = [pc EXCEPT ![a] = l]
  <2>1. l = IF k = "wizard" THEN "readList" ELSE "save"
    BY AfterLabels
  <2>2. pc'[a] = l /\ copy'[a] = file /\ file \in Configs /\ file # None
    BY <1>1, <1>5, FileAssumption DEF Typed, Readable
  <2> HIDE DEF l
  <2>3. Guarded(a)'
    BY <1>1, <1>2, <1>3, <2>1, <2>2, ActorAssumption DEF Local, Guarded, Inside
  <2>4. Holds(a)' /\ Chosen(a)'
    BY <1>1, <1>2, <1>3, <2>1, <2>2 DEF Local, Holds, Chosen
  <2> QED BY <1>1, <1>2, <1>5, <2>1, <2>2, <2>3, <2>4, StepKeeps DEF Typed, Local, Labels
<1>6. /\ GiveUp(a) => pc' = [pc EXCEPT ![a] = "end"]
      /\ Step(a) => pc' = [pc EXCEPT ![a] = l]
  BY <1>2 DEF GiveUp, Step, Goto
<1> QED BY <1>4, <1>5, <1>6 DEF Load

\* The two steps of a save: the copy is held until the file is written, or cannot be.
LEMMA SaveKeeps ==
    ASSUME StoreInv, NEW a \in Actors, Save(a) \/ Write(a)
    PROVE  StoreInv'
<1>1. Local(a) /\ Typed
  BY DEF StoreInv
<1>2. pc[a] \in {"save", "write"} /\ UNCHANGED <<op, found, mutex>>
  BY DEF Save, Write, At
<1>3. (a \in Requests => mutex = a) /\ op[a].kind # "xray"
  BY <1>1, <1>2 DEF Local, Guarded, Chosen, Inside
<1>4. CASE pc[a] = "save" /\ pc' = [pc EXCEPT ![a] = "write"] /\ UNCHANGED copy
  <2>1. pc'[a] = "write" => Local(a)'
    BY <1>1, <1>2, <1>3, <1>4 DEF Local, Guarded, Holds, Chosen, Inside
  <2> QED BY <1>2, <1>4, <2>1, PlainKeeps DEF Labels
<1>5. ASSUME NEW l \in {"generate", "script", "end"}, pc' = [pc EXCEPT ![a] = l],
             l = "generate" => op[a].kind = "wizard",
             copy' = [copy EXCEPT ![a] = None]
      PROVE  StoreInv'
  <2>1. pc'[a] = l /\ copy'[a] = None
    BY <1>1, <1>5 DEF Typed
  <2>2. Local(a)'
    BY <1>1, <1>2, <1>3, <1>5, <2>1 DEF Local, Guarded, Holds, Chosen, Inside
  <2> QED BY <1>1, <1>2, <1>5, <2>1, <2>2, StepKeeps DEF Typed, Labels
<1>6. CASE Save(a)
  BY <1>4, <1>5, <1>6 DEF Save, At, Goto, GiveUp
<1>7. CASE Write(a)
  <2> DEFINE l == After(op[a].kind, "write")
  <2>1. l \in {"generate", "script", "end"} /\ (l = "generate" => op[a].kind = "wizard")
    BY AfterLabels
  <2>2. /\ copy' = [copy EXCEPT ![a] = None]
        /\ pc' = [pc EXCEPT ![a] = l] \/ pc' = [pc EXCEPT ![a] = "end"]
    BY <1>7 DEF Write, At, Step, GiveUp, Goto
  <2> QED BY <1>5, <2>1, <2>2
<1> QED BY <1>6, <1>7

\* An actor that is back at rest holds nothing.
LEMMA AtRest ==
    ASSUME NEW a \in Actors, pc'[a] = "idle", op'[a] = NoOp, copy'[a] = None, found'[a] = <<>>
    PROVE  Local(a)'
<1>1. op'[a].kind = "script"
  BY DEF NoOp
<1> QED BY <1>1 DEF Local, Guarded, Holds, Chosen, Inside

LEMMA EndKeeps ==
    ASSUME StoreInv, NEW a \in Actors, End(a)
    PROVE  StoreInv'
<1>1. Typed
  BY DEF StoreInv
<1>2. Typed'
  BY <1>1 DEF Typed, End, Goto, Labels
<1>3. pc'[a] = "idle" /\ op'[a] = NoOp /\ copy'[a] = None /\ found'[a] = <<>>
  BY <1>1 DEF Typed, End, Goto
<1>4. \A b \in Actors \ {a} :
         pc'[b] = pc[b] /\ op'[b] = op[b] /\ copy'[b] = copy[b] /\ found'[b] = found[b]
  BY <1>1 DEF Typed, End, Goto
<1>5. mutex' = mutex \/ mutex = a
  BY DEF End
<1>6. Local(a)'
  BY <1>3, AtRest
<1>7. \A b \in Actors \ {a} : Local(b)'
  BY <1>4, <1>5, Others
<1> QED BY <1>2, <1>6, <1>7 DEF StoreInv

LEMMA KillKeeps ==
    ASSUME StoreInv, NEW P \in SUBSET Actors, Kill(P)
    PROVE  StoreInv'
<1>1. Typed
  BY DEF StoreInv
<1>2. Typed'
  BY <1>1 DEF Typed, Kill, Labels
<1>3. ASSUME NEW a \in P PROVE Local(a)'
  <2>1. pc'[a] = "idle" /\ op'[a] = NoOp /\ copy'[a] = None /\ found'[a] = <<>>
    BY <1>3 DEF Kill
  <2> QED BY <2>1, AtRest
<1>4. ASSUME NEW b \in Actors \ P PROVE Local(b)'
  <2>1. pc'[b] = pc[b] /\ op'[b] = op[b] /\ copy'[b] = copy[b] /\ found'[b] = found[b]
    BY <1>4 DEF Kill
  <2>2. mutex = b => mutex' = mutex
    BY <1>4 DEF Kill
  <2>3. Local(b)
    BY <1>4 DEF StoreInv
  <2> QED BY <2>1, <2>2, <2>3 DEF Local, Guarded, Holds, Chosen
<1> QED BY <1>2, <1>3, <1>4 DEF StoreInv

LEMMA NextKeeps == StoreInv /\ [Next]_vars => StoreInv'
<1> SUFFICES ASSUME StoreInv, [Next]_vars PROVE StoreInv'
  OBVIOUS
<1>1. CASE UNCHANGED vars
  <2>1. UNCHANGED <<mutex, pc, op, copy, found>>
    BY <1>1 DEF vars, local
  <2> QED BY <2>1 DEF StoreInv, Typed, Local, Guarded, Holds, Chosen
<1>2. ASSUME NEW r \in Requests, StartRequest(r) PROVE StoreInv'
  BY <1>2, BeginKeeps, ActorAssumption DEF StartRequest, OpsOf, Actors
<1>3. CASE StartBot
  BY <1>3, BeginKeeps DEF StartBot, OpsOf, Actors
<1>4. ASSUME NEW a \in Actors, Handle(a) PROVE StoreInv'
  BY <1>4, LockKeeps, ReadListKeeps, GenerateKeeps, LoadKeeps, SaveKeeps, ListKeeps, EndKeeps
     DEF Handle
<1>5. CASE Kill(Requests) \/ Kill({Bot})
  BY <1>5, KillKeeps DEF Actors
<1> QED BY <1>1, <1>2, <1>3, <1>4, <1>5 DEF Next

\* A writer has an operation of its own, a copy, and a list the operation can use.
LEMMA ReadyToWrite ==
    ASSUME StoreInv, NEW a \in Actors, pc[a] = "write"
    PROVE  /\ op[a] \in OpsOf(a) /\ found[a] \in ListsFor(op[a])
           /\ copy[a] \in Configs
<1>1. Local(a) /\ Typed
  BY DEF StoreInv
<1>2. copy[a] \in Configs
  BY <1>1 DEF Local, Holds, Typed
<1>3. op[a] \in OpsOf(a) /\ found[a] \in ListsFor(op[a])
  <2>1. op[a] \in OpsOf(a)
    BY <1>1 DEF Local, Holds
  <2>2. CASE op[a].kind = "select"
    BY <1>1, <2>1, <2>2 DEF Local, Chosen
  <2>3. CASE op[a].kind = "wizard"
    BY <1>1, <2>1, <2>3 DEF Local, Chosen, ListsFor
  <2>4. CASE op[a].kind \notin {"select", "wizard"}
    BY <1>1, <2>1, <2>4 DEF Local, Chosen, ListsFor
  <2> QED BY <2>1, <2>2, <2>3, <2>4
<1> QED BY <1>2, <1>3

\* For any number of requests: what works on the files in the web UI is the one request
\* that holds the mutex (Deps.OpMutex, taken by every handler that changes something).
OneAtWork == \A r, q \in Requests : pc[r] \in Inside /\ pc[q] \in Inside => r = q
THEOREM OneRequestAtWork == Spec => []OneAtWork
<1>1. Init => StoreInv
  BY StoreInit
<1>2. StoreInv /\ [Next]_vars => StoreInv'
  BY NextKeeps
<1>3. StoreInv => OneAtWork
  BY DEF StoreInv, Local, Guarded, OneAtWork, Actors
<1> QED BY <1>1, <1>2, <1>3, PTL DEF Spec

-----------------------------------------------------------------------------
(* The refinement.                                                          *)

Copies == <<file, WebCopy, copy[Bot]>>
OneStep == [Shared!Next]_Copies

\* What one of two copies does when the other is left alone.
WebStep == Shared!Client(WebCopy, WebOps) /\ UNCHANGED copy[Bot]
BotStep == Shared!Client(copy[Bot], BotOps) /\ UNCHANGED WebCopy

LEMMA Alternatives ==
    /\ WebStep \/ BotStep => OneStep
    /\ UNCHANGED <<file, copy>> => OneStep
<1>1. WebStep \/ BotStep => OneStep
  BY DEF WebStep, BotStep, OneStep, Copies, Shared!Next
<1>2. UNCHANGED <<file, copy>> => OneStep
  BY DEF OneStep, Copies, WebCopy, Holding
<1> QED BY <1>1, <1>2

\* The web UI's copy is that of the only request that can hold one.
LEMMA WebCopyIs ==
    ASSUME NEW r \in Requests
    PROVE  /\ (\A q \in Requests : copy[q] # None => q = r) => WebCopy = copy[r]
           /\ (\A q \in Requests : copy'[q] # None => q = r) => WebCopy' = copy'[r]
<1>1. ASSUME \A q \in Requests : copy[q] # None => q = r PROVE WebCopy = copy[r]
  <2>1. Holding = {} \/ Holding = {r}
    BY <1>1 DEF Holding
  <2>2. CASE Holding = {}
    BY <2>2 DEF WebCopy, Holding
  <2>3. CASE Holding = {r}
    BY <2>3 DEF WebCopy
  <2> QED BY <2>1, <2>2, <2>3
<1>2. ASSUME \A q \in Requests : copy'[q] # None => q = r PROVE WebCopy' = copy'[r]
  <2>1. Holding' = {} \/ Holding' = {r}
    BY <1>2 DEF Holding
  <2>2. CASE Holding' = {}
    BY <2>2 DEF WebCopy, Holding
  <2>3. CASE Holding' = {r}
    BY <2>3 DEF WebCopy
  <2> QED BY <2>1, <2>2, <2>3
<1> QED BY <1>1, <1>2

\* A step of one actor on its own copy is a step of the web UI or of the bot.
LEMMA OwnCopy ==
    ASSUME StoreInv, NEW a \in Actors, pc[a] \in Inside \/ a = Bot,
           copy' = [copy EXCEPT ![a] = copy'[a]],
           Shared!Client(copy[a], OpsOf(a))
    PROVE  OneStep
<1>1. Typed
  BY DEF StoreInv
<1>2. \A b \in Actors \ {a} : copy'[b] = copy[b]
  BY <1>1 DEF Typed
<1>3. CASE a = Bot
  <2>1. \A r \in Requests : copy'[r] = copy[r]
    BY <1>2, <1>3, ActorAssumption DEF Actors
  <2>2. UNCHANGED WebCopy
    BY <2>1 DEF WebCopy, Holding
  <2>3. Shared!Client(copy[Bot], BotOps)
    BY <1>3 DEF OpsOf, Shared!Client, Shared!Loads, Shared!Drops, Shared!Truncates,
                Shared!Saves
  <2> QED BY <2>2, <2>3, Alternatives DEF BotStep
<1>4. CASE a # Bot
  <2>1. a \in Requests /\ copy'[Bot] = copy[Bot]
    BY <1>2, <1>4 DEF Actors
  <2>2. mutex = a
    BY <1>4, <2>1 DEF StoreInv, Local, Guarded
  <2>3. \A q \in Requests : copy[q] # None => q = a
    BY <2>2, ActorAssumption DEF StoreInv, Local, Guarded, Holds, Actors, Inside
  <2>4. \A q \in Requests : copy'[q] # None => q = a
    BY <1>2, <2>3 DEF Actors
  <2>5. WebCopy = copy[a] /\ WebCopy' = copy'[a]
    BY <2>1, <2>3, <2>4, WebCopyIs
  <2>6. Shared!Client(WebCopy, WebOps)
    BY <1>4, <2>5 DEF OpsOf, Shared!Client, Shared!Loads, Shared!Drops, Shared!Truncates,
                      Shared!Saves
  <2> QED BY <2>1, <2>6, Alternatives DEF WebStep
<1> QED BY <1>3, <1>4

LEMMA LoadIsOne ==
    ASSUME StoreInv, NEW a \in Actors, Load(a)
    PROVE  OneStep
<1>1. Local(a) /\ Typed
  BY DEF StoreInv
<1>2. copy[a] = None /\ pc[a] \in Inside
  BY <1>1 DEF Local, Holds, Load, At, Inside
<1>3. UNCHANGED file
  BY DEF Load, files
<1>4. CASE UNCHANGED copy
  BY <1>3, <1>4, Alternatives
<1>5. CASE Readable /\ copy' = [copy EXCEPT ![a] = file]
  <2>1. copy'[a] = file
    BY <1>1, <1>5 DEF Typed
  <2>2. Shared!Client(copy[a], OpsOf(a))
    BY <1>2, <1>3, <1>5, <2>1 DEF Readable, Shared!Client, Shared!Loads
  <2> QED BY <1>2, <1>5, <2>1, <2>2, OwnCopy
<1> QED BY <1>4, <1>5 DEF Load

LEMMA SaveIsOne ==
    ASSUME StoreInv, NEW a \in Actors, Save(a)
    PROVE  OneStep
<1>1. Local(a) /\ Typed
  BY DEF StoreInv
<1>2. copy[a] # None /\ pc[a] \in Inside
  BY <1>1 DEF Local, Holds, Save, At, Inside
<1>3. CASE file' = Empty /\ UNCHANGED copy
  <2>1. Shared!Client(copy[a], OpsOf(a)) /\ copy' = [copy EXCEPT ![a] = copy'[a]]
    BY <1>1, <1>2, <1>3 DEF Typed, Shared!Client, Shared!Truncates
  <2> QED BY <1>2, <2>1, OwnCopy
<1>4. CASE copy' = [copy EXCEPT ![a] = None] /\ UNCHANGED file
  <2>1. copy'[a] = None
    BY <1>1, <1>4 DEF Typed
  <2>2. Shared!Client(copy[a], OpsOf(a))
    BY <1>2, <1>4, <2>1 DEF Shared!Client, Shared!Drops
  <2> QED BY <1>2, <1>4, <2>1, <2>2, OwnCopy
<1> QED BY <1>3, <1>4 DEF Save

\* What is written is made by an operation of its writer, from the copy it holds.
LEMMA WriteIsOne ==
    ASSUME StoreInv, NEW a \in Actors, Write(a)
    PROVE  OneStep
<1>1. Local(a) /\ Typed
  BY DEF StoreInv
<1>2. copy[a] # None /\ pc[a] = "write" /\ pc[a] \in Inside
  BY <1>1 DEF Local, Holds, Write, At, Inside
<1>3. copy' = [copy EXCEPT ![a] = None] /\ copy'[a] = None
  BY <1>1 DEF Typed, Write
<1>4. op[a] \in OpsOf(a) /\ found[a] \in ListsFor(op[a])
  BY <1>2, ReadyToWrite
<1>5. Updated(copy[a], op[a], found[a]) \subseteq Results(copy[a], OpsOf(a))
  BY <1>4 DEF Results
<1>6. \/ file' \in Updated(copy[a], op[a], found[a])
      \/ file # Empty /\ file' = Mixed
      \/ UNCHANGED file
  BY DEF Write
<1>7. Shared!Client(copy[a], OpsOf(a))
  BY <1>2, <1>3, <1>5, <1>6 DEF Shared!Client, Shared!Saves, Shared!Drops
<1> QED BY <1>2, <1>3, <1>7, OwnCopy

LEMMA EndIsOne ==
    ASSUME StoreInv, NEW a \in Actors, End(a)
    PROVE  OneStep
<1>1. Local(a) /\ Typed
  BY DEF StoreInv
<1>2. pc[a] = "end" /\ UNCHANGED file /\ copy' = [copy EXCEPT ![a] = None]
  BY DEF End, At, files
<1>3. copy'[a] = None
  BY <1>1, <1>2 DEF Typed
<1>4. CASE copy[a] = None
  <2>1. UNCHANGED copy
    BY <1>1, <1>2, <1>4 DEF Typed
  <2> QED BY <1>2, <2>1, Alternatives
<1>5. CASE copy[a] # None
  <2>1. a = Bot
    BY <1>1, <1>2, <1>5 DEF Local, Holds
  <2>2. Shared!Client(copy[a], OpsOf(a))
    BY <1>2, <1>3, <1>5 DEF Shared!Client, Shared!Drops
  <2> QED BY <1>2, <1>3, <2>1, <2>2, OwnCopy
<1> QED BY <1>4, <1>5

LEMMA KillIsOne ==
    ASSUME StoreInv, Kill(Requests) \/ Kill({Bot})
    PROVE  OneStep
<1>1. UNCHANGED file
  BY DEF Kill, files
<1>2. CASE Kill(Requests)
  <2>1. copy'[Bot] = copy[Bot] /\ \A r \in Requests : copy'[r] = None
    BY <1>2, ActorAssumption DEF Kill, Actors
  <2>2. WebCopy' = None
    BY <2>1 DEF WebCopy, Holding
  <2>3. CASE WebCopy = None
    BY <1>1, <2>1, <2>2, <2>3 DEF OneStep, Copies
  <2>4. CASE WebCopy # None
    BY <1>1, <2>1, <2>2, <2>4, Alternatives DEF WebStep, Shared!Client, Shared!Drops
  <2> QED BY <2>3, <2>4
<1>3. CASE Kill({Bot})
  <2>1. copy'[Bot] = None /\ \A r \in Requests : copy'[r] = copy[r]
    BY <1>3, ActorAssumption DEF Kill, Actors
  <2>2. UNCHANGED WebCopy
    BY <2>1 DEF WebCopy, Holding
  <2>3. CASE copy[Bot] = None
    BY <1>1, <2>1, <2>2, <2>3 DEF OneStep, Copies
  <2>4. CASE copy[Bot] # None
    BY <1>1, <2>1, <2>2, <2>4, Alternatives DEF BotStep, Shared!Client, Shared!Drops
  <2> QED BY <2>3, <2>4
<1> QED BY <1>2, <1>3

LEMMA EveryStepIsOne == StoreInv /\ [Next]_vars => OneStep
<1> SUFFICES ASSUME StoreInv, [Next]_vars PROVE OneStep
  OBVIOUS
<1>1. CASE UNCHANGED vars
  BY <1>1, Alternatives DEF vars, files, local
<1>2. ASSUME NEW a \in Actors, NEW o, Begin(a, o) PROVE OneStep
  BY <1>2, Alternatives DEF Begin, files
<1>3. ASSUME NEW a \in Actors, Lock(a) \/ ReadList(a) \/ Generate(a) PROVE OneStep
  BY <1>3, Alternatives DEF Lock, ReadList, Generate, files, local
<1>4. ASSUME NEW a \in Actors, SaveList(a) \/ WriteList(a) \/ Script(a) PROVE OneStep
  BY <1>4, Alternatives DEF SaveList, WriteList, Script, files, local
<1>5. ASSUME NEW a \in Actors, Handle(a) PROVE OneStep
  BY <1>3, <1>4, <1>5, LoadIsOne, SaveIsOne, WriteIsOne, EndIsOne DEF Handle
<1>6. CASE Kill(Requests) \/ Kill({Bot})
  BY <1>6, KillIsOne
<1> QED BY <1>1, <1>2, <1>5, <1>6 DEF Next, StartRequest, StartBot, Actors

\* The promise of the mutex, for any number of requests: on vpn-director.json the web UI
\* and the bot act as two clients, each of which loads, changes and saves one operation
\* after the other (the handlers of internal/webapi under Deps.OpMutex, the message loop
\* of internal/bot, service/config.go).
THEOREM ActsAsTwo == Spec => ActsAsTwoWriters
<1>1. Init => StoreInv
  BY StoreInit
<1>2. StoreInv /\ [Next]_vars => StoreInv'
  BY NextKeeps
<1>3. Init => Shared!Init
  <2> SUFFICES ASSUME Init PROVE Shared!Init
    OBVIOUS
  <2>1. file \in Configs /\ \A a \in Actors : copy[a] = None
    BY DEF Init
  <2>2. WebCopy = None
    BY <2>1 DEF WebCopy, Holding, Actors
  <2> QED BY <2>1, <2>2 DEF Shared!Init, Actors
<1>4. StoreInv /\ [Next]_vars => [Shared!Next]_<<file, WebCopy, copy[Bot]>>
  BY EveryStepIsOne DEF OneStep, Copies
<1> QED BY <1>1, <1>2, <1>3, <1>4, PTL DEF Spec, ActsAsTwoWriters, Shared!Spec

-----------------------------------------------------------------------------
(* What the operations make of a configuration is a configuration.          *)

Ops == WebOps \cup BotOps

LEMMA JoinTyped ==
    ASSUME NEW c \in Configs, NEW h \in Clients, NEW t \in Tunnels
    PROVE  Join(c, h, t) \in Configs
<1> DEFINE S == (IF c.tunnels[t] = None THEN {} ELSE c.tunnels[t]) \cup {h}
<1>1. S \in SUBSET Clients
  BY DEF Configs
<1>2. [c.tunnels EXCEPT ![t] = S] \in [Tunnels -> {None} \cup SUBSET Clients]
  BY <1>1 DEF Configs
<1>3. Join(c, h, t) = [c EXCEPT !.tunnels = [c.tunnels EXCEPT ![t] = S]]
  BY DEF Join, Configs
<1> HIDE DEF S
<1> QED
  BY <1>2, <1>3 DEF Configs

LEMMA LeaveTyped ==
    ASSUME NEW c \in Configs, NEW h \in Clients, NEW T \in SUBSET Keys(c)
    PROVE  Leave(c, h, T) \in Configs
<1> DEFINE f == [t \in Tunnels |-> IF t \in T THEN c.tunnels[t] \ {h} ELSE c.tunnels[t]]
<1>1. ASSUME NEW t \in Tunnels  PROVE f[t] \in {None} \cup SUBSET Clients
  BY DEF Configs, Keys
<1>2. f \in [Tunnels -> {None} \cup SUBSET Clients]
  BY <1>1
<1>3. Leave(c, h, T) = [c EXCEPT !.tunnels = f]
  BY DEF Leave
<1> HIDE DEF f
<1> QED
  BY <1>2, <1>3 DEF Configs

LEMMA PausedTyped ==
    ASSUME NEW c \in Configs, NEW h \in Clients
    PROVE  Paused(c, h) \in Configs /\ Resumed(c, h) \in Configs
BY DEF Paused, Resumed, Configs

LEMMA XrayTyped ==
    ASSUME NEW c \in Configs, NEW X \in SUBSET Clients
    PROVE  [c EXCEPT !.xray = X] \in Configs
BY DEF Configs

LEMMA AddedTyped ==
    ASSUME NEW c \in Configs, NEW h \in Clients, NEW r \in Tunnels \cup {Xray}
    PROVE  Added(c, h, r) \in Configs
<1>1. c.xray \cup {h} \in SUBSET Clients
  BY DEF Configs
<1> QED
  BY <1>1, XrayTyped, JoinTyped DEF Added

LEMMA DeletedTyped ==
    ASSUME NEW c \in Configs, NEW h \in Clients
    PROVE  Deleted(c, h) \in Configs
<1> DEFINE d == [c EXCEPT !.xray = @ \ {h}]
<1>1. d \in Configs /\ Keys(c) \in SUBSET Keys(d)
  BY DEF Configs, Keys
<1> HIDE DEF d
<1>2. Leave(d, h, Keys(c)) \in Configs
  BY <1>1, LeaveTyped
<1> QED
  BY <1>2, PausedTyped DEF Deleted, d

LEMMA RemovedTyped ==
    ASSUME NEW c \in Configs, NEW h \in Clients
    PROVE  Removed(c, h) \subseteq Configs
<1>1. CASE h \in c.xray
  <2>1. [c EXCEPT !.xray = @ \ {h}] \in Configs
    BY DEF Configs
  <2> QED
    BY <1>1, <2>1, PausedTyped DEF Removed
<1>2. CASE h \notin c.xray
  <2>1. ASSUME NEW t \in RoutesOf(c, h)  PROVE Resumed(Leave(c, h, {t}), h) \in Configs
    <3>1. {t} \in SUBSET Keys(c)
      BY <1>2, <2>1 DEF RoutesOf
    <3> QED
      BY <3>1, LeaveTyped, PausedTyped
  <2> QED
    BY <1>2, <2>1 DEF Removed
<1> QED
  BY <1>1, <1>2

LEMMA AddressesTyped ==
    ASSUME NEW l \in Lists
    PROVE  /\ AllIPs(l) \in SUBSET IPs
           /\ \A i \in DOMAIN l : l[i] \in Servers /\ IPsOf[l[i]] \in SUBSET IPs
<1>1. \A i \in DOMAIN l : l[i] \in Servers
  BY ListAssumption
<1>2. \A s \in Servers : IPsOf[s] \in SUBSET IPs
  BY DEF IPs
<1> QED
  BY <1>1, <1>2 DEF AllIPs

LEMMA UpdatedTyped ==
    ASSUME NEW c \in Configs, NEW o \in Ops, NEW l \in ListsFor(o)
    PROVE  Updated(c, o, l) \subseteq Configs
<1>1. o.kind \in WebKinds \cup BotKinds
  BY OpAssumption DEF Ops
<1>2. CASE o.kind \in {"add", "botAdd"}
  <2>1. o.client \in Clients /\ o.route \in Tunnels \cup {Xray}
    BY <1>2, InputAssumption DEF Ops
  <2> QED
    BY <1>2, <2>1, AddedTyped DEF Updated
<1>3. CASE o.kind \in {"pause", "botPause", "resume", "botResume"}
  <2>1. o.client \in Clients
    BY <1>3, InputAssumption DEF Ops
  <2> QED
    BY <1>3, <2>1, PausedTyped DEF Updated
<1>4. CASE o.kind = "delete"
  <2>1. o.client \in Clients
    BY <1>4, InputAssumption DEF Ops
  <2> QED
    BY <1>4, <2>1, DeletedTyped DEF Updated
<1>5. CASE o.kind = "botRemove"
  <2>1. o.client \in Clients
    BY <1>5, InputAssumption DEF Ops
  <2> QED
    BY <1>5, <2>1, RemovedTyped DEF Updated
<1>6. CASE o.kind \in {"addExcludeIP", "deleteExcludeIP", "exclude", "setExcludeSets"}
  <2>1. /\ o.kind \in {"addExcludeIP", "deleteExcludeIP"} => o.ip \in Excluded
        /\ o.kind = "exclude" => o.ips \in SUBSET Excluded
        /\ o.kind = "setExcludeSets" => o.sets \in Sets
    BY <1>6, InputAssumption DEF Ops
  <2> QED
    BY <1>6, <2>1 DEF Updated, Configs
<1>7. CASE o.kind = "select"
  <2>1. l \in Lists /\ o.index \in DOMAIN l
    BY <1>7 DEF ListsFor
  <2>2. IPsOf[l[o.index]] \in SUBSET IPs
    BY <2>1, AddressesTyped
  <2>3. Updated(c, o, l) = {[c EXCEPT !.servers = IPsOf[l[o.index]]]}
    BY <1>7 DEF Updated
  <2> QED
    BY <2>2, <2>3 DEF Configs
<1>8. CASE o.kind = "import"
  <2>1. AllIPs(o.list) \in SUBSET IPs
    BY <1>8, AddressesTyped, InputAssumption DEF Ops
  <2>2. Updated(c, o, l) = {[c EXCEPT !.servers = AllIPs(o.list)]}
    BY <1>8 DEF Updated
  <2> QED
    BY <2>1, <2>2 DEF Configs
<1>9. CASE o.kind = "wizard"
  <2>1. AllIPs(l) \in SUBSET IPs
    BY <1>9, AddressesTyped DEF ListsFor
  <2>2. /\ o.xray \in SUBSET Clients /\ o.exips \in SUBSET Excluded /\ o.exsets \in Sets
        /\ o.tunnels \in [Tunnels -> {None} \cup SUBSET Clients]
    BY <1>9, InputAssumption DEF Ops
  <2>3. Updated(c, o, l) = {Configured(c, o, l)}
    BY <1>9 DEF Updated
  <2> QED
    BY <2>1, <2>2, <2>3 DEF Configs, Configured
<1>10. CASE o.kind \in {"script", "xray"}
  BY <1>10 DEF Updated
<1> QED
  BY <1>1, <1>2, <1>3, <1>4, <1>5, <1>6, <1>7, <1>8, <1>9, <1>10 DEF WebKinds, BotKinds

-----------------------------------------------------------------------------
(* The files.                                                               *)

\* As long as the web UI is alone, who is about to write has a truncated file, and the
\* bot is at rest.
Quiet ==
    alone => /\ pc[Bot] = "idle"
             /\ \A r \in Requests : pc[r] = "write" => file = Empty

\* Between the two files of an import, in the directory the configuration names.
Halfway(r) ==
    /\ pc[r] = "writeList" => dir[r] = "data" /\ lists["data"] = Empty
    /\ op[r].kind = "import" /\ pc[r] \in {"load", "save", "write"} => lists["data"] = op[r].list

\* The files may differ only under the mutex.
Whole     == Readable /\ lists["data"] \in Lists /\ file.servers = AllIPs(lists["data"])
Midway(r) == \/ pc[r] = "write"
             \/ op[r].kind = "import" /\ pc[r] \in {"writeList", "load", "save"}
Imported  ==
    alone /\ ~failed =>
        /\ \A r \in Requests : Halfway(r)
        /\ saved = "import" => Whole \/ \E r \in Requests : Midway(r)

FilesInv == StoreInv /\ TypeOK /\ Quiet /\ UnreadableWhy /\ Imported

LEMMA FilesInit == Init => FilesInv
<1> SUFFICES ASSUME Init  PROVE FilesInv
  OBVIOUS
<1>1. StoreInv
  BY StoreInit
<1>2. TypeOK
  <2>1. file \in Configs /\ lists \in [Dirs -> {None}] /\ dir \in [Actors -> Dirs]
    BY DEF Init, Dirs
  <2>2. started \in 0..MaxOps /\ failed \in BOOLEAN /\ alone \in BOOLEAN
    <3>1. started = 0 /\ failed = FALSE /\ alone = TRUE
      BY DEF Init
    <3>2. started \in 0..MaxOps
      BY <3>1, BoundAssumption
    <3> QED
      BY <3>1, <3>2
  <2> QED
    BY <1>1, <2>1, <2>2 DEF Init, TypeOK, StoreInv, Typed
<1>3. Quiet /\ Imported
  <2>1. \A a \in Actors : pc[a] = "idle"
    BY DEF Init
  <2>2. saved = None /\ None # "import"
    BY OpAssumption DEF Init, WebKinds
  <2> QED
    BY <2>1, <2>2 DEF Actors, Quiet, Imported, Halfway
<1>4. UnreadableWhy
  BY FileAssumption DEF Init, UnreadableWhy
<1> QED
  BY <1>1, <1>2, <1>3, <1>4 DEF FilesInv

\* What is written is a configuration, and neither truncated nor mixed.
LEMMA Written ==
    ASSUME StoreInv, NEW a \in Actors, pc[a] = "write",
           NEW f \in Updated(copy[a], op[a], found[a])
    PROVE  f \in Configs /\ f # Empty /\ f # Mixed
<1>1. copy[a] \in Configs /\ op[a] \in Ops /\ found[a] \in ListsFor(op[a])
  BY ReadyToWrite DEF Ops, OpsOf
<1> QED
  BY <1>1, UpdatedTyped, FileAssumption

LEMMA TypesKeep == ASSUME FilesInv, [Next]_vars  PROVE TypeOK'
<1>1. StoreInv /\ StoreInv' /\ TypeOK
  BY NextKeeps DEF FilesInv
<1>2. file' \in Configs \cup {Empty, Mixed}
  <2>1. ASSUME NEW a \in Actors, Write(a)  PROVE file' \in Configs \cup {Empty, Mixed}
    <3>1. pc[a] = "write"
      BY <2>1 DEF Write, At
    <3> QED
      BY <1>1, <2>1, <3>1, Written DEF Write, TypeOK
  <2>2. ASSUME NEW a \in Actors, Save(a)  PROVE file' \in {file, Empty}
    BY <2>2 DEF Save
  <2>3. CASE ~\E a \in Actors : Save(a) \/ Write(a)
    <3>1. file' = file
      BY <2>3 DEF Next, vars, files, Handle, StartRequest, StartBot, Begin, Lock, ReadList, Generate,
            Load, SaveList, WriteList, Script, End, Kill
    <3> QED
      BY <1>1, <3>1 DEF TypeOK
  <2> QED
    BY <1>1, <2>1, <2>2, <2>3 DEF TypeOK
<1>3. lists' \in [Dirs -> Lists \cup {Empty, Mixed, None}]
  <2>1. ASSUME NEW a \in Actors, SaveList(a)
        PROVE  lists' \in [Dirs -> Lists \cup {Empty, Mixed, None}]
    <3>1. PICK d \in Dirs : lists' \in {lists, [lists EXCEPT ![d] = Empty]}
      BY <2>1 DEF SaveList, Dirs
    <3> QED
      BY <1>1, <3>1 DEF TypeOK
  <2>2. ASSUME NEW a \in Actors, WriteList(a)
        PROVE  lists' \in [Dirs -> Lists \cup {Empty, Mixed, None}]
    <3>1. pc[a] = "writeList" /\ dir[a] \in Dirs
      BY <1>1, <2>2 DEF WriteList, At, TypeOK
    <3>2. op[a] \in Ops /\ op[a].kind = "import"
      BY <1>1, <3>1 DEF StoreInv, Local, Holds, Chosen, Ops, OpsOf
    <3>3. op[a].list \in Lists
      BY <3>2, InputAssumption DEF Ops
    <3>4. lists' \in {lists, [lists EXCEPT ![dir[a]] = op[a].list], [lists EXCEPT ![dir[a]] = Mixed]}
      BY <2>2 DEF WriteList
    <3> QED
      BY <1>1, <3>1, <3>3, <3>4 DEF TypeOK
  <2>3. CASE ~\E a \in Actors : SaveList(a) \/ WriteList(a)
    <3>1. lists' = lists
      BY <2>3 DEF Next, vars, files, Handle, StartRequest, StartBot, Begin, Lock, ReadList, Generate,
            Load, Save, Write, Script, End, Kill
    <3> QED
      BY <1>1, <3>1 DEF TypeOK
  <2> QED
    BY <2>1, <2>2, <2>3
<1>4. active' \in Servers \cup {None}
  <2>1. ASSUME NEW a \in Actors, Generate(a)  PROVE active' \in Servers \cup {None}
    <3>1. found[a] \in Lists \cup {<<>>}
      BY <1>1 DEF StoreInv, Typed
    <3>2. ASSUME NEW i \in DOMAIN found[a]  PROVE found[a][i] \in Servers
      BY <3>1, <3>2, ListAssumption
    <3> QED
      BY <1>1, <2>1, <3>2 DEF Generate, TypeOK
  <2>2. CASE ~\E a \in Actors : Generate(a)
    <3>1. active' = active
      BY <2>2 DEF Next, vars, files, Handle, StartRequest, StartBot, Begin, Lock, ReadList,
            Load, Save, Write, SaveList, WriteList, Script, End, Kill
    <3> QED
      BY <1>1, <3>1 DEF TypeOK
  <2> QED
    BY <2>1, <2>2
<1>5. dir' \in [Actors -> Dirs]
  <2>1. ASSUME NEW a \in Actors, SaveList(a) \/ End(a)  PROVE dir' \in [Actors -> Dirs]
    <3>1. PICK d \in Dirs : dir' \in {dir, [dir EXCEPT ![a] = d]}
      BY <2>1 DEF SaveList, End, Dirs
    <3> QED
      BY <1>1, <3>1 DEF TypeOK
  <2>2. ASSUME NEW P \in SUBSET Actors, Kill(P)  PROVE dir' \in [Actors -> Dirs]
    BY <1>1, <2>2 DEF Kill, TypeOK, Dirs
  <2>3. CASE ~\E a \in Actors : SaveList(a) \/ End(a) \/ Kill(Requests) \/ Kill({Bot})
    <3>1. dir' = dir
      BY <2>3 DEF Next, vars, local, Handle, StartRequest, StartBot, Begin, Lock, ReadList, Generate,
            Load, Save, Write, WriteList, Script, Actors
    <3> QED
      BY <1>1, <3>1 DEF TypeOK
  <2> QED
    BY <2>1, <2>2, <2>3 DEF Actors
<1>6. started' \in 0..MaxOps
  <2>1. started' = started \/ (started < MaxOps /\ started' = started + 1)
    BY DEF Next, vars, ghost, Handle, StartRequest, StartBot, Begin, Lock, ReadList, Generate, Load,
          Save, Write, SaveList, WriteList, Script, End, Kill
  <2> QED
    BY <1>1, <2>1, BoundAssumption DEF TypeOK
<1>7. failed' \in BOOLEAN /\ alone' \in BOOLEAN
  <2>1. failed' = failed \/ failed' = TRUE
    BY DEF Next, vars, ghost, Handle, StartRequest, StartBot, Begin, Lock, ReadList, Generate, Load,
          Save, Write, SaveList, WriteList, Script, End, Kill
  <2>2. alone' = alone \/ alone' = FALSE
    BY DEF Next, vars, ghost, Handle, StartRequest, StartBot, Begin, Lock, ReadList, Generate, Load,
          Save, Write, SaveList, WriteList, Script, End, Kill
  <2>3. failed \in BOOLEAN /\ alone \in BOOLEAN
    BY <1>1 DEF TypeOK
  <2> QED
    BY <2>1, <2>2, <2>3
<1>8. saved' \in WebKinds \cup BotKinds \cup {None}
  <2>1. ASSUME NEW a \in Actors, Write(a)  PROVE saved' \in {saved} \cup WebKinds \cup BotKinds
    <3>1. op[a] \in OpsOf(a)
      BY <1>1, <2>1, ReadyToWrite DEF Write, At
    <3>2. op[a].kind \in WebKinds \cup BotKinds
      BY <3>1, OpAssumption DEF OpsOf
    <3> QED
      BY <2>1, <3>2 DEF Write
  <2>2. CASE ~\E a \in Actors : Write(a)
    <3>1. saved' = saved
      BY <2>2 DEF Next, vars, ghost, Handle, StartRequest, StartBot, Begin, Lock, ReadList, Generate,
            Load, Save, SaveList, WriteList, Script, End, Kill
    <3> QED
      BY <1>1, <3>1 DEF TypeOK
  <2> QED
    BY <1>1, <2>1, <2>2 DEF TypeOK
<1> QED
  BY <1>1, <1>2, <1>3, <1>4, <1>5, <1>6, <1>7, <1>8 DEF TypeOK, StoreInv, Typed

LEMMA QuietKeeps == ASSUME FilesInv, [Next]_vars  PROVE Quiet'
<1> SUFFICES ASSUME alone'
             PROVE  pc'[Bot] = "idle" /\ \A r \in Requests : pc'[r] = "write" => file' = Empty
  BY DEF Quiet
<1>1. StoreInv /\ StoreInv' /\ pc \in [Actors -> Labels] /\ Bot \notin Requests
  BY NextKeeps, ActorAssumption DEF FilesInv, StoreInv, Typed
<1>2. alone /\ ~StartBot /\ pc[Bot] = "idle" /\ \A r \in Requests : pc[r] = "write" => file = Empty
  <2>1. ~StartBot
    BY DEF StartBot
  <2>2. alone' = alone
    BY <2>1 DEF Next, vars, ghost, Handle, StartRequest, Begin, Lock, ReadList, Generate, Load,
          Save, Write, SaveList, WriteList, Script, End, Kill
  <2> QED
    BY <2>1, <2>2 DEF FilesInv, Quiet
<1>3. CASE UNCHANGED vars
  BY <1>2, <1>3 DEF vars, files
<1>4. ASSUME NEW r \in Requests, StartRequest(r)
      PROVE  pc'[Bot] = "idle" /\ \A q \in Requests : pc'[q] = "write" => file' = Empty
  <2>1. PICK o \in WebOps : Begin(r, o)
    BY <1>4 DEF StartRequest
  <2>2. First(r, o.kind) \in {"readList", "lock"}
    BY <1>1, FirstLabels DEF OpsOf, Actors
  <2> QED
    BY <1>1, <1>2, <2>1, <2>2 DEF Begin, Goto, files, Actors
<1>5. ASSUME NEW a \in Actors, Handle(a)
      PROVE  pc'[Bot] = "idle" /\ \A q \in Requests : pc'[q] = "write" => file' = Empty
  <2>1. a \in Requests /\ pc' = [pc EXCEPT ![a] = pc'[a]]
    BY <1>1, <1>2, <1>5 DEF Actors, Handle, Lock, ReadList, Generate, Load, Save, Write, SaveList,
          WriteList, Script, End, At, Step, Goto, GiveUp
  <2>2. pc'[Bot] = "idle" /\ \A q \in Requests \ {a} : pc'[q] = pc[q]
    BY <1>1, <1>2, <2>1 DEF Actors
  <2>3. CASE Save(a)
    <3>1. file' = Empty \/ (file' = file /\ pc'[a] = "end")
      BY <1>1, <2>3 DEF Save, GiveUp, Goto, Actors
    <3> QED
      BY <1>2, <2>2, <3>1
  <2>4. CASE Write(a)
    <3>1. pc[a] = "write" /\ pc'[a] # "write"
      BY <1>1, <2>4, AfterLabels DEF Write, At, Step, GiveUp, Goto
    <3>2. ASSUME NEW q \in Requests \ {a}  PROVE pc[q] # "write"
      BY <1>1, <2>1, <3>1, <3>2 DEF StoreInv, Local, Guarded, Inside, Actors
    <3> QED
      BY <2>2, <3>1, <3>2
  <2>5. CASE ~Save(a) /\ ~Write(a)
    <3>1. file' = file
      BY <1>5, <2>5 DEF Handle, Lock, ReadList, Generate, Load, SaveList, WriteList, Script, End, files
    <3>2. pc'[a] # "write"
      <4>1. CASE Lock(a) \/ ReadList(a) \/ Generate(a) \/ Load(a) \/ Script(a)
        <5>1. Step(a) \/ GiveUp(a)
          BY <4>1 DEF Lock, ReadList, Generate, Load, Script
        <5>2. pc[a] \in {"lock", "readList", "generate", "load", "script"}
          BY <4>1 DEF Lock, ReadList, Generate, Load, Script, At
        <5>3. After(op[a].kind, pc[a]) # "write"
          BY <5>2, AfterLabels
        <5> QED
          BY <1>1, <5>1, <5>3 DEF Step, GiveUp, Goto
      <4>2. CASE SaveList(a) \/ WriteList(a) \/ End(a)
        BY <1>1, <4>2 DEF SaveList, WriteList, End, Goto, GiveUp
      <4> QED
        BY <1>5, <2>5, <4>1, <4>2 DEF Handle
    <3> QED
      BY <1>2, <2>2, <3>1, <3>2
  <2> QED
    BY <2>3, <2>4, <2>5
<1>6. ASSUME NEW P \in SUBSET Actors, Kill(P)
      PROVE  pc'[Bot] = "idle" /\ \A q \in Requests : pc'[q] = "write" => file' = Empty
  BY <1>1, <1>2, <1>6 DEF Kill, files, Actors
<1> QED
  BY <1>2, <1>3, <1>4, <1>5, <1>6 DEF Next, Actors

\* Only a write ends a truncation; one that fails, or is cut off, is remembered.
LEMMA WhyKeeps == ASSUME FilesInv, [Next]_vars  PROVE UnreadableWhy'
<1>1. /\ StoreInv /\ Typed /\ TypeOK /\ Quiet /\ UnreadableWhy
      /\ pc \in [Actors -> Labels] /\ Bot \notin Requests
  BY ActorAssumption DEF FilesInv, StoreInv, Typed
<1>2. CASE file' = file /\ (failed' \/ (failed' = failed /\ \A a \in Actors : pc[a] = "write" => pc'[a] = "write"))
           /\ (alone' => alone)
  BY <1>1, <1>2 DEF UnreadableWhy, At
<1>3. ASSUME NEW a \in Actors, Save(a)  PROVE UnreadableWhy'
  <2>1. (file' = Empty /\ pc'[a] = "write") \/ (file' = file /\ failed')
    BY <1>1, <1>3 DEF Save, Goto
  <2>2. alone' = alone /\ Empty # Mixed
    BY <1>3, FileAssumption DEF Save
  <2> QED
    BY <1>1, <2>1, <2>2 DEF UnreadableWhy, At
<1>4. ASSUME NEW a \in Actors, Write(a)  PROVE UnreadableWhy'
  <2>1. pc[a] = "write" /\ alone' = alone
    BY <1>4 DEF Write, At
  <2>2. CASE file' = file /\ failed'
    BY <1>1, <2>1, <2>2 DEF UnreadableWhy
  <2>3. CASE file' \in Updated(copy[a], op[a], found[a])
    <3>1. file' # Empty /\ file' # Mixed
      BY <1>1, <2>1, <2>3, Written
    <3> QED
      BY <3>1 DEF UnreadableWhy
  <2>4. CASE file # Empty /\ file' = Mixed
    <3>1. ~alone
      BY <1>1, <2>1, <2>4 DEF Quiet, Actors
    <3> QED
      BY <2>1, <2>4, <3>1, FileAssumption DEF UnreadableWhy
  <2> QED
    BY <1>4, <2>2, <2>3, <2>4 DEF Write
<1>5. CASE UNCHANGED vars
  BY <1>2, <1>5 DEF vars, files, ghost
<1>6. ASSUME NEW a \in Actors, NEW o, Begin(a, o), alone' => alone  PROVE UnreadableWhy'
  <2>1. pc[a] = "idle" /\ file' = file /\ failed' = failed /\ \A b \in Actors \ {a} : pc'[b] = pc[b]
    BY <1>1, <1>6 DEF Begin, At, Goto, files
  <2> QED
    BY <1>2, <1>6, <2>1
<1>7. ASSUME NEW a \in Actors, Handle(a), ~Save(a), ~Write(a)  PROVE UnreadableWhy'
  <2>1. pc[a] # "write" /\ file' = file /\ alone' = alone /\ (failed' = failed \/ failed')
    BY <1>7 DEF Handle, Lock, ReadList, Generate, Load, SaveList, WriteList, Script, End, At, files, ghost
  <2>2. \A b \in Actors \ {a} : pc'[b] = pc[b]
    BY <1>1, <1>7 DEF Handle, Lock, ReadList, Generate, Load, SaveList, WriteList, Script, End,
          At, Step, Goto, GiveUp
  <2> QED
    BY <1>2, <2>1, <2>2
<1>8. CASE Kill(Requests) \/ Kill({Bot})
  BY <1>2, <1>8 DEF Kill, files
<1> QED
  BY <1>3, <1>4, <1>5, <1>6, <1>7, <1>8 DEF Next, StartRequest, StartBot, Actors

\* In the web UI alone, who works on the files finds them readable until it truncates one.
LEMMA ReadableInside ==
    ASSUME FilesInv, alone, ~failed, NEW a \in Requests, pc[a] \in Inside \ {"write"}
    PROVE  Readable
<1>1. file # Mixed
  BY DEF FilesInv, UnreadableWhy
<1>2. ASSUME file = Empty  PROVE FALSE
  <2>1. PICK b \in Actors : pc[b] = "write"
    BY <1>2 DEF FilesInv, UnreadableWhy, At
  <2>2. b \in Requests
    BY <2>1 DEF FilesInv, Quiet, Actors
  <2>3. mutex = a /\ mutex = b
    BY <2>1, <2>2 DEF FilesInv, StoreInv, Local, Guarded, Inside, Actors
  <2> QED
    BY <2>1, <2>3
<1> QED
  BY <1>1, <1>2 DEF FilesInv, TypeOK, Readable

\* What a step of one request does to the import of another: nothing.
LEMMA OtherImports ==
    ASSUME FilesInv, alone, ~failed, NEW a \in Requests, NEW b \in Requests, b # a,
           pc'[b] = pc[b], op'[b] = op[b], dir'[b] = dir[b], lists' = lists \/ pc[a] \in Inside
    PROVE  Halfway(b)' /\ (Midway(b) => Midway(b)')
<1>1. CASE lists' = lists
  BY <1>1 DEF FilesInv, Imported, Halfway, Midway
<1>2. CASE pc[a] \in Inside
  <2>1. pc[b] \notin Inside
    BY <1>2 DEF FilesInv, StoreInv, Local, Guarded, Actors
  <2> QED
    BY <2>1 DEF Halfway, Midway, Inside
<1> QED
  BY <1>1, <1>2

LEMMA ImportKeeps == ASSUME FilesInv, [Next]_vars  PROVE Imported'
<1> DEFINE Good == /\ \A r \in Requests : Halfway(r)'
                   /\ saved' = "import" => Whole' \/ \E r \in Requests : Midway(r)'
<1> SUFFICES ASSUME alone', ~failed'  PROVE Good
  BY DEF Imported
<1>1. /\ StoreInv /\ TypeOK /\ Quiet /\ UnreadableWhy /\ Imported
      /\ pc \in [Actors -> Labels] /\ op \in [Actors -> WebOps \cup BotOps \cup {NoOp}]
      /\ dir \in [Actors -> Dirs] /\ lists \in [Dirs -> Lists \cup {Empty, Mixed, None}]
      /\ Bot \notin Requests /\ Requests \subseteq Actors
  BY ActorAssumption DEF FilesInv, StoreInv, Typed, TypeOK, Actors
<1>2. alone /\ ~failed /\ ~StartBot /\ pc[Bot] = "idle"
  <2>1. ~StartBot
    BY DEF StartBot
  <2>2. alone' = alone
    BY <2>1 DEF Next, vars, ghost, Handle, StartRequest, Begin, Lock, ReadList, Generate, Load,
          Save, Write, SaveList, WriteList, Script, End, Kill
  <2>3. failed' = failed \/ failed' = TRUE
    BY DEF Next, vars, ghost, Handle, StartRequest, StartBot, Begin, Lock, ReadList, Generate, Load,
          Save, Write, SaveList, WriteList, Script, End, Kill
  <2> QED
    BY <1>1, <2>1, <2>2, <2>3 DEF Quiet
<1>3. /\ \A r \in Requests : Halfway(r)
      /\ saved = "import" => Whole \/ \E r \in Requests : Midway(r)
  BY <1>1, <1>2 DEF Imported
\* A step of one request that leaves the files and the history alone.
<1>4. ASSUME NEW a \in Requests, UNCHANGED <<file, lists, saved>>,
             \A b \in Requests \ {a} : pc'[b] = pc[b] /\ op'[b] = op[b] /\ dir'[b] = dir[b],
             Halfway(a)', Midway(a) => Midway(a)'
      PROVE  Good
  <2>1. \A b \in Requests \ {a} : Halfway(b)' /\ (Midway(b) => Midway(b)')
    BY <1>2, <1>4, OtherImports
  <2>2. Whole => Whole'
    BY <1>4 DEF Whole, Readable
  <2> QED
    BY <1>3, <1>4, <2>1, <2>2
\* One that changes them, and is on its way, or done.
<1>5. ASSUME NEW a \in Requests, pc[a] \in Inside,
             \A b \in Requests \ {a} : pc'[b] = pc[b] /\ op'[b] = op[b] /\ dir'[b] = dir[b],
             Halfway(a)', saved' = "import" => Midway(a)' \/ Whole'
      PROVE  Good
  <2>1. \A b \in Requests \ {a} : Halfway(b)'
    BY <1>2, <1>5, OtherImports
  <2> QED
    BY <1>5, <2>1
<1>6. CASE UNCHANGED vars
  <2>1. UNCHANGED <<file, lists, saved, pc, op, dir>>
    BY <1>6 DEF vars, files, local, ghost
  <2> QED
    BY <1>3, <2>1 DEF Halfway, Midway, Whole, Readable
<1>7. ASSUME NEW a \in Requests, StartRequest(a)  PROVE Good
  <2>1. PICK o \in WebOps : Begin(a, o)
    BY <1>7 DEF StartRequest
  <2>2. First(a, o.kind) \in {"readList", "lock"}
    BY <1>1, FirstLabels DEF OpsOf
  <2>3. /\ pc[a] = "idle" /\ pc' = [pc EXCEPT ![a] = First(a, o.kind)]
        /\ op' = [op EXCEPT ![a] = o] /\ UNCHANGED <<file, lists, saved, dir>>
    BY <2>1 DEF Begin, At, Goto, files
  <2>4. pc'[a] \in {"readList", "lock"}
        /\ \A b \in Requests \ {a} : pc'[b] = pc[b] /\ op'[b] = op[b] /\ dir'[b] = dir[b]
    BY <1>1, <2>2, <2>3
  <2>5. Halfway(a)' /\ ~Midway(a)
    BY <2>3, <2>4 DEF Halfway, Midway
  <2> QED
    BY <1>4, <2>3, <2>4, <2>5
<1>8. ASSUME NEW a \in Actors, Handle(a)  PROVE Good
  <2>1. a \in Requests
    BY <1>2, <1>8 DEF Actors, Handle, Lock, ReadList, Generate, Load, Save, Write, SaveList,
          WriteList, Script, End, At
  <2>2. \A b \in Requests \ {a} : pc'[b] = pc[b] /\ op'[b] = op[b] /\ dir'[b] = dir[b]
    <3>1. \A b \in Requests \ {a} : pc'[b] = pc[b]
      BY <1>1, <1>8 DEF Handle, Lock, ReadList, Generate, Load, Save, Write, SaveList, WriteList,
            Script, End, Step, Goto, GiveUp
    <3>2. \A b \in Requests \ {a} : op'[b] = op[b]
      BY <1>1, <1>8 DEF Handle, Lock, ReadList, Generate, Load, Save, Write, SaveList, WriteList,
            Script, End, local
    <3>3. \A b \in Requests \ {a} : dir'[b] = dir[b]
      BY <1>1, <1>8 DEF Handle, Lock, ReadList, Generate, Load, Save, Write, SaveList, WriteList,
            Script, End, local
    <3> QED
      BY <3>1, <3>2, <3>3
  <2>3. Local(a) /\ Halfway(a)
    BY <1>1, <1>3, <2>1 DEF StoreInv
  <2>4. CASE Lock(a) \/ ReadList(a) \/ Generate(a) \/ Script(a) \/ End(a)
    <3>1. UNCHANGED <<file, lists, saved>>
      BY <2>4 DEF Lock, ReadList, Generate, Script, End, files, ghost
    <3>2. ~Midway(a)
      BY <2>4 DEF Lock, ReadList, Generate, Script, End, At, Midway
    <3>3. Halfway(a)'
      <4>1. CASE End(a)
        <5>1. pc'[a] = "idle"
          BY <1>1, <2>1, <4>1 DEF End, Goto
        <5> QED
          BY <5>1 DEF Halfway
      <4>2. CASE Lock(a) \/ ReadList(a) \/ Generate(a) \/ Script(a)
        <5>1. /\ pc[a] \in {"lock", "readList", "generate", "script"} /\ op' = op
              /\ Step(a) \/ GiveUp(a)
          BY <4>2 DEF Lock, ReadList, Generate, Script, At, local
        <5>2. pc'[a] = "end" \/ pc'[a] = After(op[a].kind, pc[a])
          BY <1>1, <5>1 DEF Step, GiveUp, Goto
        <5>3. pc'[a] # "writeList"
          BY <5>1, <5>2, AfterLabels
        <5>4. op[a].kind = "import" => pc'[a] \notin {"load", "save", "write"}
          <6>1. op[a].kind = "import" => pc[a] # "readList"
            BY <2>3 DEF Local, Holds
          <6> QED
            BY <5>1, <5>2, <6>1, AfterLabels
        <5> QED
          BY <5>1, <5>3, <5>4 DEF Halfway
      <4> QED
        BY <2>4, <4>1, <4>2
    <3> QED
      BY <1>4, <2>1, <2>2, <3>1, <3>2, <3>3
  <2>5. CASE Load(a)
    <3>1. UNCHANGED <<file, lists, saved, op>> /\ pc[a] = "load"
      BY <2>5 DEF Load, At, files, ghost
    <3>2. Readable
      BY <1>2, <2>1, <3>1, ReadableInside DEF Inside
    <3>3. op[a].kind = "import" => pc'[a] = "save"
      <4>1. op[a].kind = "import" => StillThere(file, op[a])
        BY DEF StillThere
      <4>2. op[a].kind = "import" => Step(a)
        BY <2>5, <3>2, <4>1 DEF Load
      <4>3. Step(a) => pc'[a] = After(op[a].kind, "load")
        BY <1>1, <3>1 DEF Step, Goto
      <4> QED
        BY <4>2, <4>3, AfterLabels
    <3>4. pc'[a] # "writeList"
      <4>1. pc'[a] = "end" \/ pc'[a] = After(op[a].kind, "load")
        BY <1>1, <2>5, <3>1 DEF Load, Step, GiveUp, Goto
      <4> QED
        BY <4>1, AfterLabels
    <3>5. Halfway(a)' /\ (Midway(a) => Midway(a)')
      BY <2>3, <3>1, <3>3, <3>4 DEF Halfway, Midway
    <3> QED
      BY <1>4, <2>1, <2>2, <3>1, <3>5
  <2>6. CASE Save(a)
    <3>1. pc[a] = "save" /\ pc'[a] = "write" /\ op' = op /\ lists' = lists
      BY <1>1, <2>6 DEF Save, At, Goto
    <3> QED
      BY <1>5, <2>1, <2>2, <2>3, <3>1 DEF Inside, Halfway, Midway
  <2>7. CASE Write(a)
    <3>1. /\ pc[a] = "write" /\ op' = op /\ lists' = lists
          /\ pc'[a] = After(op[a].kind, "write") /\ saved' = op[a].kind
          /\ file' \in Updated(copy[a], op[a], found[a]) \/ file # Empty
      BY <1>1, <2>7 DEF Write, At, Step, Goto
    <3>2. file' \in Updated(copy[a], op[a], found[a])
      BY <1>1, <1>2, <2>1, <3>1 DEF Quiet
    <3>3. Halfway(a)'
      BY <3>1, AfterLabels DEF Halfway
    <3>4. ASSUME op[a].kind = "import"  PROVE Whole'
      <4>1. file' \in Configs
        BY <1>1, <2>1, <3>1, <3>2, Written
      <4>2. lists["data"] = op[a].list
        BY <2>3, <3>1, <3>4 DEF Halfway
      <4>3. op[a].list \in Lists
        BY <1>1, <2>1, <3>1, <3>4, ReadyToWrite, InputAssumption DEF OpsOf
      <4>4. file' = [copy[a] EXCEPT !.servers = AllIPs(op[a].list)]
        BY <3>2, <3>4 DEF Updated
      <4>5. file'.servers = AllIPs(op[a].list)
        <5>1. copy[a] \in Configs
          BY <1>1, <2>1, <3>1, ReadyToWrite
        <5> QED
          BY <4>4, <5>1 DEF Configs
      <4>6. AllIPs(lists["data"])' = AllIPs(op[a].list)
        BY <3>1, <4>2
      <4> QED
        BY <3>1, <4>1, <4>2, <4>3, <4>5, <4>6 DEF Whole, Readable
    <3> QED
      BY <1>5, <2>1, <2>2, <3>1, <3>3, <3>4 DEF Inside
  <2>8. CASE SaveList(a)
    <3>1. Readable
      <4>1. pc[a] = "saveList"
        BY <2>8 DEF SaveList, At
      <4> QED
        BY <1>2, <2>1, <4>1, ReadableInside DEF Inside
    <3>2. /\ pc[a] = "saveList" /\ pc'[a] = "writeList" /\ op' = op
          /\ lists' = [lists EXCEPT !["data"] = Empty] /\ dir' = [dir EXCEPT ![a] = "data"]
      BY <1>1, <2>8, <3>1 DEF SaveList, At, Goto
    <3>3. lists'["data"] = Empty /\ dir'[a] = "data"
      BY <1>1, <3>2 DEF Dirs
    <3>4. op[a].kind = "import"
      BY <2>3, <3>2 DEF Local, Chosen
    <3> QED
      BY <1>5, <2>1, <2>2, <3>2, <3>3, <3>4 DEF Inside, Halfway, Midway
  <2>9. CASE WriteList(a)
    <3>1. pc[a] = "writeList" /\ pc'[a] = "load" /\ op' = op
          /\ (lists' = [lists EXCEPT ![dir[a]] = op[a].list] \/ lists[dir[a]] # Empty)
      BY <1>1, <2>9 DEF WriteList, At, Goto, local
    <3>2. dir[a] = "data" /\ lists["data"] = Empty
      BY <2>3, <3>1 DEF Halfway
    <3>3. lists'["data"] = op[a].list
      BY <1>1, <3>1, <3>2 DEF Dirs
    <3>4. op[a].kind = "import"
      BY <2>3, <3>1 DEF Local, Chosen
    <3> QED
      BY <1>5, <2>1, <2>2, <3>1, <3>3, <3>4 DEF Inside, Halfway, Midway
  <2> QED
    BY <1>8, <2>4, <2>5, <2>6, <2>7, <2>8, <2>9 DEF Handle
<1>9. ~Kill(Requests) /\ ~Kill({Bot})
  BY DEF Kill
<1> QED
  BY <1>2, <1>6, <1>7, <1>8, <1>9 DEF Next

LEMMA FilesInvariant == Spec => []FilesInv
<1>1. ASSUME FilesInv, [Next]_vars  PROVE FilesInv'
  <2>1. StoreInv'
    BY <1>1, NextKeeps DEF FilesInv
  <2> QED
    BY <1>1, <2>1, TypesKeep, QuietKeeps, WhyKeeps, ImportKeeps DEF FilesInv
<1> QED
  BY FilesInit, <1>1, PTL DEF Spec

\* Files, copies and lists are what they are said to be: every operation makes a
\* configuration of a configuration, whatever was decoded from a request.
THEOREM TypeCorrect == Spec => []TypeOK
<1>1. FilesInv => TypeOK
  BY DEF FilesInv
<1> QED
  BY <1>1, FilesInvariant, PTL

\* os.WriteFile truncates and then writes: vpn-director.json is unreadable only between
\* the two, after one of them failed or was cut off, or when the bot writes as well.
THEOREM UnreadableExplained == Spec => []UnreadableWhy
<1>1. FilesInv => UnreadableWhy
  BY DEF FilesInv
<1> QED
  BY <1>1, FilesInvariant, PTL

\* The handler of an import writes servers.json and then xray.servers under OpMutex: while
\* the bot is at rest and nothing fails, the two agree whenever the mutex is free.
THEOREM ImportsAreWhole == Spec => []ImportIsWhole
<1>1. FilesInv => ImportIsWhole
  <2> SUFFICES ASSUME FilesInv, alone, ~failed, mutex = None, saved = "import"
               PROVE  Whole
    BY DEF ImportIsWhole, Whole
  <2>1. ASSUME NEW r \in Requests  PROVE ~Midway(r)
    BY ActorAssumption DEF FilesInv, StoreInv, Local, Guarded, Inside, Midway, Actors
  <2> QED
    BY <2>1 DEF FilesInv, Imported
<1> QED
  BY <1>1, FilesInvariant, PTL
=============================================================================
