---------------------------- MODULE BotDialogues ----------------------------
(****************************************************************************)
(* The dialogues of the Telegram bot in one chat: the wizard (/configure),  *)
(* the excluded addresses (/exclude) and the clients (/clients).  The bot   *)
(* handles one message or button at a time, to its end.                     *)
(*                                                                          *)
(* Messages stay in the chat with their buttons, when a dialogue is over    *)
(* and when the bot has been restarted, so any button may be pressed at any *)
(* time.  board is the keyboard shown last; a button that is not on it is   *)
(* an old one.                                                              *)
(****************************************************************************)
EXTENDS Naturals, Sequences, SequencesExt

CONSTANTS
    Hosts,      \* addresses a user types, accepted as clients and as excluded
    Foreign,    \* addresses accepted as excluded only
    Junk,       \* a text that is no address
    Routes,     \* the routes the wizard offers
    TunnelRoutes, \* those that are tunnels
    Countries,  \* the codes the wizard offers
    Default,    \* the code chosen at first ("ru")
    ServerLists, \* bound: what the list of servers can be
    MaxClients, \* bound: clients entered in one run of the wizard
    MaxIPs,     \* bound: excluded addresses
    None        \* no session, no address, no keyboard

Addresses == Hosts \cup Foreign
Texts     == Addresses \cup {Junk}
Servers   == UNION {ToSet(list) : list \in ServerLists}
Indices   == {1} \cup UNION {DOMAIN list : list \in ServerLists}

\* The keyboards a message can have.
WizardBoards == {"server", "exclusions", "exclude_ips", "clients", "client_route", "confirm"}
Keyboards    == WizardBoards \cup {"exclude", "list", "remove", "route"}
Boards       == Keyboards \cup {None}

\* What a summary says, and what apply saves.
Summaries    == [list : ServerLists, server : Servers \cup {None}, countries : SUBSET Countries,
                 clients : SeqOf(Hosts \X Routes, MaxClients)]
Applications == [board : Boards, said : Summaries \cup {None}, list : ServerLists,
                 server : Servers \cup {None}, countries : SUBSET Countries,
                 clients : SUBSET (Addresses \X Routes)]

ASSUME TextAssumption     == Hosts \cap Foreign = {} /\ {Junk, None} \cap Addresses = {}
                             /\ "" \notin Addresses /\ None # ""
ASSUME KeyboardAssumption == None \notin Keyboards /\ None \notin Summaries
ASSUME ChoiceAssumption   == Default \in Countries /\ TunnelRoutes \subseteq Routes
ASSUME DialogueBounds     == MaxClients \in Nat /\ MaxIPs \in Nat \ {0}

VARIABLES
    wizard,    \* session of the wizard, or None
    exclude,   \* addresses in the session of /exclude, or None
    adding,    \* addState: None, "" when an address is asked for, or the address
    clients,   \* configuration: pairs of address and route
    exips,     \* configuration: xray.exclude_ips
    servers,   \* the list of servers
    board,     \* the keyboard shown last
    disturbed, \* history: an old button was pressed since the last command
    others,    \* history: what was changed since then from outside of this chat
    opened,    \* history: exips when /exclude was opened, or None
    shown,     \* history: the summary above the keyboard shown last, or None
    applied    \* history: what the wizard has just applied, or None

config        == <<clients, exips, servers>>
dialogueGhost == <<disturbed, others, opened, shown, applied>>
dialogueVars  == <<wizard, exclude, adding, config, board, dialogueGhost>>

WizardSteps == {"select_server", "exclusions", "exclude_ips", "clients", "client_ip",
                "client_route", "confirm"}

Lists == {s \in SeqOf(Addresses, MaxIPs) : IsInjective(s)}

\* A session as Manager.Start makes it: index 0 is the first server.
NewSession == [step |-> "select_server", server |-> 1, countries |-> {}, exips |-> <<>>,
               clients |-> <<>>, pending |-> None]

ServerAt(list, i) == IF i \in DOMAIN list THEN list[i] ELSE None

\* What the summary says.  It says nothing of the excluded addresses.
Summary(w) == [list |-> servers, server |-> ServerAt(servers, w.server),
               countries |-> w.countries, clients |-> w.clients]

-----------------------------------------------------------------------------
(* Buttons: the dialogue they belong to by their prefix, and what follows.  *)

Button(d, a)    == [of |-> d, act |-> a, arg |-> None]
ButtonOf(d, a, x) == [of |-> d, act |-> a, arg |-> x]

Positions == 1..MaxIPs
OnBoard(b) ==
    CASE b = "server"       -> {ButtonOf("wizard", "server", i) : i \in Indices}
      [] b = "exclusions"   -> {ButtonOf("wizard", "excl", k) : k \in Countries}
                               \cup {Button("wizard", "exclDone")}
      [] b = "exclude_ips"  -> {ButtonOf("wizard", "rm", i) : i \in Positions}
                               \cup {Button("wizard", "add"), Button("wizard", "done")}
      [] b = "clients"      -> {Button("wizard", a) : a \in {"clientAdd", "clientDel", "clientDone"}}
      [] b = "client_route" -> {ButtonOf("wizard", "route", r) : r \in Routes}
      [] b = "confirm"      -> {Button("wizard", "apply")}
      [] b = "exclude"      -> {ButtonOf("exclude", "rm", i) : i \in Positions}
                               \cup {Button("exclude", a) : a \in {"add", "done", "cancel"}}
      [] b = "list"         -> {ButtonOf("clients", "remove", h) : h \in Hosts}
                               \cup {Button("clients", a) : a \in {"pause", "add", "close"}}
      [] b = "remove"       -> {ButtonOf("clients", "rm_yes", h) : h \in Hosts}
                               \cup {Button("clients", "rm_no")}
      [] b = "route"        -> {ButtonOf("clients", "route", r) : r \in Routes}
                               \cup {Button("clients", "routeCancel")}
      [] OTHER              -> {}

\* Every keyboard of the wizard has a button to cancel.
ButtonsOn(b) == OnBoard(b) \cup (IF b \in WizardBoards THEN {Button("wizard", "cancel")} ELSE {})
Buttons == UNION {ButtonsOn(b) : b \in Boards}

-----------------------------------------------------------------------------
(* What a handler leaves behind.                                            *)

\* Nothing is applied, and the summary is the one of the keyboard still shown last.
NoneApplied == shown' = (IF board' = "confirm" /\ wizard' # None THEN shown ELSE None)
               /\ applied' = None

WizardShows(w, b) ==
    wizard' = w /\ board' = b /\ UNCHANGED <<exclude, adding, config, others, opened>>

Wizard(w, b)  == WizardShows(w, b) /\ NoneApplied
WizardSays(w) == Wizard(w, board)

Exclude(e, b) ==
    /\ exclude' = e /\ board' = b
    /\ opened' = IF e = None THEN None ELSE opened
    /\ UNCHANGED <<wizard, adding, clients, servers, others>> /\ NoneApplied

Clients(a, cs, b) ==
    /\ adding' = a /\ clients' = cs /\ board' = b
    /\ UNCHANGED <<wizard, exclude, exips, servers, others, opened>> /\ NoneApplied

Nothing == UNCHANGED <<wizard, exclude, adding, config, board, others, opened>> /\ NoneApplied

\* RemoveExcludeIP: an index beyond the end, of an old keyboard, does nothing.
Without(s, i) == IF i \in DOMAIN s THEN RemoveAt(s, i) ELSE s

DialoguesInit ==
    /\ wizard = None /\ exclude = None /\ adding = None
    /\ clients = {} /\ exips \in {<<>>} \cup {<<x>> : x \in Foreign} /\ servers \in ServerLists
    /\ board = None
    /\ disturbed = FALSE /\ others = {} /\ opened = None /\ shown = None /\ applied = None

-----------------------------------------------------------------------------
(* Commands.  Each of the three ends the other two dialogues.               *)

\* A command that fails shows no keyboard: all buttons are old from then on.
Shows(b) == board' = b /\ disturbed' = FALSE
Fails    == Shows(None)
Command  == shown' = None /\ applied' = None /\ UNCHANGED config

\* No servers, or none that can be loaded: the message says so, and the session stays.
Configure ==
    /\ exclude' = None /\ opened' = None /\ adding' = None /\ others' = {}
    /\ wizard' = NewSession
    /\ (servers # <<>> /\ Shows("server")) \/ Fails
    /\ Command

\* Faulty: the wizard is not ended.
ExcludeCommandAlone ==
    /\ adding' = None
    /\ exclude' = exips /\ opened' = exips /\ others' = {} /\ Shows("exclude")
    /\ UNCHANGED wizard
    /\ Command

\* A configuration that cannot be loaded is reported; the other dialogues are over,
\* an older session of /exclude is not.
ExcludeCommand ==
    /\ wizard' = None /\ adding' = None
    /\ \/ exclude' = exips /\ opened' = exips /\ others' = {} /\ Shows("exclude")
       \/ UNCHANGED <<exclude, opened, others>> /\ Fails
    /\ Command

\* Faulty: the session of /exclude is not ended.
ClientsCommandAlone ==
    /\ wizard' = None /\ adding' = None
    /\ Shows("list")
    /\ UNCHANGED <<exclude, opened, others>>
    /\ Command

ClientsCommand ==
    /\ exclude' = None /\ opened' = None /\ wizard' = None /\ adding' = None /\ others' = {}
    /\ Shows("list") \/ Fails
    /\ Command

-----------------------------------------------------------------------------
(* Buttons of the wizard.  The step of the session decides who handles      *)
(* them, except for apply and cancel.                                       *)

In(step) == wizard # None /\ wizard.step = step
Goto(w, step) == [w EXCEPT !.step = step]

PressServer(i) ==
    /\ In("select_server")
    /\ \/ /\ i \in DOMAIN servers
          /\ Wizard([wizard EXCEPT !.server = i, !.step = "exclusions",
                                   !.countries = @ \cup {Default}], "exclusions")
       \/ Nothing

Flip(S, k) == IF k \in S THEN S \ {k} ELSE S \cup {k}
PressCountry(k) ==
    In("exclusions") /\ Wizard([wizard EXCEPT !.countries = Flip(@, k)], "exclusions")

\* The next step starts from the addresses configured, if there are any and they
\* can be loaded.
PressCountriesDone ==
    /\ In("exclusions")
    /\ \E ips \in {wizard.exips} \cup (IF exips = <<>> THEN {} ELSE {exips}) :
          Wizard([wizard EXCEPT !.step = "exclude_ips", !.exips = ips], "exclude_ips")

PressRemoveIP(i) ==
    In("exclude_ips") /\ Wizard([wizard EXCEPT !.exips = Without(@, i)], "exclude_ips")
PressAddIP    == In("exclude_ips") /\ WizardSays(wizard)
PressIPsDone  == In("exclude_ips") /\ Wizard(Goto(wizard, "clients"), "clients")

\* Three steps share one handler.
InClients == In("clients") \/ In("client_ip") \/ In("client_route")
PressClientAdd == InClients /\ WizardSays(Goto(wizard, "client_ip"))
PressClientDel ==
    /\ InClients
    /\ Wizard([wizard EXCEPT !.clients = IF @ = <<>> THEN @ ELSE Front(@)], "clients")
\* Faulty: the keyboard is shown without a summary if the servers cannot be loaded.
PressClientDoneUnchecked ==
    /\ InClients
    /\ \/ WizardShows(Goto(wizard, "confirm"), "confirm") /\ shown' = Summary(wizard) /\ applied' = None
       \/ Wizard(Goto(wizard, "confirm"), "confirm")

\* No summary and no keyboard if the servers cannot be loaded.
PressClientDone ==
    /\ InClients
    /\ \/ WizardShows(Goto(wizard, "confirm"), "confirm") /\ shown' = Summary(wizard) /\ applied' = None
       \/ WizardSays(Goto(wizard, "confirm"))

Accept(r) ==
    /\ Len(wizard.clients) < MaxClients
    /\ Wizard([wizard EXCEPT !.clients = Append(@, <<wizard.pending, r>>), !.pending = None,
                             !.step = "clients"], "clients")

\* Faulty: neither the step nor the address is checked.
PressRouteAnytime(r) == InClients /\ Accept(r)

PressRoute(r) == In("client_route") /\ wizard.pending # None /\ Accept(r)

\* Apply needs a session only, and ends it whatever happens.  The server is looked up
\* again, and left alone if there is none or its configuration cannot be written.
SavedClients(cs)   == {<<cs[i][1], cs[i][2]>> : i \in DOMAIN cs}
SavedCountries(ks) == IF ks = {} THEN {Default} ELSE ks
PressApply ==
    /\ wizard # None
    /\ wizard' = None /\ shown' = None
    /\ \/ /\ clients' = SavedClients(wizard.clients) /\ exips' = wizard.exips
          /\ \E server \in {ServerAt(servers, wizard.server), None} :
                applied' = [board |-> board, said |-> shown, list |-> servers, server |-> server,
                            countries |-> SavedCountries(wizard.countries), clients |-> clients']
       \/ UNCHANGED <<clients, exips>> /\ applied' = None
    /\ UNCHANGED <<exclude, adding, servers, board, others, opened>>

PressCancel == WizardSays(None)

\* Anything else: no session, or another step.
Handled(b) ==
    CASE b.act = "server"                 -> In("select_server")
      [] b.act \in {"excl", "exclDone"}   -> In("exclusions")
      [] b.act \in {"rm", "add", "done"}  -> In("exclude_ips")
      [] b.act \in {"clientAdd", "clientDel", "clientDone"} -> InClients
      [] b.act = "route"                  -> In("client_route") /\ wizard.pending # None
      [] b.act = "apply"                  -> wizard # None
      [] OTHER                            -> TRUE

PressWizard(b) ==
    \/ b.act = "server" /\ PressServer(b.arg)
    \/ b.act = "excl" /\ PressCountry(b.arg)
    \/ b.act = "exclDone" /\ PressCountriesDone
    \/ b.act = "rm" /\ PressRemoveIP(b.arg)
    \/ b.act = "add" /\ PressAddIP
    \/ b.act = "done" /\ PressIPsDone
    \/ b.act = "clientAdd" /\ PressClientAdd
    \/ b.act = "clientDel" /\ PressClientDel
    \/ b.act = "clientDone" /\ PressClientDone
    \/ b.act = "route" /\ PressRoute(b.arg)
    \/ b.act = "apply" /\ PressApply
    \/ b.act = "cancel" /\ PressCancel
    \/ ~Handled(b) /\ Nothing

-----------------------------------------------------------------------------
(* Buttons of /exclude.                                                     *)

PressExclude(b) ==
    IF exclude = None \/ b.act = "add" THEN Nothing
    ELSE \/ b.act = "rm" /\ Exclude(Without(exclude, b.arg), "exclude") /\ UNCHANGED exips
         \/ b.act = "cancel" /\ Exclude(None, board) /\ UNCHANGED exips
         \/ b.act = "done" /\ Exclude(None, board) /\ exips' \in {exclude, exips}

-----------------------------------------------------------------------------
(* Buttons of /clients.  A configuration that cannot be loaded or saved, or *)
(* a script that fails, leaves a message and no keyboard.                   *)

RoutesOf(h) == {r \in Routes : <<h, r>> \in clients}

PressRemove(h) ==
    \/ RoutesOf(h) # {} /\ Clients(adding, clients, "remove")
    \/ RoutesOf(h) = {} /\ Clients(adding, clients, "list")
    \/ Nothing
\* The first route of the address; which one that is, is a matter of names.
PressRemoveYes(h) ==
    \/ \E r \in RoutesOf(h) : Clients(adding, clients \ {<<h, r>>}, "list")
    \/ RoutesOf(h) = {} /\ Clients(adding, clients, "list")
    \/ Nothing
\* Pausing and resuming show the list again.
PressPause == Clients(adding, clients, "list") \/ Nothing
PressAdd   == Clients("", clients, board)
PressClose == Clients(None, clients, None)
\* The route of the address that was typed.  The pending address is taken first.
PressAddRoute(r) ==
    \/ adding \in {None, ""} /\ Clients(None, clients, board)
    \/ adding \notin {None, ""} /\ Clients(None, clients \cup {<<adding, r>>}, "list")
    \/ adding \notin {None, ""} /\ Clients(None, clients, IF r \in TunnelRoutes THEN "list" ELSE board)

PressClients(b) ==
    \/ b.act = "remove" /\ PressRemove(b.arg)
    \/ b.act = "rm_yes" /\ PressRemoveYes(b.arg)
    \/ b.act = "rm_no" /\ Clients(adding, clients, "list")
    \/ b.act = "pause" /\ PressPause
    \/ b.act = "add" /\ PressAdd
    \/ b.act = "close" /\ PressClose
    \/ b.act = "route" /\ PressAddRoute(b.arg)
    \/ b.act = "routeCancel" /\ Clients(None, clients, "list")

Press(b) ==
    /\ disturbed' = (disturbed \/ b \notin ButtonsOn(board))
    /\ \/ b.of = "wizard" /\ PressWizard(b)
       \/ b.of = "exclude" /\ PressExclude(b)
       \/ b.of = "clients" /\ PressClients(b)

-----------------------------------------------------------------------------
(* A text that is no command is offered to all three.                       *)

\* Each of the three yields what becomes of its dialogue, and a keyboard if it
\* shows one.
\* Faulty: an address that has a route already is accepted.
ClientsTextUnchecked(x) ==
    IF adding # "" \/ x \notin Hosts THEN {<<adding, None>>} ELSE {<<x, "route">>}
ClientsText(x) ==
    IF adding # "" \/ x \notin Addresses THEN {<<adding, None>>}
    ELSE {<<adding, None>>} \cup (IF RoutesOf(x) = {} THEN {<<x, "route">>} ELSE {})

ExcludeText(x) ==
    IF exclude = None \/ x \notin Addresses \/ Contains(exclude, x) \/ Len(exclude) = MaxIPs
    THEN <<exclude, None>> ELSE <<Append(exclude, x), "exclude">>

WizardText(x) ==
    CASE In("exclude_ips") /\ x \in Addresses /\ ~Contains(wizard.exips, x) /\ Len(wizard.exips) < MaxIPs ->
            <<[wizard EXCEPT !.exips = Append(@, x)], "exclude_ips">>
      [] In("client_ip") /\ x \in Hosts ->
            <<[wizard EXCEPT !.pending = x, !.step = "client_route"], "client_route">>
      [] OTHER -> <<wizard, None>>

Text(x) ==
    \E c \in ClientsText(x) :
       LET e == ExcludeText(x)  w == WizardText(x) IN
       /\ adding' = c[1] /\ exclude' = e[1] /\ wizard' = w[1]
       /\ board' = IF w[2] # None THEN w[2] ELSE IF e[2] # None THEN e[2]
                   ELSE IF c[2] # None THEN c[2] ELSE board
       /\ NoneApplied
       /\ UNCHANGED <<config, disturbed, others, opened>>

\* The web UI, another chat of the bot, an editor or an import has changed the files.
OthersSave ==
    /\ \/ /\ \E h \in Hosts, r \in Routes : clients' = clients \cup {<<h, r>>}
          /\ others' = others \cup {"clients"} /\ UNCHANGED <<exips, servers>>
       \/ exips' = <<>> /\ others' = others \cup {"exips"} /\ UNCHANGED <<clients, servers>>
       \/ servers' \in ServerLists /\ UNCHANGED <<clients, exips, others>>
    /\ UNCHANGED <<wizard, exclude, adding, board, disturbed, opened>>
    /\ NoneApplied

\* All sessions are in memory.
BotRestart ==
    /\ wizard' = None /\ exclude' = None /\ adding' = None
    /\ opened' = None
    /\ UNCHANGED <<config, board, disturbed, others>>
    /\ NoneApplied

DialoguesNext ==
    \/ Configure \/ ExcludeCommand \/ ClientsCommand
    \/ \E b \in Buttons : Press(b)
    \/ \E x \in Texts : Text(x)
    \/ OthersSave \/ BotRestart

DialoguesSpec == DialoguesInit /\ [][DialoguesNext]_dialogueVars

-----------------------------------------------------------------------------
(* Properties.                                                              *)

DialoguesTypeOK ==
    /\ wizard = None \/ wizard \in [step : WizardSteps, server : Indices,
                                    countries : SUBSET Countries, exips : Lists,
                                    clients : SeqOf(Hosts \X Routes, MaxClients),
                                    pending : Hosts \cup {None}]
    /\ exclude \in Lists \cup {None} /\ opened \in Lists \cup {None}
    /\ adding \in Addresses \cup {"", None}
    /\ clients \subseteq Addresses \X Routes
    /\ exips \in Lists /\ servers \in ServerLists
    /\ board \in Boards
    /\ disturbed \in BOOLEAN /\ others \subseteq {"clients", "exips"}
    /\ shown \in Summaries \cup {None} /\ applied \in Applications \cup {None}

\* A text is taken by one dialogue only: RouteMessage offers it to all three because
\* "only one will have active state" (bot/router.go:150).
Listening == {d \in {"wizard", "exclude", "clients"} :
                 CASE d = "wizard"  -> In("exclude_ips") \/ In("client_ip")
                   [] d = "exclude" -> exclude # None
                   [] OTHER         -> adding = ""}
OnlyOneActive == \A d, e \in Listening : d = e

\* That is so as long as the user presses no button of an older message.
OneUnlessOld == ~disturbed => OnlyOneActive

\* As long as /exclude works on its list, the addresses in the configuration are those
\* it has read, or they were changed from outside of this chat: no other dialogue of
\* the chat can save addresses that "done" then takes back.  What another chat or
\* program saves meanwhile is overwritten.
NothingTakenBack == exclude # None /\ exips # opened => "exips" \in others

\* Whatever old buttons were pressed before: if the wizard applies by the keyboard shown
\* last, there was a summary above it, and what is applied is what the summary said,
\* except that no countries means the default one, and that the excluded addresses are
\* not in it.  The server is the one it has named, or left as it was, unless the
\* list has changed since.
ConfirmedFirst ==
    applied # None /\ applied.board = "confirm" =>
        /\ applied.said # None
        /\ applied.clients = SavedClients(applied.said.clients)
        /\ applied.countries = SavedCountries(applied.said.countries)
        /\ applied.server \in {applied.said.server, None} \/ applied.list # applied.said.list

\* An address gets a second route through /clients only if the user has pressed an
\* old button, or it was given one from outside of this chat after it was typed.
AddsOnce ==
    [][\A h \in Addresses, r \in Routes :
          <<h, r>> \in clients' \ clients /\ adding = h /\ adding' = None
             => RoutesOf(h) = {} \/ disturbed \/ "clients" \in others]_dialogueVars
=============================================================================
