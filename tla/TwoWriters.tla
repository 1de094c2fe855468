------------------------------ MODULE TwoWriters ------------------------------
(* What vpn-director.json is to the web UI and to the bot: a file each of    *)
(* them loads, changes and saves, one operation at a time, without knowing   *)
(* of the other.  An abstract specification; ConfigStore implements it.      *)
CONSTANTS Configs, WebOps, BotOps, Empty, Mixed, None,
          Results(_, _)  \* what operations of a set can make of a configuration
VARIABLES value,  \* the file
          web,    \* the copy the web UI has loaded, None between operations
          bot     \* the copy of the bot

Init == value \in Configs /\ web = None /\ bot = None

Loads(mine) == mine = None /\ value \in Configs /\ mine' = value /\ UNCHANGED value
Drops(mine) == mine # None /\ mine' = None /\ UNCHANGED value

\* The file loses its contents, then gets those of the copy, changed by one
\* operation, or a mixture of two.
Truncates(mine) == mine # None /\ value' = Empty /\ UNCHANGED mine
Saves(mine, ops) ==
    /\ mine # None /\ mine' = None
    /\ \/ value' \in Results(mine, ops)
       \/ value # Empty /\ value' = Mixed

Client(mine, ops) == Loads(mine) \/ Drops(mine) \/ Truncates(mine) \/ Saves(mine, ops)

Next == \/ Client(web, WebOps) /\ UNCHANGED bot
        \/ Client(bot, BotOps) /\ UNCHANGED web

Spec == Init /\ [][Next]_<<value, web, bot>>
=============================================================================
