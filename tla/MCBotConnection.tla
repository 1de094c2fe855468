--------------------------- MODULE MCBotConnection ---------------------------
(* Instance of BotConnection: a user and a stranger. *)
EXTENDS BotConnection
=============================================================================
