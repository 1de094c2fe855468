--------------------------- MODULE MCBotDialogues ---------------------------
(* One address for a client, one that can only be excluded, two routes.     *)
EXTENDS BotDialogues

CONSTANTS host, ext, bad, ru, xray, ovpnc1, de, nl

MCHosts     == {host}
MCForeign   == {ext}
MCRoutes    == {xray, ovpnc1}
MCTunnels   == {ovpnc1}
MCCountries == {ru}
MCServers   == {<<de>>, <<nl, de>>}
=============================================================================
