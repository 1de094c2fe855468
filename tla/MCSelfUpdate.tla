---------------------------- MODULE MCSelfUpdate ----------------------------
(* A script and the bot, and a file the updater does not know.              *)
EXTENDS SelfUpdate

CONSTANTS common, binary, webui

MCFiles   == <<common, binary>>
MCLeftOut == {webui}
=============================================================================
