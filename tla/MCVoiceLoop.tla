----------------------------- MODULE MCVoiceLoop ------------------------------
(* Two session numbers, one MCP reconnect. *)
EXTENDS VoiceLoop
===============================================================================
