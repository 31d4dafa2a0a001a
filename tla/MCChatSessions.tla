-------------------------- MODULE MCChatSessions --------------------------
(* ChatSessions for TLC: the requests of an instance are in its cfg. *)
EXTENDS ChatSessions
=============================================================================
