--------------------------- MODULE MCRemoteEngine ---------------------------
(* RemoteEngine for TLC: callers, keys and times come from the             *)
(* configuration.                                                          *)
EXTENDS RemoteEngine
=============================================================================
