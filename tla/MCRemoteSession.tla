-------------------------- MODULE MCRemoteSession --------------------------
(* RemoteSession for TLC: the constants are given in the configurations.   *)
EXTENDS RemoteSession, TLC
=============================================================================
