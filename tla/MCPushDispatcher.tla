-------------------------- MODULE MCPushDispatcher ---------------------------
(* PushDispatcher for TLC: the constants are given in the configuration.    *)
EXTENDS PushDispatcher, TLC
=============================================================================
