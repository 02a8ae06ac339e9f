-------------------------- MODULE MCHostCredentials --------------------------
(* HostCredentials for TLC: the constants are given in the configuration.   *)
EXTENDS HostCredentials, TLC
=============================================================================
