--------------------------- MODULE MCRemoteBridge ---------------------------
(* RemoteBridge for TLC: the keys are given in the configurations.         *)
EXTENDS RemoteBridge, TLC
=============================================================================
