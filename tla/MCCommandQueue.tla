--------------------------- MODULE MCCommandQueue ---------------------------
(* CommandQueue for TLC: the constants are given in the configuration.     *)
EXTENDS CommandQueue, TLC
=============================================================================
