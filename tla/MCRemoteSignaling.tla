------------------------- MODULE MCRemoteSignaling --------------------------
(* RemoteSignaling for TLC: the phone's connections come from different    *)
(* addresses, one of which the host shares.                                *)
EXTENDS RemoteSignaling, TLC

CONSTANTS p1, p2, h1, a1, a2

MCAddrOf == [c \in Conns |-> IF c = p1 THEN a1 ELSE a2]
=============================================================================
