---------------------------- MODULE MCSessionHub ----------------------------
(* SessionHub for TLC: one relay per project.  The projects with their     *)
(* relays, the connections of relays and the messages are interchangeable. *)
EXTENDS SessionHub, TLC

MCRelayProject == [r \in Relays |-> r]

HubSymmetry == Permutations(RelayConns) \cup Permutations(Msgs) \cup Permutations(Projects)
=============================================================================
