------------------------- MODULE MCCollaborationOAuth ------------------------
(* CollaborationOAuth for TLC: the constants are given in the configuration. *)
EXTENDS CollaborationOAuth, TLC
=============================================================================
