--------------------------- MODULE MCConnections ---------------------------
(* An instance of Connections for TLC; its constants are in the cfg.       *)
EXTENDS Connections
=============================================================================
