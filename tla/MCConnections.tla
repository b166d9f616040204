--------------------------- MODULE MCConnections ---------------------------
(***************************************************************************)
(* Three clients of a daemon that serves two at once.                      *)
(***************************************************************************)
EXTENDS Connections

CONSTANTS c1, c2, c3
=============================================================================
