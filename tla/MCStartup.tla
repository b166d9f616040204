------------------------------ MODULE MCStartup ------------------------------
(***************************************************************************)
(* Two copies of the daemon and up to two records, with the socket path    *)
(* free, stale, or not a socket at first.  Each copy may be killed and     *)
(* started again any number of times.                                      *)
(***************************************************************************)
EXTENDS Startup

CONSTANTS first, second
=============================================================================
