----------------------------- MODULE MCJournal -----------------------------
(***************************************************************************)
(* A journal of a store of one to three records, whose flush interval is   *)
(* covered by one or two samples, over at most MaxSamples samples in all   *)
(* its runs.                                                               *)
(***************************************************************************)
EXTENDS Journal, TLC

CONSTANTS cpu, net

Symmetric == Permutations({cpu, net})
=============================================================================
