----------------------------- MODULE MCSampling -----------------------------
(***************************************************************************)
(* Runs of at most five turns of two Instants each, that may work or       *)
(* oversleep for as long again, with a clock that reads anything from 0 to *)
(* 2 of a last time of 5; a flush is due every four Instants and the       *)
(* grace ends within a run.                                                *)
(***************************************************************************)
EXTENDS Sampling

MCClock == 0 .. 2
=============================================================================
