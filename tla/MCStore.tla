------------------------------ MODULE MCStore ------------------------------
(***************************************************************************)
(* A store of three slots, whose ring wraps twice at times 2 to 7, offered *)
(* rows shorter and longer than its width, and every read of it. Values    *)
(* are of both signs, and one is not finite. Ranges reach past the data at *)
(* both ends, and three buckets are one too few for the whole of it at the *)
(* finest step.                                                            *)
(***************************************************************************)
EXTENDS StoreQueries

CONSTANTS none, nan

MCValues == {-1, 2, nan}
MCNotFinite == {nan}
MCStamps == 2 .. 7
MCOffered == {<<v>> : v \in MCValues} \cup {<< >>, <<2, nan>>}
=============================================================================
