----------------------------- MODULE BoundedLog -----------------------------
(***************************************************************************)
(* What a store of records promises, with no ring in sight: a sequence in  *)
(* strict time order that holds at most Capacity records, to which only a  *)
(* record newer than all of them is added, and from which only the oldest  *)
(* is ever discarded, and only to make room.  Store implements it.         *)
(***************************************************************************)
EXTENDS Naturals, Sequences

CONSTANTS
  Capacity, \* the most records held
  Stamps,   \* the timestamps records may have
  Rows      \* the rows of values records may have

VARIABLE log \* the records held, oldest first

Record == [t : Stamps, row : Rows]

(* The documented rule of Store::push: later than the newest record.       *)
InOrder(s, r) == s # << >> => s[Len(s)].t < r.t

(* s with r as its newest record, the oldest discarded if s was full.      *)
Added(s, r) == IF Len(s) < Capacity THEN Append(s, r) ELSE Append(Tail(s), r)

Init == log = << >>

Add(r) == InOrder(log, r) /\ log' = Added(log, r)

Next == \E r \in Record : Add(r)

Spec == Init /\ [][Next]_log
=============================================================================
