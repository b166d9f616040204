------------------------------- MODULE Store -------------------------------
(***************************************************************************)
(* The fixed-capacity record store of store.rs: a ring of timestamps and a *)
(* ring of rows of values, written at `len` until it is full and over the  *)
(* oldest record from then on.  A row of the flat `values` array is one    *)
(* element here; timestamps and rows stay separate, as two arrays that the *)
(* code updates one after the other.                                       *)
(***************************************************************************)
EXTENDS Naturals, Sequences

CONSTANTS
  Capacity, \* NonZeroUsize: how many records the ring has room for
  Width,    \* how many values every record has
  Values,   \* what a value may be
  Fill,     \* what the ring is filled with before anything is written: a NaN,
            \* told apart here from the NaNs a caller may push
  MaxTime,  \* u64::MAX
  Stamps,   \* the timestamps that callers push
  Offered   \* the rows that callers push, of the right width or not

ASSUME CapacityAssumption == Capacity \in Nat \ {0}
ASSUME MaxTimeAssumption == MaxTime \in Nat
ASSUME StampsAssumption == Stamps \subseteq 0 .. MaxTime
ASSUME OfferedAssumption == Offered \subseteq Seq(Values)
ASSUME FillAssumption == Fill \notin Values

VARIABLES
  timestamps, \* slot -> timestamp
  rows,       \* slot -> row of Width values
  head,       \* the slot of the oldest record
  len,        \* how many records are held
  result      \* what the last push returned

vars == <<timestamps, rows, head, len, result>>
store == <<timestamps, rows, head, len>>

Slots == 0 .. Capacity - 1

Blank == [i \in 1 .. Width |-> Fill]

Fitting == {row \in Offered : Len(row) = Width}

(* The slot holding the i-th oldest record (0 is the oldest).              *)
Slot(i) == (head + i) % Capacity

Latest == timestamps[Slot(len - 1)]

(* Every record held, oldest first.                                        *)
Records ==
  [i \in 1 .. len |-> [t |-> timestamps[Slot(i - 1)], row |-> rows[Slot(i - 1)]]]

-----------------------------------------------------------------------------
Init ==
  /\ timestamps = [s \in Slots |-> MaxTime]
  /\ rows = [s \in Slots |-> Blank]
  /\ head = 0
  /\ len = 0
  /\ result = "ok"

Refuse(error) == result' = error /\ UNCHANGED store

Write(slot, t, row) ==
  /\ timestamps' = [timestamps EXCEPT ![slot] = t]
  /\ rows' = [rows EXCEPT ![slot] = row]
  /\ result' = "ok"

TooEarly(t) == len > 0 /\ t <= Latest

(* Mutant: the width is noticed when the timestamp has been written.       *)
PushWrongWidthLate(t, row) ==
  /\ Len(row) # Width /\ ~TooEarly(t)
  /\ len < Capacity
  /\ len' = len + 1
  /\ timestamps' = [timestamps EXCEPT ![Slot(len)] = t]
  /\ result' = "WrongWidth"
  /\ UNCHANGED <<rows, head>>

(* Store::push for a row that is not Width values long.                    *)
PushWrongWidth(t, row) == Len(row) # Width /\ Refuse("WrongWidth")

(* Store::push for a timestamp that is not later than the newest record's. *)
PushOutOfOrder(t, row) ==
  Len(row) = Width /\ TooEarly(t) /\ Refuse("OutOfOrder")

(* Store::push while there is room: the slot after the newest record.      *)
PushIntoRoom(t, row) ==
  /\ Len(row) = Width /\ ~TooEarly(t)
  /\ len < Capacity
  /\ len' = len + 1
  /\ head' = head
  /\ Write(Slot(len), t, row)

(* Mutant: the ring is taken for full one record too soon.                 *)
PushOverOldestSoon(t, row) ==
  /\ Len(row) = Width /\ ~TooEarly(t)
  /\ len + 1 >= Capacity
  /\ len' = len
  /\ head' = (head + 1) % Capacity
  /\ Write(head, t, row)

(* Mutant: `head` is advanced before the slot is worked out.               *)
PushOverSecond(t, row) ==
  /\ Len(row) = Width /\ ~TooEarly(t)
  /\ len >= Capacity
  /\ len' = len
  /\ head' = (head + 1) % Capacity
  /\ Write((head + 1) % Capacity, t, row)

(* Store::push when full: the oldest record's slot becomes the newest.     *)
PushOverOldest(t, row) ==
  /\ Len(row) = Width /\ ~TooEarly(t)
  /\ len >= Capacity
  /\ len' = len
  /\ head' = (head + 1) % Capacity
  /\ Write(head, t, row)

Push(t, row) ==
  \/ PushWrongWidth(t, row)
  \/ PushOutOfOrder(t, row)
  \/ PushIntoRoom(t, row)
  \/ PushOverOldest(t, row)

Next == \E t \in Stamps, row \in Offered : Push(t, row)

Spec == Init /\ [][Next]_vars

-----------------------------------------------------------------------------
(* Timestamps are u64s, a row has one value per metric, and head and len   *)
(* stay inside the ring.                                                   *)
TypeOK ==
  /\ timestamps \in [Slots -> 0 .. MaxTime]
  /\ rows \in [Slots -> Fitting \union {Blank}]
  /\ head \in Slots
  /\ len \in 0 .. Capacity
  /\ result \in {"ok", "WrongWidth", "OutOfOrder"}

(* The records are in strict time order, around the end of the ring too:   *)
(* what push's check of the newest record alone is relied on for, and what *)
(* the binary search of `partition` needs.                                 *)
InTimeOrder ==
  \A i, j \in 1 .. len : i < j => Records[i].t < Records[j].t

(* "NaN and MAX are never read before a record is written over them": no   *)
(* slot that holds a record still has its initial row, or a timestamp that *)
(* nobody pushed.                                                          *)
HeldAreWritten ==
  \A i \in 1 .. len : Records[i].t \in Stamps /\ Records[i].row \in Fitting

(* Until the ring is full nothing has been discarded, so it starts at 0.   *)
UnwrappedUntilFull == len < Capacity => head = 0

(* The inductive invariant: the two above, which are not inductive alone,  *)
(* since a ring that had wrapped early would grow over records it holds.   *)
RingInv == TypeOK /\ InTimeOrder /\ HeldAreWritten /\ UnwrappedUntilFull

(* The records are what the abstract bounded log holds.                    *)
Log == INSTANCE BoundedLog WITH Rows <- Fitting, log <- Records

(* The ring implements the bounded log: a push that is accepted adds its   *)
(* record after all others and discards at most the oldest, and one that   *)
(* is refused changes nothing.                                             *)
ImplementsBoundedLog == Log!Spec

(* A push returns Ok exactly when the records held changed: the sampler     *)
(* relies on it to journal the records the store took and no others.       *)
OkMeansAdded == [][result' = "ok" <=> Records' # Records]_vars
=============================================================================
