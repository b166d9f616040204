------------------------- MODULE StoreQueriesProofs -------------------------
(***************************************************************************)
(* Proofs about Store.tla and StoreQueries.tla.                            *)
(*                                                                         *)
(* First the ring, for every capacity, every width and every set of        *)
(* timestamps and values: the inductive invariant RingInv, and that the    *)
(* ring implements BoundedLog.                                             *)
(*                                                                         *)
(* Then the reads, for every ring that RingInv allows: that a range read   *)
(* gives the records of the range, a downsampled one the totals of its     *)
(* buckets, and one with max_points few enough.                            *)
(*                                                                         *)
(* The search, the pass and the choice of a width are recursive functions. *)
(* What each computes is proved in two parts, as CHOOSE asks for: a        *)
(* function that satisfies the equation exists (by Recursion, by climbing  *)
(* to a stop, or because the answer itself satisfies it), and every one    *)
(* that does has the value, by induction over sets of numbers.             *)
(***************************************************************************)
EXTENDS StoreQueries, SequenceTheorems, FiniteSetTheorems, TLAPS

-----------------------------------------------------------------------------
(* Slots of a ring.                                                        *)

(* A sum of two offsets below the size of a ring wraps at most once.       *)
LEMMA WrapsOnce ==
  ASSUME NEW n \in Nat \ {0}, NEW x \in 0 .. 2 * n - 1
  PROVE  x % n = IF x < n THEN x ELSE x - n
  OBVIOUS

(* Every logical index has a slot.                                         *)
LEMMA SlotInRing ==
  ASSUME NEW h \in Slots, NEW i \in 0 .. Capacity
  PROVE  (h + i) % Capacity \in Slots
  BY CapacityAssumption DEF Slots

(* The slot of a logical index, without the modulus.                       *)
LEMMA SlotIs ==
  ASSUME NEW h \in Slots, NEW i \in 0 .. Capacity - 1
  PROVE  (h + i) % Capacity = IF h + i < Capacity THEN h + i ELSE h + i - Capacity
  BY CapacityAssumption DEF Slots

(* Two logical indices of a ring share a slot only if they are the same.   *)
LEMMA SlotsDiffer ==
  ASSUME NEW h \in Slots, NEW i \in 0 .. Capacity - 1,
         NEW j \in 0 .. Capacity - 1, i # j
  PROVE  (h + i) % Capacity # (h + j) % Capacity
  <1>1. (h + i) % Capacity = IF h + i < Capacity THEN h + i ELSE h + i - Capacity
    BY SlotIs
  <1>2. (h + j) % Capacity = IF h + j < Capacity THEN h + j ELSE h + j - Capacity
    BY SlotIs
  <1>3. QED
    BY <1>1, <1>2, CapacityAssumption DEF Slots

(* Advancing the head by one shifts every logical index down by one.       *)
LEMMA HeadShifts ==
  ASSUME NEW h \in Slots, NEW i \in 0 .. Capacity - 1
  PROVE  (((h + 1) % Capacity) + i) % Capacity = (h + i + 1) % Capacity
  <1>1. (h + 1) % Capacity = IF h + 1 < Capacity THEN h + 1 ELSE h + 1 - Capacity
    BY WrapsOnce, CapacityAssumption DEF Slots
  <1>2. CASE h + 1 < Capacity
    BY <1>1, <1>2, CapacityAssumption DEF Slots
  <1>3. CASE h + 1 >= Capacity
    <2>1. h + 1 = Capacity /\ (h + 1) % Capacity = 0
      BY <1>1, <1>3, CapacityAssumption DEF Slots
    <2>2. i % Capacity = i
      BY WrapsOnce, CapacityAssumption
    <2>3. (Capacity + i) % Capacity = i
      BY WrapsOnce, CapacityAssumption
    <2>4. QED
      BY <2>1, <2>2, <2>3, CapacityAssumption DEF Slots
  <1>4. QED
    BY <1>2, <1>3, CapacityAssumption DEF Slots

-----------------------------------------------------------------------------
(* What a push does to the records.                                        *)

NewRecord(t, row) == [t |-> t, row |-> row]

(* The records form a sequence of the documented length.                   *)
LEMMA RecordsSeq ==
  ASSUME TypeOK, HeldAreWritten
  PROVE  Records \in Seq(Log!Record) /\ Len(Records) = len
  <1>1. len \in Nat
    BY CapacityAssumption DEF TypeOK
  <1>2. \A i \in 1 .. len : Records[i] \in Log!Record
    BY DEF HeldAreWritten, Records, Log!Record
  <1>3. Records \in [1 .. len -> Log!Record]
    BY <1>2 DEF Records
  <1>4. QED
    BY <1>1, <1>3

(* The refusal test of push, told of the records.                          *)
LEMMA LatestIsLast ==
  ASSUME TypeOK, HeldAreWritten, len > 0
  PROVE  Records[Len(Records)].t = Latest
  BY RecordsSeq DEF TypeOK, Records, Latest

(* A push into room leaves every record where it is and adds one.          *)
LEMMA RoomAppends ==
  ASSUME TypeOK, HeldAreWritten, NEW t \in Stamps, NEW row \in Offered,
         PushIntoRoom(t, row)
  PROVE  Records' = Append(Records, NewRecord(t, row))
  <1> DEFINE new == Slot(len)
  <1>1. /\ len \in 0 .. Capacity - 1 /\ len' = len + 1
        /\ head \in Slots /\ head' = head
    BY CapacityAssumption DEF TypeOK, PushIntoRoom
  <1>2. new \in Slots
    <2>1. len \in 0 .. Capacity
      BY <1>1, CapacityAssumption
    <2>2. QED
      BY <1>1, <2>1, SlotInRing DEF Slot
  <1>3. /\ timestamps'[new] = t /\ rows'[new] = row
        /\ \A s \in Slots \ {new} :
              timestamps'[s] = timestamps[s] /\ rows'[s] = rows[s]
    BY <1>2 DEF TypeOK, PushIntoRoom, Write
  <1>4. \A i \in 0 .. len - 1 : Slot(i) \in Slots \ {new} /\ Slot(i)' = Slot(i)
    <2> TAKE i \in 0 .. len - 1
    <2>1. i \in 0 .. Capacity - 1 /\ i # len /\ i \in 0 .. Capacity
      BY <1>1, CapacityAssumption
    <2>2. QED
      BY <1>1, <2>1, SlotInRing, SlotsDiffer DEF Slot
  <1>5. \A i \in 1 .. len : Records'[i] = Records[i]
    BY <1>1, <1>3, <1>4, CapacityAssumption DEF Records
  <1>6. Records'[len + 1] = NewRecord(t, row)
    BY <1>1, <1>3, CapacityAssumption DEF Records, NewRecord, Slot
  <1>7. NewRecord(t, row) \in Log!Record
    BY DEF NewRecord, Log!Record, Fitting, PushIntoRoom
  <1>8. Records' \in Seq(Log!Record) /\ Len(Records') = len + 1
    <2>1. Records' \in [1 .. len + 1 -> Log!Record]
      <3>1. \A i \in 1 .. len + 1 : Records'[i] \in Log!Record
        BY <1>1, <1>5, <1>6, <1>7, RecordsSeq, ElementOfSeq
      <3>2. QED
        BY <1>1, <3>1 DEF Records
    <2>2. QED
      BY <1>1, <2>1
  <1>9. QED
    BY <1>1, <1>5, <1>6, <1>7, <1>8, RecordsSeq, AppendProperties, SeqEqual

(* A push into a full ring drops the oldest record and adds one.           *)
LEMMA FullReplacesOldest ==
  ASSUME TypeOK, HeldAreWritten, NEW t \in Stamps, NEW row \in Offered,
         PushOverOldest(t, row)
  PROVE  Len(Records) = Capacity /\ Records' = Append(Tail(Records), NewRecord(t, row))
  <1>1. /\ len = Capacity /\ len' = Capacity /\ Capacity \in Nat \ {0}
        /\ head \in Slots /\ head' = (head + 1) % Capacity
    BY CapacityAssumption DEF TypeOK, PushOverOldest
  <1>2. /\ timestamps'[head] = t /\ rows'[head] = row
        /\ \A s \in Slots \ {head} :
              timestamps'[s] = timestamps[s] /\ rows'[s] = rows[s]
    BY DEF TypeOK, PushOverOldest, Write
  <1>3. \A i \in 0 .. Capacity - 1 : Slot(i)' = (head + i + 1) % Capacity
    BY <1>1, HeadShifts DEF Slot
  <1>4. Slot(0) = head /\ Slot(Capacity - 1)' = head
    <2>1. 0 \in 0 .. Capacity - 1 /\ Capacity - 1 \in 0 .. Capacity - 1
      BY <1>1
    <2>2. Slot(Capacity - 1)' = (head + Capacity) % Capacity
      BY <1>1, <1>3, <2>1 DEF Slots
    <2>3. (head + Capacity) % Capacity = head /\ head % Capacity = head
      BY <1>1, WrapsOnce DEF Slots
    <2>4. QED
      BY <1>1, <2>2, <2>3 DEF Slot, Slots
  <1>5. \A i \in 0 .. Capacity - 2 : Slot(i)' = Slot(i + 1) /\ Slot(i)' \in Slots \ {head}
    <2> TAKE i \in 0 .. Capacity - 2
    <2>1. /\ i \in 0 .. Capacity - 1 /\ i + 1 \in 0 .. Capacity - 1 /\ 0 \in 0 .. Capacity - 1
          /\ i + 1 \in 0 .. Capacity /\ i + 1 # 0
      BY <1>1
    <2>2. Slot(i)' = Slot(i + 1)
      <3>1. head + i + 1 = head + (i + 1)
        BY <1>1, <2>1 DEF Slots
      <3>2. Slot(i)' = (head + i + 1) % Capacity
        BY <1>3, <2>1
      <3>3. QED
        BY <3>1, <3>2 DEF Slot
    <2>3. Slot(i + 1) \in Slots /\ Slot(i + 1) # Slot(0)
      BY <1>1, <2>1, SlotInRing, SlotsDiffer DEF Slot
    <2>4. QED
      BY <1>4, <2>2, <2>3
  <1>6. \A i \in 1 .. Capacity - 1 : Records'[i] = Records[i + 1]
    BY <1>1, <1>2, <1>5 DEF Records
  <1>7. Records'[Capacity] = NewRecord(t, row)
    BY <1>1, <1>2, <1>4 DEF Records, NewRecord
  <1>8. NewRecord(t, row) \in Log!Record
    BY DEF NewRecord, Log!Record, Fitting, PushOverOldest
  <1>9. Records \in Seq(Log!Record) /\ Len(Records) = Capacity /\ Records # << >>
    BY <1>1, RecordsSeq, EmptySeq
  <1>10. /\ Tail(Records) \in Seq(Log!Record) /\ Len(Tail(Records)) = Capacity - 1
         /\ \A i \in 1 .. Capacity - 1 : Tail(Records)[i] = Records[i + 1]
    BY <1>1, <1>9, HeadTailProperties
  <1>11. Records' \in Seq(Log!Record) /\ Len(Records') = Capacity
    <2>1. Records' \in [1 .. Capacity -> Log!Record]
      <3>1. \A i \in 1 .. Capacity : Records'[i] \in Log!Record
        BY <1>1, <1>6, <1>7, <1>8, <1>9, ElementOfSeq
      <3>2. QED
        BY <1>1, <3>1 DEF Records
    <2>2. QED
      BY <1>1, <2>1
  <1>12. QED
    BY <1>1, <1>6, <1>7, <1>8, <1>9, <1>10, <1>11, AppendProperties, SeqEqual

-----------------------------------------------------------------------------
(* The inductive invariant.                                                *)

(* A push is refused exactly when it would break the order of the log.     *)
LEMMA AcceptedInOrder ==
  ASSUME TypeOK, HeldAreWritten, NEW t \in Stamps, NEW row \in Offered, ~TooEarly(t)
  PROVE  Log!InOrder(Records, NewRecord(t, row))
  <1>1. CASE len = 0
    <2>1. Records = << >>
      BY <1>1, RecordsSeq, EmptySeq
    <2>2. QED
      BY <2>1 DEF Log!InOrder
  <1>2. CASE len > 0
    <2>1. Records[Len(Records)].t = Latest
      BY <1>2, LatestIsLast
    <2>2. Latest \in Nat /\ t \in Nat
      <3>1. len \in 1 .. len
        BY <1>2, CapacityAssumption DEF TypeOK
      <3>2. Records[len].t \in Stamps
        BY <3>1 DEF HeldAreWritten
      <3>3. Latest \in Stamps
        <4>1. Len(Records) = len
          BY RecordsSeq
        <4>2. QED
          BY <2>1, <3>2, <4>1
      <3>4. Stamps \subseteq Nat
        BY StampsAssumption, MaxTimeAssumption
      <3>5. QED
        BY <3>3, <3>4
    <2>3. QED
      BY <1>2, <2>1, <2>2 DEF TooEarly, Log!InOrder, NewRecord
  <1>3. QED
    BY <1>1, <1>2, CapacityAssumption DEF TypeOK

(* A sequence of records in strict time order.                             *)
Ordered(s) == \A i, j \in 1 .. Len(s) : i < j => s[i].t < s[j].t

(* Adding a record in order to an ordered bounded log leaves it ordered.   *)
LEMMA AddedOrdered ==
  ASSUME NEW s \in Seq(Log!Record), NEW r \in Log!Record,
         Ordered(s), Log!InOrder(s, r), s # << >>
  PROVE  Ordered(Append(s, r)) /\ Ordered(Append(Tail(s), r))
  <1>1. /\ \A i \in 1 .. Len(s) : s[i] \in Log!Record /\ s[i].t \in Nat
        /\ r.t \in Nat /\ Len(s) \in Nat \ {0}
    <2>1. Stamps \subseteq Nat
      BY StampsAssumption, MaxTimeAssumption
    <2>2. \A i \in 1 .. Len(s) : s[i] \in Log!Record
      BY ElementOfSeq
    <2>3. Len(s) \in Nat \ {0}
      BY LenProperties, EmptySeq
    <2>4. QED
      BY <2>1, <2>2, <2>3 DEF Log!Record
  <1>2. \A i \in 1 .. Len(s) : s[i].t < r.t
    BY <1>1 DEF Ordered, Log!InOrder
  <1>3. /\ Append(s, r) \in Seq(Log!Record) /\ Len(Append(s, r)) = Len(s) + 1
        /\ \A i \in 1 .. Len(s) : Append(s, r)[i] = s[i]
        /\ Append(s, r)[Len(s) + 1] = r
    BY AppendProperties
  <1>4. /\ Tail(s) \in Seq(Log!Record) /\ Len(Tail(s)) = Len(s) - 1
        /\ \A i \in 1 .. Len(s) - 1 : Tail(s)[i] = s[i + 1]
    BY HeadTailProperties
  <1>5. /\ Len(Append(Tail(s), r)) = Len(s)
        /\ \A i \in 1 .. Len(s) - 1 : Append(Tail(s), r)[i] = s[i + 1]
        /\ Append(Tail(s), r)[Len(s)] = r
    BY <1>1, <1>4, AppendProperties
  <1>6. Ordered(Append(s, r))
    BY <1>1, <1>2, <1>3 DEF Ordered
  <1>7. Ordered(Append(Tail(s), r))
    <2> SUFFICES ASSUME NEW i \in 1 .. Len(s), NEW j \in 1 .. Len(s), i < j
                 PROVE  Append(Tail(s), r)[i].t < Append(Tail(s), r)[j].t
      BY <1>5 DEF Ordered
    <2>1. i \in 1 .. Len(s) - 1 /\ i + 1 \in 1 .. Len(s)
      BY <1>1
    <2>2. CASE j = Len(s)
      BY <1>2, <1>5, <2>1, <2>2
    <2>3. CASE j # Len(s)
      <3>1. j \in 1 .. Len(s) - 1 /\ j + 1 \in 1 .. Len(s) /\ i + 1 < j + 1
        BY <1>1, <2>3
      <3>2. s[i + 1].t < s[j + 1].t
        BY <2>1, <3>1 DEF Ordered
      <3>3. QED
        BY <1>5, <2>1, <3>1, <3>2
    <2>4. QED
      BY <2>2, <2>3
  <1>8. QED
    BY <1>6, <1>7

(* Both ways of accepting a record do what the abstract log does.          *)
LEMMA AcceptedIsAdded ==
  ASSUME TypeOK, HeldAreWritten, NEW t \in Stamps, NEW row \in Offered,
         PushIntoRoom(t, row) \/ PushOverOldest(t, row)
  PROVE  /\ NewRecord(t, row) \in Log!Record
         /\ Log!InOrder(Records, NewRecord(t, row))
         /\ Records' = Log!Added(Records, NewRecord(t, row))
  <1>1. NewRecord(t, row) \in Log!Record
    BY DEF NewRecord, Log!Record, Fitting, PushIntoRoom, PushOverOldest
  <1>2. Log!InOrder(Records, NewRecord(t, row))
    BY AcceptedInOrder DEF PushIntoRoom, PushOverOldest
  <1>3. CASE PushIntoRoom(t, row)
    BY <1>1, <1>2, <1>3, RoomAppends, RecordsSeq DEF Log!Added, PushIntoRoom
  <1>4. CASE PushOverOldest(t, row)
    <2>1. Len(Records) = Capacity /\ Records' = Append(Tail(Records), NewRecord(t, row))
      BY <1>4, FullReplacesOldest
    <2>2. QED
      BY <1>1, <1>2, <2>1, CapacityAssumption DEF Log!Added
  <1>5. QED
    BY <1>1, <1>2, <1>3, <1>4

(* A refused push leaves the store as it was.                              *)
LEMMA RefusedUnchanged ==
  ASSUME NEW t \in Stamps, NEW row \in Offered,
         PushWrongWidth(t, row) \/ PushOutOfOrder(t, row)
  PROVE  UNCHANGED store /\ result' \in {"WrongWidth", "OutOfOrder"}
  BY DEF PushWrongWidth, PushOutOfOrder, Refuse

(* The records are determined by the store.                                *)
LEMMA SameStoreSameRecords ==
  ASSUME UNCHANGED store
  PROVE  Records' = Records
  BY DEF store, Records, Slot

LEMMA InitInv == ASSUME Init PROVE RingInv
  <1>1. Capacity \in Nat \ {0} /\ 0 \in Slots /\ MaxTime \in 0 .. MaxTime
    BY CapacityAssumption, MaxTimeAssumption DEF Slots
  <1>2. QED
    BY <1>1 DEF Init, RingInv, TypeOK, InTimeOrder, HeldAreWritten, UnwrappedUntilFull

(* Every way a push can go keeps the types.                                *)
LEMMA PushType ==
  ASSUME TypeOK, NEW t \in Stamps, NEW row \in Offered, Push(t, row)
  PROVE  TypeOK'
  <1>1. t \in 0 .. MaxTime /\ Capacity \in Nat \ {0}
    BY CapacityAssumption, StampsAssumption
  <1>2. CASE PushWrongWidth(t, row) \/ PushOutOfOrder(t, row)
    BY <1>2, RefusedUnchanged DEF TypeOK, store
  <1>3. CASE PushIntoRoom(t, row)
    <2>1. row \in Fitting /\ len + 1 \in 0 .. Capacity
      BY <1>1, <1>3 DEF PushIntoRoom, Fitting, TypeOK
    <2>2. QED
      BY <1>1, <1>3, <2>1 DEF PushIntoRoom, Write, TypeOK
  <1>4. CASE PushOverOldest(t, row)
    <2>1. row \in Fitting
      BY <1>4 DEF PushOverOldest, Fitting
    <2>2. (head + 1) % Capacity \in Slots
      BY <1>1, SlotInRing DEF TypeOK
    <2>3. QED
      BY <1>1, <1>4, <2>1, <2>2 DEF PushOverOldest, Write, TypeOK
  <1>5. QED
    BY <1>2, <1>3, <1>4 DEF Push

(* InTimeOrder and HeldAreWritten, told of the records alone.              *)
LEMMA InvOfRecords ==
  TypeOK /\ Records \in Seq(Log!Record) /\ Ordered(Records)
    => InTimeOrder /\ HeldAreWritten
  <1> SUFFICES ASSUME TypeOK, Records \in Seq(Log!Record), Ordered(Records)
               PROVE  InTimeOrder /\ HeldAreWritten
    OBVIOUS
  <1>1. Len(Records) = len
    BY CapacityAssumption DEF TypeOK, Records
  <1>2. \A i \in 1 .. len : Records[i] \in Log!Record
    BY <1>1, ElementOfSeq
  <1>3. QED
    BY <1>1, <1>2 DEF Ordered, InTimeOrder, HeldAreWritten, Log!Record

(* An accepted push keeps the records a sequence in time order.            *)
LEMMA AcceptedOrdered ==
  ASSUME RingInv, NEW t \in Stamps, NEW row \in Offered,
         PushIntoRoom(t, row) \/ PushOverOldest(t, row)
  PROVE  Records' \in Seq(Log!Record) /\ Ordered(Records')
  <1> DEFINE r == NewRecord(t, row)
  <1>1. /\ r \in Log!Record /\ Log!InOrder(Records, r)
        /\ Records' = Log!Added(Records, r)
    BY AcceptedIsAdded DEF RingInv
  <1>2. Records \in Seq(Log!Record) /\ Len(Records) = len /\ Ordered(Records)
    BY RecordsSeq DEF RingInv, InTimeOrder, Ordered
  <1> HIDE DEF r
  <1>3. CASE Records = << >>
    <2>1. Len(Records) = 0 /\ Records' = <<r>>
      BY <1>1, <1>3, CapacityAssumption DEF Log!Added
    <2>2. QED
      BY <1>1, <2>1 DEF Ordered
  <1>4. CASE Records # << >>
    <2>1. Ordered(Append(Records, r)) /\ Ordered(Append(Tail(Records), r))
      BY <1>1, <1>2, <1>4, AddedOrdered
    <2>2. /\ Append(Records, r) \in Seq(Log!Record)
          /\ Append(Tail(Records), r) \in Seq(Log!Record)
      BY <1>1, <1>2, <1>4, HeadTailProperties, AppendProperties
    <2>3. QED
      BY <1>1, <2>1, <2>2 DEF Log!Added
  <1>5. QED
    BY <1>3, <1>4

(* Every push keeps the inductive invariant.                               *)
LEMMA PushInv ==
  ASSUME RingInv, NEW t \in Stamps, NEW row \in Offered, Push(t, row)
  PROVE  RingInv'
  <1>1. TypeOK'
    BY PushType DEF RingInv
  <1>2. CASE PushWrongWidth(t, row) \/ PushOutOfOrder(t, row)
    <2>1. UNCHANGED store /\ Records' = Records
      BY <1>2, RefusedUnchanged, SameStoreSameRecords
    <2>2. QED
      BY <1>1, <2>1 DEF RingInv, InTimeOrder, HeldAreWritten, UnwrappedUntilFull, store
  <1>3. CASE PushIntoRoom(t, row) \/ PushOverOldest(t, row)
    <2>1. (InTimeOrder /\ HeldAreWritten)'
      <3>1. (TypeOK /\ Records \in Seq(Log!Record) /\ Ordered(Records)
               => InTimeOrder /\ HeldAreWritten)'
        BY InvOfRecords, PTL
      <3>2. Records' \in Seq(Log!Record) /\ Ordered(Records')
        BY <1>3, AcceptedOrdered
      <3>3. QED
        BY <1>1, <3>1, <3>2
    <2>2. UnwrappedUntilFull'
      BY <1>3, CapacityAssumption
      DEF RingInv, TypeOK, UnwrappedUntilFull, PushIntoRoom, PushOverOldest
    <2>3. QED
      BY <1>1, <2>1, <2>2 DEF RingInv
  <1>4. QED
    BY <1>2, <1>3 DEF Push

(* The ring is well formed in every state: types, strict time order around *)
(* the end of the ring, no slot read before it is written, no wrapping     *)
(* before it is full.                                                      *)
THEOREM RingInvariant == Spec => []RingInv
  <1>1. Init => RingInv
    BY InitInv
  <1>2. RingInv /\ [Next]_vars => RingInv'
    <2> SUFFICES ASSUME RingInv, [Next]_vars PROVE RingInv'
      OBVIOUS
    <2>1. CASE Next
      BY <2>1, PushInv DEF Next
    <2>2. CASE UNCHANGED vars
      BY <2>2, SameStoreSameRecords
      DEF vars, store, RingInv, TypeOK, InTimeOrder, HeldAreWritten, UnwrappedUntilFull
    <2>3. QED
      BY <2>1, <2>2
  <1>3. QED
    BY <1>1, <1>2, PTL DEF Spec

(* No read ever returns a timestamp or a row of the initial fill.          *)
THEOREM NeverReadUnwritten == Spec => []HeldAreWritten
  BY RingInvariant, PTL DEF RingInv

(* The ring implements the bounded log: pushes add the newest record and   *)
(* discard at most the oldest; refused pushes change no record.            *)
THEOREM ImplementsLog == Spec => ImplementsBoundedLog
  <1>1. Init => Log!Init
    BY DEF Init, Log!Init, Records
  <1>2. RingInv /\ [Next]_vars => [Log!Next]_Records
    <2> SUFFICES ASSUME RingInv, [Next]_vars PROVE Log!Next \/ Records' = Records
      OBVIOUS
    <2>1. CASE UNCHANGED vars
      BY <2>1, SameStoreSameRecords DEF vars, store
    <2>2. ASSUME NEW t \in Stamps, NEW row \in Offered, Push(t, row)
          PROVE  Log!Next \/ Records' = Records
      <3>1. CASE PushWrongWidth(t, row) \/ PushOutOfOrder(t, row)
        BY <3>1, RefusedUnchanged, SameStoreSameRecords
      <3>2. CASE PushIntoRoom(t, row) \/ PushOverOldest(t, row)
        BY <3>2, AcceptedIsAdded DEF RingInv, Log!Next, Log!Add
      <3>3. QED
        BY <2>2, <3>1, <3>2 DEF Push
    <2>3. QED
      BY <2>1, <2>2 DEF Next
  <1>3. QED
    BY <1>1, <1>2, RingInvariant, PTL DEF Spec, ImplementsBoundedLog, Log!Spec

(* An accepted push changes the records, even in a full ring that holds as *)
(* many afterwards: the newest record is another one.                      *)
LEMMA AcceptedChanges ==
  ASSUME RingInv, NEW t \in Stamps, NEW row \in Offered,
         PushIntoRoom(t, row) \/ PushOverOldest(t, row)
  PROVE  Records' # Records /\ result' = "ok"
  <1>1. result' = "ok"
    BY DEF PushIntoRoom, PushOverOldest, Write
  <1>2. /\ Records \in Seq(Log!Record) /\ Len(Records) = len
        /\ NewRecord(t, row) \in Log!Record
    BY RecordsSeq, AcceptedIsAdded DEF RingInv
  <1>3. CASE PushIntoRoom(t, row)
    <2>1. Len(Records') = Len(Records) + 1
      BY <1>2, <1>3, RoomAppends, AppendProperties DEF RingInv
    <2>2. QED
      BY <1>1, <1>2, <2>1, LenProperties
  <1>4. CASE PushOverOldest(t, row)
    <2>1. Len(Records) = Capacity /\ Records' = Append(Tail(Records), NewRecord(t, row))
      BY <1>4, FullReplacesOldest DEF RingInv
    <2>2. Records # << >>
      BY <1>2, <2>1, CapacityAssumption, EmptySeq
    <2>3. Tail(Records) \in Seq(Log!Record) /\ Len(Tail(Records)) = Capacity - 1
      BY <1>2, <2>1, <2>2, HeadTailProperties
    <2>4. Records'[Capacity] = NewRecord(t, row)
      <3>1. Append(Tail(Records), NewRecord(t, row))[Len(Tail(Records)) + 1] = NewRecord(t, row)
        BY <1>2, <2>3, AppendProperties
      <3>2. QED
        BY <2>1, <2>3, <3>1, CapacityAssumption
    <2>5. Records[Capacity].t < t
      BY <1>4, <2>1, <2>2, AcceptedIsAdded DEF RingInv, Log!InOrder, NewRecord
    <2>6. t \in Nat
      BY StampsAssumption, MaxTimeAssumption
    <2>7. QED
      BY <1>1, <2>4, <2>5, <2>6 DEF NewRecord
  <1>5. QED
    BY <1>3, <1>4

(* push returns Ok exactly when it changed the records held.               *)
THEOREM OkIffAdded == Spec => OkMeansAdded
  <1>1. RingInv /\ [Next]_vars => [result' = "ok" <=> Records' # Records]_vars
    <2> SUFFICES ASSUME RingInv, NEW t \in Stamps, NEW row \in Offered, Push(t, row)
                 PROVE  result' = "ok" <=> Records' # Records
      BY DEF Next
    <2>1. CASE PushWrongWidth(t, row) \/ PushOutOfOrder(t, row)
      BY <2>1, RefusedUnchanged, SameStoreSameRecords
    <2>2. CASE PushIntoRoom(t, row) \/ PushOverOldest(t, row)
      BY <2>2, AcceptedChanges
    <2>3. QED
      BY <2>1, <2>2 DEF Push
  <1>2. QED
    BY <1>1, RingInvariant, PTL DEF Spec, OkMeansAdded

-----------------------------------------------------------------------------
(* Induction.                                                              *)

(* A set of numbers that is not empty has a least one.                     *)
LEMMA LeastNumber ==
  ASSUME NEW T \in SUBSET Nat, T # {}
  PROVE  \E x \in T : \A y \in T : x <= y
  <1> DEFINE Less == {ss \in Nat \X Nat : ss[1] < ss[2]}
  <1>1. IsWellFoundedOn(Less, Nat) BY NatLessThanWellFounded DEF OpToRel
  <1>2. \A x, y \in Nat : y < x => <<y, x>> \in Less
    OBVIOUS
  <1> HIDE DEF Less
  <1>3. PICK x \in T : \A y \in T : ~ (<<y, x>> \in Less)
    BY <1>1, WFMin
  <1>4. ASSUME NEW y \in T PROVE x <= y
    <2>1. x \in Nat /\ y \in Nat OBVIOUS
    <2>2. ~ (y < x) BY <1>2, <1>3, <2>1
    <2>3. QED BY <2>1, <2>2
  <1>5. QED BY <1>4

(* Induction over the naturals, with a set in place of a predicate.        *)
LEMMA Induction ==
  ASSUME NEW S \in SUBSET Nat, 0 \in S, \A n \in S : n + 1 \in S
  PROVE  Nat \subseteq S
  <1> SUFFICES ASSUME Nat \ S # {} PROVE FALSE OBVIOUS
  <1>1. PICK n \in Nat \ S : \A m \in Nat \ S : n <= m
    BY LeastNumber
  <1>2. n # 0 /\ n - 1 \in Nat BY <1>1
  <1>3. n - 1 \in S BY <1>1, <1>2
  <1>4. QED BY <1>1, <1>2, <1>3

(* A function defined by primitive recursion exists.                       *)
Recurs(f, S, n, base, g) ==
  /\ f \in [0 .. n -> S]
  /\ f = [k \in 0 .. n |-> IF k = 0 THEN base ELSE g[<<k, f[k - 1]>>]]

LEMMA Recursion ==
  ASSUME NEW S, NEW n \in Nat, NEW base \in S, NEW g \in [(1 .. n) \X S -> S]
  PROVE  \E f : Recurs(f, S, n, base, g)
  <1> DEFINE
     Upto(m) == \E f \in [0 .. m -> S] :
                  f = [k \in 0 .. m |-> IF k = 0 THEN base ELSE g[<<k, f[k - 1]>>]]
     Good == {m \in Nat : m <= n => Upto(m)}
  <1>1. 0 \in Good
    <2> DEFINE f == [k \in 0 .. 0 |-> base]
    <2>1. f \in [0 .. 0 -> S] /\ f = [k \in 0 .. 0 |-> IF k = 0 THEN base ELSE g[<<k, f[k - 1]>>]]
      OBVIOUS
    <2>2. QED BY <2>1
  <1>2. ASSUME NEW m \in Good PROVE m + 1 \in Good
    <2> SUFFICES ASSUME m + 1 <= n PROVE Upto(m + 1)
      OBVIOUS
    <2>1. PICK f \in [0 .. m -> S] : f = [k \in 0 .. m |-> IF k = 0 THEN base ELSE g[<<k, f[k - 1]>>]]
      OBVIOUS
    <2> DEFINE h == [k \in 0 .. m + 1 |-> IF k = m + 1 THEN g[<<m + 1, f[m]>>] ELSE f[k]]
    <2>2. h \in [0 .. m + 1 -> S] OBVIOUS
    <2>3. ASSUME NEW k \in 0 .. m + 1 PROVE h[k] = IF k = 0 THEN base ELSE g[<<k, h[k - 1]>>]
      <3>1. CASE k = m + 1
        <4>1. k # 0 /\ k - 1 = m /\ h[m] = f[m] /\ h[k] = g[<<k, f[m]>>] BY <3>1
        <4>2. QED BY <4>1
      <3>2. CASE k \in 0 .. m
        <4>1. f[k] = IF k = 0 THEN base ELSE g[<<k, f[k - 1]>>] BY <2>1, <3>2
        <4>2. h[k] = f[k] /\ (k # 0 => h[k - 1] = f[k - 1]) BY <3>2
        <4>3. QED BY <4>1, <4>2
      <3>3. QED BY <3>1, <3>2
    <2>4. h = [k \in 0 .. m + 1 |-> IF k = 0 THEN base ELSE g[<<k, h[k - 1]>>]]
      BY <2>3
    <2>5. QED BY <2>2, <2>4
  <1> HIDE DEF Upto
  <1>3. n \in Good
    <2> HIDE DEF Good
    <2>1. Good \in SUBSET Nat BY DEF Good
    <2>2. QED BY <1>1, <1>2, <2>1, Induction
  <1>4. Upto(n) BY <1>3
  <1>5. QED BY <1>4 DEF Upto, Recurs

(* Induction over the subsets of a finite set.                             *)
LEMMA InductionOverSubsets ==
  ASSUME NEW S, IsFiniteSet(S), NEW Good \in SUBSET SUBSET S, {} \in Good,
         \A T \in SUBSET S : T # {} /\ (\A x \in T : T \ {x} \in Good) => T \in Good
  PROVE  SUBSET S \subseteq Good
  <1> DEFINE Upto == {n \in Nat : \A T \in SUBSET S : Cardinality(T) = n => T \in Good}
  <1>1. \A T \in SUBSET S : IsFiniteSet(T) /\ Cardinality(T) \in Nat
    BY FS_Subset, FS_CardinalityType
  <1>2. 0 \in Upto
    BY <1>1, FS_EmptySet
  <1>3. ASSUME NEW n \in Upto PROVE n + 1 \in Upto
    <2> SUFFICES ASSUME NEW T \in SUBSET S, Cardinality(T) = n + 1 PROVE T \in Good
      OBVIOUS
    <2>1. T # {} BY FS_EmptySet
    <2>2. \A x \in T : Cardinality(T \ {x}) = n BY <1>1, FS_RemoveElement
    <2>3. \A x \in T : T \ {x} \in Good BY <2>2
    <2>4. QED BY <2>1, <2>3
  <1>4. Upto \in SUBSET Nat OBVIOUS
  <1>5. ASSUME NEW T \in SUBSET S PROVE T \in Good
    <2>1. Cardinality(T) \in Upto
      <3> HIDE DEF Upto
      <3>1. QED BY <1>1, <1>2, <1>3, <1>4, Induction
    <2>2. QED BY <2>1
  <1>6. QED BY <1>5

-----------------------------------------------------------------------------
(* Sums over a set.                                                        *)

(* The equation of a sum over a set has a solution over its subsets.       *)
SumEquation(iter, f, S) ==
  iter = [s \in SUBSET S |->
           IF s = {} THEN 0
           ELSE f[CHOOSE x \in s : TRUE] + iter[s \ {CHOOSE x \in s : TRUE}]]

LEMMA SumEquationHasSolution ==
  ASSUME NEW S, IsFiniteSet(S), NEW f, \A x \in S : f[x] \in Int
  PROVE  \E iter \in [SUBSET S -> Int] : SumEquation(iter, f, S)
  <1> DEFINE
    c(s) == CHOOSE x \in s : TRUE
    Small(n) == {s \in SUBSET S : Cardinality(s) <= n}
    Upto(n) == \E iter \in [Small(n) -> Int] :
                 \A s \in Small(n) : iter[s] = IF s = {} THEN 0 ELSE f[c(s)] + iter[s \ {c(s)}]
    Good == {n \in Nat : Upto(n)}
  <1>1. \A s \in SUBSET S : IsFiniteSet(s) /\ Cardinality(s) \in Nat /\ Cardinality(s) <= Cardinality(S)
    BY FS_Subset, FS_CardinalityType
  <1>2. ASSUME NEW s \in SUBSET S, s # {}
        PROVE  c(s) \in s /\ s \ {c(s)} \in SUBSET S /\ Cardinality(s \ {c(s)}) = Cardinality(s) - 1
    BY <1>1, <1>2, FS_RemoveElement
  <1>3. 0 \in Good
    <2>1. Small(0) = {{}} BY <1>1, FS_EmptySet
    <2> DEFINE iter == [s \in Small(0) |-> 0]
    <2>2. iter \in [Small(0) -> Int] OBVIOUS
    <2>3. \A s \in Small(0) : iter[s] = IF s = {} THEN 0 ELSE f[c(s)] + iter[s \ {c(s)}] BY <2>1
    <2>4. QED BY <2>2, <2>3
  <1>4. ASSUME NEW n \in Good PROVE n + 1 \in Good
    <2>1. PICK iter \in [Small(n) -> Int] :
            \A s \in Small(n) : iter[s] = IF s = {} THEN 0 ELSE f[c(s)] + iter[s \ {c(s)}]
      OBVIOUS
    <2> DEFINE next == [s \in Small(n + 1) |-> IF s = {} THEN 0 ELSE f[c(s)] + iter[s \ {c(s)}]]
    <2>2. \A s \in Small(n + 1) : s # {} => s \ {c(s)} \in Small(n) /\ f[c(s)] \in Int
      BY <1>1, <1>2
    <2>3. \A s \in Small(n) : s \in Small(n + 1) BY <1>1
    <2> HIDE DEF Small, c
    <2>4. next \in [Small(n + 1) -> Int] BY <2>2
    <2>5. \A s \in Small(n) : next[s] = iter[s] BY <2>1, <2>3
    <2>6. ASSUME NEW s \in Small(n + 1)
          PROVE  next[s] = IF s = {} THEN 0 ELSE f[c(s)] + next[s \ {c(s)}]
      <3>1. next[s] = IF s = {} THEN 0 ELSE f[c(s)] + iter[s \ {c(s)}]
        OBVIOUS
      <3> HIDE DEF next
      <3>2. CASE s = {} BY <3>1, <3>2
      <3>3. CASE s # {}
        <4>1. s \ {c(s)} \in Small(n) BY <2>2, <3>3
        <4>2. next[s \ {c(s)}] = iter[s \ {c(s)}] BY <2>5, <4>1
        <4>3. QED BY <3>1, <3>3, <4>2
      <3>4. QED BY <3>2, <3>3
    <2> HIDE DEF next
    <2>7. Upto(n + 1) BY <2>4, <2>6
    <2> HIDE DEF Upto
    <2>8. n + 1 \in Nat OBVIOUS
    <2>9. QED BY <2>7, <2>8
  <1> HIDE DEF Upto
  <1>5. Cardinality(S) \in Good
    <2>1. Good \in SUBSET Nat OBVIOUS
    <2> HIDE DEF Good
    <2>2. QED BY <1>1, <1>3, <1>4, <2>1, Induction
  <1>6. Small(Cardinality(S)) = SUBSET S BY <1>1
  <1>7. PICK iter \in [SUBSET S -> Int] :
          \A s \in SUBSET S : iter[s] = IF s = {} THEN 0 ELSE f[c(s)] + iter[s \ {c(s)}]
    BY <1>5, <1>6 DEF Upto
  <1>8. iter = [s \in SUBSET S |-> IF s = {} THEN 0 ELSE f[c(s)] + iter[s \ {c(s)}]]
    BY <1>7
  <1>9. QED BY <1>7, <1>8 DEF SumEquation

LEMMA SumIsSolution ==
  ASSUME NEW S, IsFiniteSet(S), NEW f, \A x \in S : f[x] \in Int
  PROVE  \E iter : SumEquation(iter, f, S) /\ SumFunctionOnSet(f, S) = iter[S]
  <1> DEFINE it == CHOOSE iter : SumEquation(iter, f, S)
  <1>1. SumEquation(it, f, S) BY SumEquationHasSolution
  <1>2. SumFunctionOnSet(f, S) = it[S]
    BY DEF SumFunctionOnSet, FoldFunctionOnSet, MapThenFoldSet, SumEquation
  <1>3. QED BY <1>1, <1>2

(* The sum over a set, by the element that it takes first.                 *)
LEMMA SumByFirst ==
  ASSUME NEW S, IsFiniteSet(S), NEW f, \A x \in S : f[x] \in Int
  PROVE  /\ SumFunctionOnSet(f, {}) = 0
         /\ \A T \in SUBSET S : SumFunctionOnSet(f, T) \in Int
         /\ \A T \in SUBSET S : T # {} =>
              \E x \in T : SumFunctionOnSet(f, T) = f[x] + SumFunctionOnSet(f, T \ {x})
  <1> DEFINE Sum(T) == SumFunctionOnSet(f, T)
             c(s) == CHOOSE x \in s : TRUE
  <1>1. \A T \in SUBSET S : IsFiniteSet(T) BY FS_Subset
  <1>2. PICK iter \in [SUBSET S -> Int] :
          \A s \in SUBSET S : iter[s] = IF s = {} THEN 0 ELSE f[c(s)] + iter[s \ {c(s)}]
    <2>1. PICK iter \in [SUBSET S -> Int] : SumEquation(iter, f, S) BY SumEquationHasSolution
    <2>2. QED BY <2>1 DEF SumEquation
  <1>3. ASSUME NEW T \in SUBSET S PROVE Sum(T) = iter[T]
    <2>1. PICK own : SumEquation(own, f, T) /\ Sum(T) = own[T]
      BY <1>1, SumIsSolution
    <2>2. \A s \in SUBSET T : own[s] = IF s = {} THEN 0 ELSE f[c(s)] + own[s \ {c(s)}]
      BY <2>1 DEF SumEquation
    <2> DEFINE Good == {s \in SUBSET T : own[s] = iter[s]}
    <2>3. {} \in Good BY <1>2, <2>2
    <2>4. ASSUME NEW s \in SUBSET T, s # {}, \A x \in s : s \ {x} \in Good PROVE s \in Good
      <3>1. c(s) \in s BY <2>4
      <3>2. own[s \ {c(s)}] = iter[s \ {c(s)}] BY <2>4, <3>1
      <3>3. own[s] = f[c(s)] + own[s \ {c(s)}] BY <2>2, <2>4
      <3>4. iter[s] = f[c(s)] + iter[s \ {c(s)}] BY <1>2, <2>4
      <3>5. QED BY <3>2, <3>3, <3>4
    <2>5. T \in Good
      <3> HIDE DEF Good
      <3>1. Good \in SUBSET SUBSET T BY DEF Good
      <3>2. QED BY <1>1, <2>3, <2>4, <3>1, InductionOverSubsets
    <2>6. QED BY <2>1, <2>5
  <1> HIDE DEF Sum
  <1>4. Sum({}) = 0 BY <1>2, <1>3
  <1>5. \A T \in SUBSET S : Sum(T) \in Int BY <1>2, <1>3
  <1>6. ASSUME NEW T \in SUBSET S, T # {}
        PROVE  \E x \in T : Sum(T) = f[x] + Sum(T \ {x})
    <2>1. c(T) \in T BY <1>6
    <2>2. Sum(T) = f[c(T)] + Sum(T \ {c(T)}) BY <1>2, <1>3, <1>6
    <2>3. QED BY <2>1, <2>2
  <1>7. QED BY <1>4, <1>5, <1>6 DEF Sum

(* The sum over a set is that of any of its elements and of the others.    *)
LEMMA SumOfElement ==
  ASSUME NEW S, IsFiniteSet(S), NEW f, \A x \in S : f[x] \in Int
  PROVE  \A x \in S : SumFunctionOnSet(f, S) = SumFunctionOnSet(f, S \ {x}) + f[x]
  <1> DEFINE Sum(T) == SumFunctionOnSet(f, T)
             Good == {T \in SUBSET S : \A x \in T : Sum(T) = Sum(T \ {x}) + f[x]}
  <1>1. \A T \in SUBSET S : Sum(T) \in Int BY SumByFirst
  <1>2. \A T \in SUBSET S : T # {} => \E x \in T : Sum(T) = f[x] + Sum(T \ {x})
    BY SumByFirst
  <1> HIDE DEF Sum
  <1>3. ASSUME NEW T \in SUBSET S, T # {}, \A x \in T : T \ {x} \in Good
        PROVE  T \in Good
    <2> SUFFICES ASSUME NEW x \in T PROVE Sum(T) = Sum(T \ {x}) + f[x]
      OBVIOUS
    <2>1. PICK y \in T : Sum(T) = f[y] + Sum(T \ {y}) BY <1>2, <1>3
    <2>2. CASE x = y BY <1>1, <2>1, <2>2
    <2>3. CASE x # y
      <3>1. Sum(T \ {y}) = Sum((T \ {y}) \ {x}) + f[x] BY <1>3, <2>3
      <3>2. Sum(T \ {x}) = Sum((T \ {x}) \ {y}) + f[y] BY <1>3, <2>3
      <3>3. (T \ {y}) \ {x} = (T \ {x}) \ {y} OBVIOUS
      <3>4. Sum((T \ {x}) \ {y}) \in Int /\ f[x] \in Int /\ f[y] \in Int BY <1>1
      <3>5. Sum(T \ {y}) = Sum((T \ {x}) \ {y}) + f[x] BY <3>1, <3>3
      <3> DEFINE rest == Sum((T \ {x}) \ {y})
                 all == Sum(T)
                 others == Sum(T \ {x})
      <3>6. rest \in Int /\ all = f[y] + (rest + f[x]) /\ others = rest + f[y] BY <2>1, <3>2, <3>4, <3>5
      <3> HIDE DEF rest, all, others
      <3>7. all = others + f[x] BY <3>4, <3>6
      <3>8. QED BY <3>7 DEF all, others
    <2>4. QED BY <2>2, <2>3
  <1>4. S \in Good
    <2>1. Good \in SUBSET SUBSET S /\ {} \in Good OBVIOUS
    <2> HIDE DEF Good
    <2>2. QED BY <1>3, <2>1, InductionOverSubsets
  <1>5. QED BY <1>4 DEF Sum

-----------------------------------------------------------------------------
(* The binary search.                                                      *)

Middle(part) == part[1] + (part[2] - part[1]) \div 2

SearchEquation(search, before) ==
  search = [part \in (0 .. len) \X (0 .. len) |->
             IF part[1] >= part[2] THEN part[1]
             ELSE IF timestamps[Slot(Middle(part))] \in before
                    THEN search[<<Middle(part) + 1, part[2]>>]
             ELSE search[<<part[1], Middle(part)>>]]

(* The search looks at a place between its two ends.                       *)
LEMMA MiddleIsWithin ==
  ASSUME NEW low \in Nat, NEW high \in Nat, low < high
  PROVE  Middle(<<low, high>>) \in low .. high - 1
  BY DEF Middle

(* The search ends at the only place that has the records in `before`, and *)
(* none else, below it.                                                    *)
LEMMA SearchSolution ==
  ASSUME len \in Nat, NEW before, NEW c \in 0 .. len,
         \A i \in 0 .. len - 1 : timestamps[Slot(i)] \in before <=> i < c
  PROVE  \E search : SearchEquation(search, before)
  <1> DEFINE found == [part \in (0 .. len) \X (0 .. len) |->
                        IF part[1] >= part[2] THEN part[1]
                        ELSE IF c < part[1] THEN part[1]
                        ELSE IF c > part[2] THEN part[2] ELSE c]
  <1>1. ASSUME NEW part \in (0 .. len) \X (0 .. len)
        PROVE  found[part] =
                 IF part[1] >= part[2] THEN part[1]
                 ELSE IF timestamps[Slot(Middle(part))] \in before
                        THEN found[<<Middle(part) + 1, part[2]>>]
                 ELSE found[<<part[1], Middle(part)>>]
    <2>1. PICK low, high \in 0 .. len : part = <<low, high>>
      OBVIOUS
    <2>2. CASE low >= high BY <2>1, <2>2
    <2>3. CASE low < high
      <3> DEFINE middle == Middle(part)
      <3>1. middle \in low .. high - 1 BY <2>1, <2>3, MiddleIsWithin
      <3> HIDE DEF middle
      <3>2. timestamps[Slot(middle)] \in before <=> middle < c BY <3>1
      <3>3. CASE middle < c
        <4>1. found[part] = found[<<middle + 1, high>>] BY <2>1, <2>3, <3>1, <3>3
        <4>2. QED BY <2>1, <2>3, <3>2, <3>3, <4>1 DEF middle
      <3>4. CASE ~ (middle < c)
        <4>1. found[part] = found[<<low, middle>>] BY <2>1, <2>3, <3>1, <3>4
        <4>2. QED BY <2>1, <2>3, <3>2, <3>4, <4>1 DEF middle
      <3>5. QED BY <3>3, <3>4
    <2>4. QED BY <2>2, <2>3
  <1>2. SearchEquation(found, before)
    <2> HIDE DEF found
    <2> DEFINE rhs(part) ==
                 IF part[1] >= part[2] THEN part[1]
                 ELSE IF timestamps[Slot(Middle(part))] \in before
                        THEN found[<<Middle(part) + 1, part[2]>>]
                 ELSE found[<<part[1], Middle(part)>>]
    <2>1. \A part \in (0 .. len) \X (0 .. len) : found[part] = rhs(part) BY <1>1
    <2>2. found = [part \in (0 .. len) \X (0 .. len) |-> found[part]] BY DEF found
    <2> HIDE DEF rhs
    <2>3. found = [part \in (0 .. len) \X (0 .. len) |-> rhs(part)] BY <2>1, <2>2
    <2>4. QED BY <2>3 DEF SearchEquation, rhs
  <1>3. QED BY <1>2

LEMMA SearchFinds ==
  ASSUME len \in Nat, NEW before, NEW c \in 0 .. len,
         \A i \in 0 .. len - 1 : timestamps[Slot(i)] \in before <=> i < c,
         NEW search, SearchEquation(search, before)
  PROVE  search[<<0, len>>] = c
  <1> DEFINE Good == {n \in Nat : \A low, high \in 0 .. len :
                        low <= c /\ c <= high /\ high - low <= n => search[<<low, high>>] = c}
  <1>1. ASSUME NEW low \in 0 .. len, NEW high \in 0 .. len
        PROVE  search[<<low, high>>] =
                 IF low >= high THEN low
                 ELSE IF timestamps[Slot(Middle(<<low, high>>))] \in before
                        THEN search[<<Middle(<<low, high>>) + 1, high>>]
                 ELSE search[<<low, Middle(<<low, high>>)>>]
    BY DEF SearchEquation
  <1>2. 0 \in Good
    <2> SUFFICES ASSUME NEW low \in 0 .. len, NEW high \in 0 .. len,
                        low <= c, c <= high, high - low <= 0
                 PROVE  search[<<low, high>>] = c
      OBVIOUS
    <2>1. low >= high /\ low = c OBVIOUS
    <2>2. QED BY <1>1, <2>1
  <1>3. ASSUME NEW n \in Good PROVE n + 1 \in Good
    <2> SUFFICES ASSUME NEW low \in 0 .. len, NEW high \in 0 .. len,
                        low <= c, c <= high, high - low <= n + 1
                 PROVE  search[<<low, high>>] = c
      OBVIOUS
    <2>1. CASE low >= high BY <1>1, <2>1
    <2>2. CASE low < high
      <3> DEFINE middle == Middle(<<low, high>>)
      <3>1. middle \in low .. high - 1 BY <2>2, MiddleIsWithin
      <3>2. search[<<low, high>>] = IF timestamps[Slot(middle)] \in before
                                      THEN search[<<middle + 1, high>>] ELSE search[<<low, middle>>]
        BY <1>1, <2>2
      <3> HIDE DEF middle
      <3>3. timestamps[Slot(middle)] \in before <=> middle < c BY <3>1
      <3>4. CASE middle < c
        <4>1. search[<<middle + 1, high>>] = c BY <3>1, <3>4
        <4>2. QED BY <3>2, <3>3, <3>4, <4>1
      <3>5. CASE ~ (middle < c)
        <4>1. search[<<low, middle>>] = c BY <3>1, <3>5
        <4>2. QED BY <3>2, <3>3, <3>5, <4>1
      <3>6. QED BY <3>4, <3>5
    <2>3. QED BY <2>1, <2>2
  <1>4. len \in Good
    <2>1. Good \in SUBSET Nat OBVIOUS
    <2> HIDE DEF Good
    <2>2. QED BY <1>2, <1>3, <2>1, Induction
  <1>5. QED BY <1>4

(* What the search finds.                                                  *)
LEMMA PartitionIs ==
  ASSUME len \in Nat, NEW before, NEW c \in 0 .. len,
         \A i \in 0 .. len - 1 : timestamps[Slot(i)] \in before <=> i < c
  PROVE  Partition(before) = c
  <1> DEFINE search == CHOOSE s : SearchEquation(s, before)
  <1>1. SearchEquation(search, before) BY SearchSolution
  <1>2. Partition(before) = search[<<0, len>>] BY DEF Partition, SearchEquation, Middle
  <1> HIDE DEF search
  <1>3. QED BY <1>1, <1>2, SearchFinds

(* What holds of a run of records at the start has an end.                 *)
LEMMA EndOfRun ==
  ASSUME NEW n \in Nat, NEW run \in SUBSET (0 .. n - 1),
         \A i \in run : \A j \in 0 .. i : j \in run
  PROVE  \E c \in 0 .. n : \A i \in 0 .. n - 1 : i \in run <=> i < c
  <1> DEFINE out == {i \in 0 .. n : i \notin run}
  <1>1. n \in out OBVIOUS
  <1>2. PICK c \in out : \A i \in out : c <= i
    <2>1. out \in SUBSET Nat /\ out # {} BY <1>1
    <2> HIDE DEF out
    <2>2. QED BY <2>1, LeastNumber
  <1>3. ASSUME NEW i \in 0 .. n - 1 PROVE i \in run <=> i < c
    <2>1. i < c => i \in run BY <1>2
    <2>2. ASSUME i \in run, c <= i PROVE FALSE
      <3>1. c \in 0 .. i BY <2>2
      <3>2. c \in run BY <2>2, <3>1
      <3>3. QED BY <3>2
    <2>3. QED BY <2>1, <2>2
  <1>4. QED BY <1>3

-----------------------------------------------------------------------------
(* The records of a range.                                                 *)

(* A record that is held is one that was written.                          *)
LEMMA RecordIs ==
  ASSUME RingInv, NEW i \in 1 .. len
  PROVE  /\ Records[i].t = timestamps[Slot(i - 1)] /\ Records[i].row = rows[Slot(i - 1)]
         /\ Records[i].t \in Stamps /\ Records[i].t \in 0 .. MaxTime
         /\ Records[i].row \in Fitting
  BY StampsAssumption DEF RingInv, HeldAreWritten, Records

(* The search counts the records with early times.                         *)
LEMMA PartitionOfTimes ==
  ASSUME RingInv, NEW before,
         \A s, t \in 0 .. MaxTime : s <= t /\ t \in before => s \in before
  PROVE  /\ Partition(before) \in 0 .. len
         /\ \A i \in 1 .. len : Records[i].t \in before <=> i <= Partition(before)
  <1>1. len \in Nat BY CapacityAssumption DEF RingInv, TypeOK
  <1> DEFINE run == {i \in 0 .. len - 1 : timestamps[Slot(i)] \in before}
  <1>2. ASSUME NEW i \in run, NEW j \in 0 .. i PROVE j \in run
    <2>1. i + 1 \in 1 .. len /\ j + 1 \in 1 .. len BY <1>1
    <2>2. Records[j + 1].t <= Records[i + 1].t
      <3>1. CASE j = i BY <2>1, <3>1, RecordIs, MaxTimeAssumption
      <3>2. CASE j # i
        <4>1. j + 1 < i + 1 BY <1>1, <3>2
        <4>2. Records[j + 1].t < Records[i + 1].t BY <2>1, <4>1 DEF RingInv, InTimeOrder
        <4>3. QED BY <2>1, <4>2, RecordIs, MaxTimeAssumption
      <3>3. QED BY <3>1, <3>2
    <2>3. Records[i + 1].t = timestamps[Slot(i)] /\ Records[j + 1].t = timestamps[Slot(j)]
      BY <1>1, <2>1, RecordIs
    <2>4. QED BY <1>1, <2>1, <2>2, <2>3, RecordIs
  <1>3. PICK c \in 0 .. len : \A i \in 0 .. len - 1 : i \in run <=> i < c
    <2>1. run \in SUBSET (0 .. len - 1) OBVIOUS
    <2> HIDE DEF run
    <2>2. QED BY <1>1, <1>2, <2>1, EndOfRun
  <1>4. Partition(before) = c
    <2>1. \A i \in 0 .. len - 1 : timestamps[Slot(i)] \in before <=> i < c BY <1>3
    <2>2. QED BY <1>1, <2>1, PartitionIs
  <1>5. ASSUME NEW i \in 1 .. len PROVE Records[i].t \in before <=> i <= c
    <2>1. i - 1 \in 0 .. len - 1 BY <1>1
    <2>2. timestamps[Slot(i - 1)] \in before <=> i - 1 < c BY <1>3, <2>1
    <2>3. QED BY <1>1, <2>2, RecordIs
  <1>6. QED BY <1>4, <1>5

(* A range's places are those of exactly the records that it is to have.   *)
LEMMA RangeIs ==
  ASSUME RingInv, NEW from \in Limits, NEW to \in Limits
  PROVE  /\ IndexRange(from, to).start \in 0 .. len
         /\ IndexRange(from, to).end \in IndexRange(from, to).start .. len
         /\ Wanted(from, to) = IndexRange(from, to).start + 1 .. IndexRange(from, to).end
  <1>1. len \in Nat BY CapacityAssumption DEF RingInv, TypeOK
  <1> DEFINE start == IF from = NoLimit THEN 0 ELSE Partition(0 .. from - 1)
             end == IF to = NoLimit THEN len ELSE Partition(0 .. to)
  <1>2. /\ start \in 0 .. len
        /\ \A i \in 1 .. len : (from # NoLimit => Records[i].t >= from) <=> start < i
    <2>1. CASE from = NoLimit BY <1>1, <2>1
    <2>2. CASE from # NoLimit
      <3>1. from \in 0 .. MaxTime BY <2>2 DEF Limits
      <3>2. \A s, t \in 0 .. MaxTime : s <= t /\ t \in 0 .. from - 1 => s \in 0 .. from - 1
        BY <3>1, MaxTimeAssumption
      <3>3. /\ Partition(0 .. from - 1) \in 0 .. len
            /\ \A i \in 1 .. len : Records[i].t \in 0 .. from - 1 <=> i <= Partition(0 .. from - 1)
        BY <3>2, PartitionOfTimes
      <3>4. QED BY <1>1, <2>2, <3>1, <3>3, RecordIs, MaxTimeAssumption
    <2>3. QED BY <2>1, <2>2
  <1>3. /\ end \in 0 .. len
        /\ \A i \in 1 .. len : (to # NoLimit => Records[i].t <= to) <=> i <= end
    <2>1. CASE to = NoLimit BY <1>1, <2>1
    <2>2. CASE to # NoLimit
      <3>1. to \in 0 .. MaxTime BY <2>2 DEF Limits
      <3>2. \A s, t \in 0 .. MaxTime : s <= t /\ t \in 0 .. to => s \in 0 .. to
        BY <3>1, MaxTimeAssumption
      <3>3. /\ Partition(0 .. to) \in 0 .. len
            /\ \A i \in 1 .. len : Records[i].t \in 0 .. to <=> i <= Partition(0 .. to)
        BY <3>2, PartitionOfTimes
      <3>4. QED BY <1>1, <2>2, <3>1, <3>3, RecordIs, MaxTimeAssumption
    <2>3. QED BY <2>1, <2>2
  <1>4. IndexRange(from, to) = [start |-> start, end |-> IF end < start THEN start ELSE end]
    BY DEF IndexRange, B!AtLeast
  <1> HIDE DEF start, end
  <1>5. Wanted(from, to) = {i \in 1 .. len : start < i /\ i <= end}
    BY <1>2, <1>3 DEF Wanted
  <1>6. QED BY <1>1, <1>2, <1>3, <1>4, <1>5

(* A slot is read as the record in its place.                              *)
LEMMA CellIsMeasure ==
  ASSUME RingInv, NEW i \in 1 .. len
  PROVE  \A column : Cell(i - 1, column) = Measure(i, column)
  BY RecordIs DEF Cell, Measure

(* The length of a function on 1..n.                                       *)
LEMMA LengthOfTuple ==
  ASSUME NEW n \in Nat, NEW s, s = [k \in 1 .. n |-> s[k]]
  PROVE  Len(s) = n
  <1>1. s \in [1 .. n -> {s[k] : k \in 1 .. n}] OBVIOUS
  <1>2. s \in Seq({s[k] : k \in 1 .. n}) BY <1>1
  <1>3. QED BY <1>1, <1>2

(* What a range read gives in its k-th place.                              *)
LEMMA SnapshotIs ==
  ASSUME RingInv, NEW from \in Limits, NEW to \in Limits
  PROVE  LET got == SnapshotRange(from, to, Columns)
             start == IndexRange(from, to).start
             n == IndexRange(from, to).end - start
         IN  /\ n \in Nat /\ Len(got.timestamps) = n
             /\ \A k \in 1 .. n : got.timestamps[k] = Records[start + k].t
             /\ \A c \in DOMAIN Columns :
                  /\ Len(got.columns[c]) = n
                  /\ \A k \in 1 .. n : got.columns[c][k] = Measure(start + k, Columns[c])
  <1> DEFINE start == IndexRange(from, to).start
             n == IndexRange(from, to).end - start
             places == Indices(IndexRange(from, to))
             got == SnapshotRange(from, to, Columns)
  <1>1. /\ start \in 0 .. len /\ n \in 0 .. len - start /\ len \in Nat
    BY RangeIs, CapacityAssumption DEF RingInv, TypeOK
  <1>2. places = [k \in 1 .. n |-> start + k - 1] BY DEF Indices
  <1>3. got = [timestamps |-> [k \in DOMAIN places |-> timestamps[Slot(places[k])]],
               columns |-> [c \in DOMAIN Columns |->
                             [k \in DOMAIN places |-> Cell(places[k], Columns[c])]]]
    BY DEF SnapshotRange
  <1> HIDE DEF start, n, places, got
  <1>4. got.timestamps = [k \in 1 .. n |-> timestamps[Slot(start + k - 1)]]
    BY <1>2, <1>3
  <1>5. ASSUME NEW c \in DOMAIN Columns
        PROVE  got.columns[c] = [k \in 1 .. n |-> Cell(start + k - 1, Columns[c])]
    BY <1>2, <1>3
  <1>6. ASSUME NEW k \in 1 .. n
        PROVE  /\ start + k \in 1 .. len
               /\ timestamps[Slot(start + k - 1)] = Records[start + k].t
               /\ \A column : Cell(start + k - 1, column) = Measure(start + k, column)
    <2> DEFINE i == start + k
    <2>1. i \in 1 .. len BY <1>1
    <2> HIDE DEF i
    <2>2. timestamps[Slot(i - 1)] = Records[i].t BY <2>1, RecordIs
    <2>3. \A column : Cell(i - 1, column) = Measure(i, column)
      BY <2>1, CellIsMeasure
    <2>4. i - 1 = start + k - 1 BY <1>1 DEF i
    <2>5. i = start + k BY DEF i
    <2>6. QED BY <2>1, <2>2, <2>3, <2>4, <2>5
  <1>7. n \in Nat BY <1>1
  <1>8. Len(got.timestamps) = n BY <1>4, <1>7, LengthOfTuple
  <1>9. ASSUME NEW c \in DOMAIN Columns PROVE Len(got.columns[c]) = n
    <2> DEFINE column == got.columns[c]
    <2>1. column = [k \in 1 .. n |-> Cell(start + k - 1, Columns[c])] BY <1>5
    <2> HIDE DEF column
    <2>2. column = [k \in 1 .. n |-> column[k]] BY <2>1
    <2>3. QED BY <1>7, <2>2, LengthOfTuple DEF column
  <1>10. \A k \in 1 .. n : got.timestamps[k] = Records[start + k].t BY <1>4, <1>6
  <1>11. \A c \in DOMAIN Columns : \A k \in 1 .. n :
           got.columns[c][k] = Measure(start + k, Columns[c])
    <2> SUFFICES ASSUME NEW c \in DOMAIN Columns, NEW k \in 1 .. n
                 PROVE  got.columns[c][k] = Measure(start + k, Columns[c])
      OBVIOUS
    <2>1. got.columns[c][k] = Cell(start + k - 1, Columns[c]) BY <1>5
    <2>2. Cell(start + k - 1, Columns[c]) = Measure(start + k, Columns[c]) BY <1>6
    <2>3. QED BY <2>1, <2>2
  <1>12. QED BY <1>7, <1>8, <1>9, <1>10, <1>11 DEF start, n, got

LEMMA ReadsAreExact == RingInv => RangeIsExact
  <1> SUFFICES ASSUME RingInv, NEW from \in Limits, NEW to \in Limits
               PROVE  LET got == SnapshotRange(from, to, Columns)
                          n == Len(got.timestamps)
                      IN  /\ \A j, k \in 1 .. n : j < k => got.timestamps[j] < got.timestamps[k]
                          /\ \A c \in DOMAIN Columns : Len(got.columns[c]) = n
                          /\ {[t |-> got.timestamps[k],
                               row |-> [c \in DOMAIN Columns |-> got.columns[c][k]]] : k \in 1 .. n}
                             = {[t |-> Records[i].t,
                                 row |-> [c \in DOMAIN Columns |-> Measure(i, Columns[c])]] :
                                  i \in Wanted(from, to)}
    BY DEF RangeIsExact
  <1> DEFINE got == SnapshotRange(from, to, Columns)
             start == IndexRange(from, to).start
             n == IndexRange(from, to).end - start
             given(k) == [t |-> got.timestamps[k],
                          row |-> [c \in DOMAIN Columns |-> got.columns[c][k]]]
             held(i) == [t |-> Records[i].t,
                         row |-> [c \in DOMAIN Columns |-> Measure(i, Columns[c])]]
  <1>1. /\ n \in Nat /\ Len(got.timestamps) = n
        /\ \A k \in 1 .. n : got.timestamps[k] = Records[start + k].t
        /\ \A c \in DOMAIN Columns :
             /\ Len(got.columns[c]) = n
             /\ \A k \in 1 .. n : got.columns[c][k] = Measure(start + k, Columns[c])
    BY SnapshotIs
  <1>2. /\ start \in 0 .. len /\ n \in 0 .. len - start /\ len \in Nat
        /\ Wanted(from, to) = start + 1 .. start + n
    BY RangeIs, CapacityAssumption DEF RingInv, TypeOK
  <1> HIDE DEF got, start, n
  <1>3. ASSUME NEW j \in 1 .. n, NEW k \in 1 .. n, j < k
        PROVE  got.timestamps[j] < got.timestamps[k]
    <2>1. start + j \in 1 .. len /\ start + k \in 1 .. len /\ start + j < start + k
      BY <1>2, <1>3
    <2>2. QED BY <1>1, <2>1 DEF RingInv, InTimeOrder
  <1>4. \A k \in 1 .. n : given(k) = held(start + k) BY <1>1
  <1>5. {given(k) : k \in 1 .. n} = {held(i) : i \in Wanted(from, to)}
    <2> HIDE DEF given, held
    <2>1. ASSUME NEW k \in 1 .. n PROVE \E i \in Wanted(from, to) : given(k) = held(i)
      <3>1. start + k \in Wanted(from, to) BY <1>2
      <3>2. QED BY <1>4, <3>1
    <2>2. ASSUME NEW i \in Wanted(from, to) PROVE \E k \in 1 .. n : held(i) = given(k)
      <3>1. i - start \in 1 .. n /\ start + (i - start) = i BY <1>2
      <3>2. given(i - start) = held(i) BY <1>4, <3>1
      <3>3. QED BY <3>1, <3>2
    <2>3. QED BY <2>1, <2>2
  <1>6. QED BY <1>1, <1>3, <1>5 DEF got

(* A range read gives exactly the records in the range.                    *)
THEOREM ReadsGiveTheRange == Spec => []RangeIsExact
  BY RingInvariant, ReadsAreExact, PTL

-----------------------------------------------------------------------------
(* The width of buckets.                                                   *)

(* Quotients and remainders.                                               *)
LEMMA Division ==
  ASSUME NEW x \in Nat, NEW s \in Nat \ {0}
  PROVE  /\ x \div s \in Nat /\ x % s \in 0 .. s - 1
         /\ x = s * (x \div s) + (x % s)
  OBVIOUS

LEMMA QuotientIs ==
  ASSUME NEW q \in Nat, NEW r \in Nat, NEW s \in Nat \ {0}, r < s
  PROVE  (s * q + r) \div s = q /\ (s * q + r) % s = r
  OBVIOUS

LEMMA QuotientGrows ==
  ASSUME NEW x \in Nat, NEW y \in Nat, NEW s \in Nat \ {0}, x <= y
  PROVE  x \div s <= y \div s
  OBVIOUS

(* No more buckets than times.                                             *)
LEMMA QuotientsApart ==
  ASSUME NEW x \in Nat, NEW y \in Nat, NEW s \in Nat \ {0}, x <= y
  PROVE  y \div s - x \div s \in 0 .. y - x
  <1> DEFINE p == x \div s
             q == y \div s
  <1>1. p \in Nat /\ q \in Nat /\ p <= q BY Division, QuotientGrows
  <1>2. CASE q = p BY <1>1, <1>2
  <1>3. CASE q > p
    <2>1. s * p <= x /\ x < s * p + s /\ s * q <= y BY Division
    <2> HIDE DEF p, q
    <2>2. PICK d \in Nat : q = p + 1 + d
      <3>1. q - p - 1 \in Nat /\ q = p + 1 + (q - p - 1) BY <1>1, <1>3
      <3>2. QED BY <3>1
    <2>3. s * q = s * p + s + s * d BY <1>1, <2>2
    <2>4. d <= s * d
      <3>1. PICK e \in Nat : s = 1 + e BY (s - 1) \in Nat
      <3>2. s * d = d + e * d /\ e * d \in Nat BY <3>1
      <3>3. QED BY <3>2
    <2>5. s * p \in Nat /\ s * d \in Nat BY <1>1
    <2>6. y - x > d BY <2>1, <2>3, <2>4, <2>5
    <2>7. QED BY <1>1, <2>2, <2>6 DEF p, q
  <1>4. QED BY <1>1, <1>2, <1>3

(* A time without what it is past the start of its bucket.                 *)
LEMMA AlignedIs ==
  ASSUME NEW x \in Nat, NEW s \in Nat \ {0}
  PROVE  x - (x % s) = s * (x \div s)
  <1> DEFINE p == s * (x \div s)
             r == x % s
  <1>1. p \in Nat /\ r \in Nat /\ x = p + r BY Division
  <1> HIDE DEF p, r
  <1>2. x - r = p BY <1>1
  <1>3. QED BY <1>2 DEF p, r

(* What bucket_count works out is the number of buckets.                   *)
LEMMA CountIs ==
  ASSUME NEW first \in Nat, NEW last \in Nat, first <= last, last - first < MaxTime,
         NEW s \in Nat \ {0}
  PROVE  B!BucketCount(first, last, s) = last \div s - first \div s + 1
  <1> DEFINE low == first \div s
             high == last \div s
  <1>1. low \in Nat /\ high \in Nat /\ high - low \in 0 .. last - first
    <2>1. low \in Nat /\ high \in Nat BY Division
    <2>2. high - low \in 0 .. last - first BY QuotientsApart
    <2>3. QED BY <2>1, <2>2
  <1> HIDE DEF low, high
  <1>4. s * high - s * low = s * (high - low) /\ high - low \in Nat BY <1>1
  <1>5. (s * (high - low)) \div s = high - low
    <2>1. \A q \in Nat : (s * q) \div s = q
      <3> SUFFICES ASSUME NEW q \in Nat PROVE (s * q) \div s = q
        OBVIOUS
      <3>1. s * q + 0 = s * q OBVIOUS
      <3>2. QED BY <3>1, QuotientIs
    <2>2. QED BY <1>4, <2>1
  <1>6. (high - low + 1) % (MaxTime + 1) = high - low + 1
    <2>1. high - low + 1 \in 0 .. MaxTime BY <1>1, MaxTimeAssumption
    <2>2. QED BY <2>1, MaxTimeAssumption
  <1>7. B!BucketCount(first, last, s) = (high - low + 1) % (MaxTime + 1)
    <2>1. first - (first % s) = s * low /\ last - (last % s) = s * high
      BY AlignedIs DEF low, high
    <2>2. QED BY <1>4, <1>5, <2>1 DEF B!BucketCount
  <1>8. QED BY <1>6, <1>7 DEF low, high

LEMMA RoundedUp ==
  ASSUME NEW x \in Nat, NEW d \in Nat \ {0}
  PROVE  B!DivCeil(x, d) \in Nat /\ x <= d * B!DivCeil(x, d)
  <1> DEFINE y == x + d - 1
  <1>1. y \in Nat OBVIOUS
  <1>2. y \div d \in Nat /\ y % d \in 0 .. d - 1 /\ y = d * (y \div d) + (y % d)
    BY <1>1, Division
  <1>3. d * (y \div d) \in Nat BY <1>2
  <1> HIDE DEF y
  <1>4. y = x + d - 1 BY DEF y
  <1>5. x <= d * (y \div d) BY <1>2, <1>3, <1>4
  <1>6. B!DivCeil(x, d) = y \div d BY DEF B!DivCeil, y
  <1>7. QED BY <1>2, <1>5, <1>6

(* A width of whole samples is no narrower, as far as numbers go.          *)
LEMMA WholeSamplesRoundsUp ==
  ASSUME NEW x \in 0 .. MaxTime, NEW i \in 1 .. MaxTime
  PROVE  B!WholeSamples(x, i) \in 1 .. MaxTime /\ x <= B!WholeSamples(x, i)
  <1> DEFINE q == B!DivCeil(x, i)
  <1>1. q \in Nat /\ x <= i * q BY RoundedUp, MaxTimeAssumption
  <1> HIDE DEF q
  <1>2. q * i = i * q /\ q * i \in Nat BY <1>1, MaxTimeAssumption
  <1>3. B!Saturated(q * i) \in 0 .. MaxTime /\ x <= B!Saturated(q * i)
    BY <1>1, <1>2, MaxTimeAssumption DEF B!Saturated
  <1>4. B!WholeSamples(x, i) = B!AtLeast(B!Saturated(q * i), i) BY DEF B!WholeSamples, q
  <1>5. QED BY <1>3, <1>4, MaxTimeAssumption DEF B!AtLeast

(* Each width tried is wider than the one before, as far as widths go.     *)
LEMMA WiderIsWider ==
  ASSUME NEW s \in 1 .. MaxTime, NEW i \in 1 .. MaxTime
  PROVE  B!Wider(s, i) \in 1 .. MaxTime /\ (s < MaxTime => s < B!Wider(s, i))
  <1> DEFINE q == B!DivCeil(s, 8)
  <1>1. q \in Nat /\ s <= 8 * q BY RoundedUp, MaxTimeAssumption
  <1> HIDE DEF q
  <1>2. q >= 1 BY <1>1, MaxTimeAssumption
  <1>3. /\ B!Saturated(s + q) \in 0 .. MaxTime
        /\ s < MaxTime => s < B!Saturated(s + q)
    BY <1>1, <1>2, MaxTimeAssumption DEF B!Saturated
  <1>4. B!Wider(s, i) = B!WholeSamples(B!Saturated(s + q), i) BY DEF B!Wider, q
  <1>5. QED BY <1>3, <1>4, WholeSamplesRoundsUp, MaxTimeAssumption

(* The width tried first is one.                                           *)
LEMMA FirstStepIsWidth ==
  ASSUME NEW first \in 0 .. MaxTime, NEW last \in 0 .. MaxTime, first <= last,
         NEW points \in Nat \ {0}, NEW i \in 1 .. MaxTime
  PROVE  B!FirstStep(first, last, points, i) \in 1 .. MaxTime
  <1> DEFINE x == B!Saturated(last - first + 1)
             q == B!DivCeil(x, points)
  <1>1. x \in 1 .. MaxTime BY MaxTimeAssumption DEF B!Saturated
  <1> HIDE DEF x
  <1>2. q \in 0 .. MaxTime
    <2> DEFINE z == points - 1
               y == x + z
    <2>1. y \in Nat /\ z \in Nat /\ z < points /\ z <= y /\ y - z = x BY <1>1, MaxTimeAssumption
    <2>2. q = y \div points BY DEF B!DivCeil
    <2> HIDE DEF y, z
    <2>3. y \div points - z \div points \in 0 .. x
      <3>1. y \div points - z \div points \in 0 .. y - z BY <2>1, QuotientsApart
      <3>2. QED BY <2>1, <3>1
    <2>4. z \div points = 0
      <3>1. points * 0 + z = z BY <2>1
      <3>2. QED BY <2>1, <3>1, QuotientIs
    <2>5. y \div points \in Nat BY <2>1, Division
    <2>6. QED BY <1>1, <2>2, <2>3, <2>4, <2>5, MaxTimeAssumption
  <1> HIDE DEF q
  <1>3. B!FirstStep(first, last, points, i) = B!WholeSamples(q, i) BY DEF B!FirstStep, x, q
  <1>4. QED BY <1>2, <1>3, WholeSamplesRoundsUp

(* A recursion that climbs to a stop.                                      *)
Climbs(f, n, stop, next) ==
  /\ f \in [1 .. n -> stop]
  /\ \A s \in 1 .. n : f[s] = IF s \in stop THEN s ELSE f[next[s]]

LEMMA UpwardRecursion ==
  ASSUME NEW n \in Nat, NEW stop \in SUBSET (1 .. n), NEW next \in [1 .. n -> 1 .. n],
         \A s \in (1 .. n) \ stop : s < next[s]
  PROVE  \E f : Climbs(f, n, stop, next)
  <1> DEFINE
    Above(m) == n - m + 1 .. n
    Upto(m) == \E f \in [Above(m) -> stop] :
                 \A s \in Above(m) : f[s] = IF s \in stop THEN s ELSE f[next[s]]
    Good == {m \in Nat : m <= n => Upto(m)}
  <1> HIDE DEF Upto
  <1>1. 0 \in Good
    <2>1. Above(0) = {} OBVIOUS
    <2> DEFINE f == [s \in Above(0) |-> s]
    <2>2. f \in [Above(0) -> stop] BY <2>1
    <2>3. Upto(0) BY <2>1, <2>2 DEF Upto
    <2>4. QED BY <2>3
  <1>2. ASSUME NEW m \in Good PROVE m + 1 \in Good
    <2> SUFFICES ASSUME m + 1 <= n PROVE Upto(m + 1)
      OBVIOUS
    <2>1. PICK f \in [Above(m) -> stop] :
            \A s \in Above(m) : f[s] = IF s \in stop THEN s ELSE f[next[s]]
      BY DEF Upto
    <2> DEFINE new == n - m
               g == [s \in Above(m + 1) |-> IF s # new THEN f[s]
                                            ELSE IF new \in stop THEN new ELSE f[next[new]]]
    <2>2. /\ Above(m + 1) = {new} \cup Above(m) /\ new \notin Above(m) /\ new \in 1 .. n
          /\ Above(m) \subseteq 1 .. n
      OBVIOUS
    <2>3. \A s \in Above(m + 1) : s \notin stop => next[s] \in Above(m)
      OBVIOUS
    <2> HIDE DEF Above, new
    <2>4. g \in [Above(m + 1) -> stop] BY <2>2, <2>3
    <2>5. \A s \in Above(m) : g[s] = f[s] BY <2>2
    <2>6. ASSUME NEW s \in Above(m + 1)
          PROVE  g[s] = IF s \in stop THEN s ELSE g[next[s]]
      <3>1. s \notin stop => g[next[s]] = f[next[s]] BY <2>3, <2>5
      <3>2. CASE s = new BY <2>2, <3>1, <3>2
      <3>3. CASE s # new
        <4>1. s \in Above(m) BY <2>2, <3>3
        <4>2. g[s] = f[s] BY <2>5, <4>1
        <4>3. f[s] = IF s \in stop THEN s ELSE f[next[s]] BY <2>1, <4>1
        <4> HIDE DEF g
        <4>4. QED BY <3>1, <4>2, <4>3
      <3>4. QED BY <3>2, <3>3
    <2> HIDE DEF g
    <2>7. Upto(m + 1) BY <2>4, <2>6 DEF Upto
    <2>8. QED BY <2>7
  <1>3. n \in Good
    <2>1. Good \in SUBSET Nat OBVIOUS
    <2> HIDE DEF Good
    <2>2. QED BY <1>1, <1>2, <2>1, Induction
  <1>4. Above(n) = 1 .. n OBVIOUS
  <1> HIDE DEF Above
  <1>5. PICK f \in [1 .. n -> stop] :
          \A s \in 1 .. n : f[s] = IF s \in stop THEN s ELSE f[next[s]]
    <2>1. Upto(n) BY <1>3
    <2>2. QED BY <1>4, <2>1 DEF Upto
  <1>6. QED BY <1>5 DEF Climbs

(* The width that is chosen gives no more buckets than asked for.          *)
LEMMA StepIsFitting ==
  ASSUME NEW first \in 0 .. MaxTime, NEW last \in 0 .. MaxTime, first <= last,
         last - first < MaxTime, NEW points \in Nat, points >= 2, NEW interval \in 0 .. MaxTime
  PROVE  /\ StepForMaxPoints(first, last, points, interval) \in 1 .. MaxTime
         /\ B!BucketCount(first, last, StepForMaxPoints(first, last, points, interval)) <= points
  <1> DEFINE samples == B!AtLeast(interval, 1)
             wide(s) == B!BucketCount(first, last, s) > B!AtLeast(points, 2)
             stop == {s \in 1 .. MaxTime : ~ wide(s)}
             next == [s \in 1 .. MaxTime |-> B!Wider(s, samples)]
             widens(f) == f = [s \in 1 .. MaxTime |-> IF wide(s) THEN f[B!Wider(s, samples)] ELSE s]
             widen == CHOOSE f : widens(f)
             start == B!FirstStep(first, last, points, samples)
  <1>1. MaxTime \in Nat \ {0} BY MaxTimeAssumption
  <1>2. samples \in 1 .. MaxTime BY <1>1 DEF B!AtLeast
  <1>3. B!AtLeast(points, 2) = points BY DEF B!AtLeast
  <1>4. MaxTime \in stop
    <2>1. B!BucketCount(first, last, MaxTime) = last \div MaxTime - first \div MaxTime + 1
      <3>1. first \in Nat /\ last \in Nat BY <1>1
      <3>2. QED BY <1>1, <3>1, CountIs
    <2>2. last \div MaxTime \in {0, 1}
      <3>1. last = MaxTime * 0 + last /\ last = MaxTime * 1 + (last - MaxTime) BY <1>1
      <3>2. CASE last < MaxTime BY <1>1, <3>1, <3>2, QuotientIs
      <3>3. CASE last = MaxTime
        <4>1. last = MaxTime * 1 + 0 BY <1>1, <3>3
        <4>2. QED BY <1>1, <4>1, QuotientIs
      <3>4. QED BY <1>1, <3>2, <3>3
    <2>3. first \div MaxTime \in Nat BY <1>1, Division
    <2>4. B!BucketCount(first, last, MaxTime) <= 2 BY <2>1, <2>2, <2>3
    <2>5. QED BY <1>1, <1>3, <2>1, <2>2, <2>3, <2>4
  <1> HIDE DEF samples, wide
  <1>5. next \in [1 .. MaxTime -> 1 .. MaxTime] /\ \A s \in (1 .. MaxTime) \ stop : s < next[s]
    <2>1. \A s \in 1 .. MaxTime :
            B!Wider(s, samples) \in 1 .. MaxTime /\ (s < MaxTime => s < B!Wider(s, samples))
      BY <1>2, WiderIsWider
    <2>2. \A s \in (1 .. MaxTime) \ stop : s < MaxTime BY <1>1, <1>4
    <2>3. QED BY <2>1, <2>2
  <1>6. stop \in SUBSET (1 .. MaxTime)
    OBVIOUS
  <1> HIDE DEF stop, next
  <1>7. \E f : widens(f)
    <2>1. PICK f : Climbs(f, MaxTime, stop, next)
      <3>1. MaxTime \in Nat BY <1>1
      <3>2. QED BY <1>5, <1>6, <3>1, UpwardRecursion
    <2>2. \A s \in 1 .. MaxTime :
            f[s] = IF wide(s) THEN f[B!Wider(s, samples)] ELSE s
      BY <2>1 DEF Climbs, stop, next
    <2>3. f = [s \in 1 .. MaxTime |-> IF wide(s) THEN f[B!Wider(s, samples)] ELSE s]
      BY <2>1, <2>2 DEF Climbs
    <2>4. QED BY <2>3
  <1>8. \A s \in 1 .. MaxTime : widen[s] = IF s \in stop THEN s ELSE widen[next[s]]
    <2>1. widens(widen) BY <1>7
    <2> HIDE DEF widen
    <2>2. QED BY <2>1 DEF stop, next
  <1>9. StepForMaxPoints(first, last, points, interval) = widen[start]
    BY <1>3 DEF StepForMaxPoints, samples, wide
  <1>10. start \in 1 .. MaxTime BY <1>2, FirstStepIsWidth
  <1> HIDE DEF widen, start
  <1>11. widen[start] \in stop
    <2> DEFINE Good == {m \in Nat : \A s \in 1 .. MaxTime : MaxTime - s <= m => widen[s] \in stop}
    <2>1. 0 \in Good BY <1>1, <1>4, <1>8
    <2>2. ASSUME NEW m \in Good PROVE m + 1 \in Good
      <3> SUFFICES ASSUME NEW s \in 1 .. MaxTime, MaxTime - s <= m + 1, s \notin stop
                   PROVE  widen[s] \in stop
        BY <1>8
      <3>1. next[s] \in 1 .. MaxTime /\ s < next[s] BY <1>5
      <3>2. MaxTime - next[s] <= m BY <1>1, <3>1
      <3>3. QED BY <1>8, <3>1, <3>2
    <2>3. MaxTime \in Good
      <3>1. Good \in SUBSET Nat OBVIOUS
      <3> HIDE DEF Good
      <3>2. QED BY <1>1, <2>1, <2>2, <3>1, Induction
    <2>4. QED BY <1>1, <1>10, <2>3
  <1>12. widen[start] \in 1 .. MaxTime /\ ~ wide(widen[start]) BY <1>11 DEF stop
  <1>13. B!BucketCount(first, last, widen[start]) \in Int
    <2> DEFINE w == widen[start]
    <2>1. first \in Nat /\ last \in Nat /\ w \in Nat \ {0} BY <1>1, <1>12
    <2> HIDE DEF w
    <2>2. B!BucketCount(first, last, w) = last \div w - first \div w + 1
      BY <2>1, CountIs
    <2>3. last \div w \in Nat /\ first \div w \in Nat BY <2>1, Division
    <2>4. B!BucketCount(first, last, w) \in Int BY <2>2, <2>3
    <2>5. QED BY <2>4 DEF w
  <1>14. QED BY <1>3, <1>9, <1>12, <1>13 DEF wide

-----------------------------------------------------------------------------
(* What a downsampled read gives, case by case.                            *)

RangeStart(from, to) == IndexRange(from, to).start

RangeEnd(from, to) == IndexRange(from, to).end

FirstTime(from, to) == timestamps[Slot(RangeStart(from, to))]

LastTime(from, to) == timestamps[Slot(RangeEnd(from, to) - 1)]

PassEquation(pass, n, start, first, step, columns, blanks) ==
  pass = [k \in 0 .. n |->
           IF k = 0 THEN blanks
           ELSE Take(pass[k - 1], start + k - 1, first, step, columns)]

Blanks(buckets, columns) ==
  [result |-> [b \in 0 .. buckets - 1 |-> [c \in DOMAIN columns |-> NothingYet]],
   running |-> [c \in DOMAIN columns |-> NothingYet], current |-> 0]

EndOfPass(from, to, columns, step, buckets) ==
  LET n == RangeEnd(from, to) - RangeStart(from, to)
      pass == CHOOSE p : PassEquation(p, n, RangeStart(from, to),
                                      FirstTime(from, to) - (FirstTime(from, to) % step),
                                      step, columns, Blanks(buckets, columns))
  IN  pass[n]

LEMMA DownsampleGives ==
  ASSUME NEW from, NEW to, NEW columns, NEW stepMs, NEW step, step = B!AtLeast(stepMs, 1),
         NEW buckets, buckets = B!BucketCount(FirstTime(from, to), LastTime(from, to), step)
  PROVE  LET got == Downsample(from, to, columns, stepMs)
             end == EndOfPass(from, to, columns, step, buckets)
             firstBucket == FirstTime(from, to) - (FirstTime(from, to) % step)
         IN  /\ RangeStart(from, to) >= RangeEnd(from, to) =>
                  got = [ok |-> TRUE, step |-> step, timestamps |-> << >>, cells |-> << >>]
             /\ ~ (RangeStart(from, to) >= RangeEnd(from, to)) /\ buckets > MaxBuckets =>
                  got = [ok |-> FALSE, buckets |-> buckets]
             /\ ~ (RangeStart(from, to) >= RangeEnd(from, to)) /\ ~ (buckets > MaxBuckets) =>
                  got = [ok |-> TRUE, step |-> step,
                         timestamps |-> [b \in 1 .. buckets |-> firstBucket + (b - 1) * step],
                         cells |-> [b \in 1 .. buckets |->
                           IF b - 1 = end.current THEN end.running ELSE end.result[b - 1]]]
  <1>1. CASE RangeStart(from, to) >= RangeEnd(from, to)
    BY <1>1 DEF Downsample, RangeStart, RangeEnd
  <1>2. CASE ~ (RangeStart(from, to) >= RangeEnd(from, to))
    <2> DEFINE got == Downsample(from, to, columns, stepMs)
               wide == B!AtLeast(stepMs, 1)
               many == B!BucketCount(FirstTime(from, to), LastTime(from, to), wide)
               end == EndOfPass(from, to, columns, wide, many)
               firstBucket == FirstTime(from, to) - (FirstTime(from, to) % wide)
    <2>1. got = IF many > MaxBuckets THEN [ok |-> FALSE, buckets |-> many]
                ELSE [ok |-> TRUE, step |-> wide,
                      timestamps |-> [b \in 1 .. many |-> firstBucket + (b - 1) * wide],
                      cells |-> [b \in 1 .. many |->
                        IF b - 1 = end.current THEN end.running ELSE end.result[b - 1]]]
      BY <1>2 DEF Downsample, PassEquation, Blanks, EndOfPass, FirstTime, LastTime, RangeStart, RangeEnd
    <2>2. wide = step /\ many = buckets OBVIOUS
    <2>3. end = EndOfPass(from, to, columns, step, buckets) BY <2>2
    <2> HIDE DEF got, wide, many, end
    <2>4. QED BY <1>2, <2>1, <2>2, <2>3 DEF got
  <1>3. QED BY <1>1, <1>2

(* The ends of a range that is not empty.                                  *)
LEMMA EndsOfRange ==
  ASSUME RingInv, NEW from \in Limits, NEW to \in Limits,
         ~ (RangeStart(from, to) >= RangeEnd(from, to))
  PROVE  /\ RangeStart(from, to) + 1 \in 1 .. len /\ RangeEnd(from, to) \in 1 .. len
         /\ RangeStart(from, to) \in Nat
         /\ RangeStart(from, to) + 1 <= RangeEnd(from, to)
         /\ FirstTime(from, to) = Records[RangeStart(from, to) + 1].t
         /\ LastTime(from, to) = Records[RangeEnd(from, to)].t
         /\ FirstTime(from, to) \in 0 .. MaxTime /\ LastTime(from, to) \in 0 .. MaxTime
         /\ FirstTime(from, to) <= LastTime(from, to)
         /\ LastTime(from, to) - FirstTime(from, to) < MaxTime
  <1> DEFINE start == RangeStart(from, to)
             end == RangeEnd(from, to)
             place == start + 1
  <1>1. len \in Nat /\ start \in 0 .. len /\ end \in start .. len
    BY RangeIs, CapacityAssumption DEF RingInv, TypeOK, RangeStart, RangeEnd
  <1>2. ~ (start >= end) OBVIOUS
  <1> HIDE DEF start, end
  <1>3. place \in 1 .. len /\ end \in 1 .. len /\ place <= end /\ place - 1 = start
    BY <1>1, <1>2
  <1> HIDE DEF place
  <1>4. /\ Records[place].t = timestamps[Slot(place - 1)]
        /\ Records[place].t \in Stamps /\ Records[place].t \in 0 .. MaxTime
    BY <1>3, RecordIs
  <1>5. /\ Records[end].t = timestamps[Slot(end - 1)]
        /\ Records[end].t \in Stamps /\ Records[end].t \in 0 .. MaxTime
    BY <1>3, RecordIs
  <1>6. Records[place].t <= Records[end].t
    <2>1. CASE place = end BY <1>4, <2>1, MaxTimeAssumption
    <2>2. CASE place < end
      <3>1. Records[place].t < Records[end].t BY <1>3, <2>2 DEF RingInv, InTimeOrder
      <3>2. QED BY <1>4, <1>5, <3>1, MaxTimeAssumption
    <2>3. QED BY <1>1, <1>3, <2>1, <2>2
  <1>7. Records[end].t - Records[place].t < MaxTime BY <1>4, <1>5, SpanAssumption
  <1>8. FirstTime(from, to) = Records[place].t /\ LastTime(from, to) = Records[end].t
    BY <1>3, <1>4, <1>5 DEF FirstTime, LastTime, start, end
  <1>9. start \in Nat BY <1>1
  <1>10. QED BY <1>3, <1>4, <1>5, <1>6, <1>7, <1>8, <1>9 DEF start, end, place

-----------------------------------------------------------------------------
(* Reads of a number of points.                                            *)

LEMMA MaxPointsAreKept == RingInv => MaxPointsIsKept
  <1> SUFFICES ASSUME RingInv, NEW from \in Limits, NEW to \in Limits, NEW points \in 2 .. MaxBuckets
               PROVE  LET got == AnswerMaxPoints(from, to, Columns, points)
                      IN  got.ok /\ Len(got.timestamps) <= points
    BY DEF MaxPointsIsKept
  <1> DEFINE first == FirstTime(from, to)
             last == LastTime(from, to)
             ends == Bounds(from, to)
             stepMs == IF ends = << >> THEN B!AtLeast(Interval, 1)
                       ELSE StepForMaxPoints(ends[1], ends[2], points, Interval)
             got == Downsample(from, to, Columns, stepMs)
             buckets == B!BucketCount(first, last, stepMs)
  <1>1. AnswerMaxPoints(from, to, Columns, points) = got BY DEF AnswerMaxPoints
  <1>2. points \in Nat /\ points >= 2 /\ points <= MaxBuckets /\ MaxBuckets \in Nat
    BY MaxBucketsAssumption
  <1>3. CASE RangeStart(from, to) >= RangeEnd(from, to)
    <2> HIDE DEF stepMs
    <2>1. got.ok /\ got.timestamps = << >> BY <1>3, DownsampleGives
    <2>2. QED BY <1>1, <1>2, <2>1
  <1>4. CASE ~ (RangeStart(from, to) >= RangeEnd(from, to))
    <2>1. first \in 0 .. MaxTime /\ last \in 0 .. MaxTime /\ first <= last /\ last - first < MaxTime
      BY <1>4, EndsOfRange
    <2>2. ends = <<first, last>>
      BY <1>4 DEF Bounds, FirstTime, LastTime, RangeStart, RangeEnd
    <2>3. stepMs = StepForMaxPoints(first, last, points, Interval) BY <2>2
    <2> HIDE DEF first, last, ends, stepMs
    <2>4. stepMs \in 1 .. MaxTime /\ B!BucketCount(first, last, stepMs) <= points
      BY <1>2, <2>1, <2>3, StepIsFitting, IntervalAssumption
    <2>5. B!AtLeast(stepMs, 1) = stepMs BY <2>4, MaxTimeAssumption DEF B!AtLeast
    <2>6. buckets \in Nat /\ buckets <= points
      <3>1. first \in Nat /\ last \in Nat /\ stepMs \in Nat \ {0}
        BY <2>1, <2>4, MaxTimeAssumption
      <3>2. buckets = last \div stepMs - first \div stepMs + 1 BY <2>1, <3>1, CountIs
      <3>3. /\ last \div stepMs - first \div stepMs \in 0 .. last - first
            /\ last \div stepMs \in Nat /\ first \div stepMs \in Nat
        BY <2>1, <3>1, QuotientsApart, Division
      <3>4. buckets <= points BY <2>4
      <3>5. QED BY <3>2, <3>3, <3>4
    <2>7. buckets = B!BucketCount(FirstTime(from, to), LastTime(from, to), stepMs)
      BY DEF first, last
    <2> HIDE DEF buckets
    <2>8. ~ (buckets > MaxBuckets) BY <1>2, <2>6
    <2>9. /\ got.ok
          /\ got.timestamps = [b \in 1 .. buckets |-> first - (first % stepMs) + (b - 1) * stepMs]
      <3> DEFINE end == EndOfPass(from, to, Columns, stepMs, buckets)
                 firstBucket == FirstTime(from, to) - (FirstTime(from, to) % stepMs)
      <3>1. stepMs = B!AtLeast(stepMs, 1) BY <2>5
      <3>2. got = [ok |-> TRUE, step |-> stepMs,
                   timestamps |-> [b \in 1 .. buckets |-> firstBucket + (b - 1) * stepMs],
                   cells |-> [b \in 1 .. buckets |->
                     IF b - 1 = end.current THEN end.running ELSE end.result[b - 1]]]
        BY <1>4, <2>7, <2>8, <3>1, DownsampleGives
      <3> HIDE DEF got, end
      <3>3. QED BY <3>2 DEF first
    <2> HIDE DEF got
    <2>10. Len(got.timestamps) = buckets
      <3> DEFINE times == got.timestamps
      <3>1. times = [b \in 1 .. buckets |-> times[b]] BY <2>9
      <3> HIDE DEF times
      <3>2. Len(times) = buckets BY <2>6, <3>1, LengthOfTuple
      <3>3. QED BY <3>2 DEF times
    <2>11. QED BY <1>1, <2>6, <2>9, <2>10
  <1>5. QED BY <1>3, <1>4

(* A read with max_points is never refused and never gives more buckets    *)
(* than were asked for: the search for a width ends, and at one that fits. *)
THEOREM ReadsKeepMaxPoints == Spec => []MaxPointsIsKept
  BY RingInvariant, MaxPointsAreKept, PTL

(* The totals of a bucket.                                                 *)

Run == [sum : Int, count : Nat, min : Int, max : Int]

Totals(cell, places, column) ==
  /\ cell \in Run
  /\ IsSummary(cell, places, column)
  /\ places = {} => cell = NothingYet

LEMMA NothingIsTotals ==
  ASSUME NEW column
  PROVE  Totals(NothingYet, {}, column)
  <1>1. Infinity \in Int BY FiniteAssumption
  <1>2. Cardinality({}) = 0 BY FS_EmptySet
  <1> DEFINE value == [i \in 1 .. len |-> Measure(i, column)]
  <1>3. SumFunctionOnSet(value, {}) = 0
    <2>1. IsFiniteSet({}) BY FS_EmptySet
    <2> HIDE DEF value
    <2>2. QED BY <2>1, SumByFirst
  <1>4. QED BY <1>1, <1>2, <1>3 DEF Totals, Run, NothingYet, IsSummary

(* Adding a value to the totals of some places gives those of one more.    *)
LEMMA AddIsTotals ==
  ASSUME NEW places \in SUBSET (1 .. len), len \in Nat, NEW i \in (1 .. len) \ places, NEW column,
         \A p \in places \cup {i} : Measure(p, column) \in (1 - Infinity) .. (Infinity - 1),
         Measure(i, column) \notin NotFinite,
         NEW cell, Totals(cell, places, column)
  PROVE  Totals(Add(cell, Measure(i, column)), places \cup {i}, column)
  <1> DEFINE value == [p \in 1 .. len |-> Measure(p, column)]
             v == Measure(i, column)
             all == places \cup {i}
             next == Add(cell, v)
  <1>1. /\ next.sum = cell.sum + v /\ next.count = cell.count + 1
        /\ next.min = IF v < cell.min THEN v ELSE cell.min
        /\ next.max = IF v > cell.max THEN v ELSE cell.max
        /\ next = [sum |-> next.sum, count |-> next.count, min |-> next.min, max |-> next.max]
    BY DEF Add
  <1>2. /\ cell.sum \in Int /\ cell.count \in Nat /\ cell.min \in Int /\ cell.max \in Int
        /\ v \in Int /\ Infinity \in Nat /\ v < Infinity /\ -Infinity < v
    BY FiniteAssumption DEF Totals, Run
  <1>3. next \in Run BY <1>1, <1>2 DEF Run
  <1>4. /\ cell.count = Cardinality(places) /\ cell.sum = SumFunctionOnSet(value, places)
        /\ places # {} =>
             /\ \E p \in places : cell.min = value[p]
             /\ \E p \in places : cell.max = value[p]
             /\ \A p \in places : cell.min <= value[p] /\ value[p] <= cell.max
        /\ places = {} => cell.min = Infinity /\ cell.max = -Infinity
    <2>1. IsSummary(cell, places, column) BY DEF Totals
    <2>2. places = {} => cell.min = Infinity /\ cell.max = -Infinity
      BY DEF Totals, NothingYet
    <2> HIDE DEF value
    <2>3. QED BY <2>1, <2>2 DEF IsSummary, value
  <1>5. \A p \in all : value[p] \in Int BY FiniteAssumption
  <1>6. value[i] = v OBVIOUS
  <1>7. IsFiniteSet(places) /\ IsFiniteSet(all) /\ Cardinality(all) = Cardinality(places) + 1
    <2>1. IsFiniteSet(1 .. len) BY FS_Interval
    <2>2. IsFiniteSet(places) BY <2>1, FS_Subset
    <2>3. QED BY <2>2, FS_AddElement
  <1>8. SumFunctionOnSet(value, all) = SumFunctionOnSet(value, places) + v
    <2>1. all \ {i} = places /\ i \in all OBVIOUS
    <2> HIDE DEF value, all
    <2>2. IsFiniteSet(all) BY <1>7
    <2>3. \A x \in all : SumFunctionOnSet(value, all) = SumFunctionOnSet(value, all \ {x}) + value[x]
      BY <1>5, <2>2, SumOfElement
    <2>4. QED BY <1>6, <2>1, <2>3
  <1> HIDE DEF value, v, next
  <1>9. /\ \E p \in all : next.min = value[p]
        /\ \A p \in all : next.min <= value[p]
    <2>1. CASE v < cell.min BY <1>1, <1>2, <1>4, <1>5, <1>6, <2>1
    <2>2. CASE ~ (v < cell.min)
      <3>1. places # {} BY <1>2, <1>4, <2>2
      <3>2. QED BY <1>1, <1>2, <1>4, <1>5, <1>6, <2>2, <3>1
    <2>3. QED BY <2>1, <2>2
  <1>10. /\ \E p \in all : next.max = value[p]
         /\ \A p \in all : value[p] <= next.max
    <2>1. CASE v > cell.max BY <1>1, <1>2, <1>4, <1>5, <1>6, <2>1
    <2>2. CASE ~ (v > cell.max)
      <3>1. places # {} BY <1>2, <1>4, <2>2
      <3>2. QED BY <1>1, <1>2, <1>4, <1>5, <1>6, <2>2, <3>1
    <2>3. QED BY <2>1, <2>2
  <1>11. IsSummary(next, all, column)
    BY <1>1, <1>4, <1>7, <1>8, <1>9, <1>10 DEF IsSummary, value
  <1>12. QED BY <1>3, <1>11 DEF Totals, next, v

(* The finite values of a column that is asked for.                        *)
LEMMA FiniteMeasure ==
  ASSUME RingInv, NEW i \in 1 .. len, NEW c \in DOMAIN Columns,
         Measure(i, Columns[c]) \notin NotFinite
  PROVE  Measure(i, Columns[c]) \in (1 - Infinity) .. (Infinity - 1)
  <1>1. Records[i].row \in Seq(Values) /\ Len(Records[i].row) = Width
    BY RecordIs, OfferedAssumption DEF Fitting
  <1>2. Width \in Nat BY <1>1
  <1>3. Columns[c] \in 0 .. Width BY <1>2 DEF Columns
  <1>4. Columns[c] < Width BY FiniteAssumption DEF Measure
  <1>5. Columns[c] + 1 \in 1 .. Width BY <1>2, <1>3, <1>4
  <1>6. Records[i].row[Columns[c] + 1] \in Values BY <1>1, <1>5
  <1>7. QED BY <1>4, <1>6, FiniteAssumption DEF Measure

(* The pass adds integers only.                                            *)
LEMMA FiniteCell ==
  ASSUME RingInv, NEW start \in Nat, NEW k \in Nat \ {0}, start + k \in 1 .. len,
         NEW c \in DOMAIN Columns
  PROVE  /\ Cell(start + k - 1, Columns[c]) = Measure(start + k, Columns[c])
         /\ Cell(start + k - 1, Columns[c]) \notin NotFinite
              => Cell(start + k - 1, Columns[c]) \in Int
  <1> DEFINE p == start + k
  <1>1. p \in 1 .. len /\ p - 1 = start + k - 1 OBVIOUS
  <1> HIDE DEF p
  <1>2. Cell(p - 1, Columns[c]) = Measure(p, Columns[c]) BY <1>1, CellIsMeasure
  <1>3. Measure(p, Columns[c]) \notin NotFinite => Measure(p, Columns[c]) \in Int
    BY <1>1, FiniteMeasure, FiniteAssumption
  <1>4. QED BY <1>1, <1>2, <1>3 DEF p

-----------------------------------------------------------------------------
(* The pass over the records.                                              *)

PassStates(buckets, columns) ==
  [result : [0 .. buckets - 1 -> [DOMAIN columns -> Run]],
   running : [DOMAIN columns -> Run],
   current : 0 .. buckets - 1]

(* What the bucket b has for the column c so far.                          *)
SoFar(state, b, c) == IF b = state.current THEN state.running[c] ELSE state.result[b][c]

LEMMA AddIsRun ==
  ASSUME NEW run \in Run, NEW value, value \notin NotFinite => value \in Int
  PROVE  Add(run, value) \in Run
  BY DEF Add, Run

LEMMA NothingIsRun == NothingYet \in Run
  BY FiniteAssumption DEF NothingYet, Run

(* One record of the pass changes only what its own bucket has.            *)
LEMMA TakeIs ==
  ASSUME NEW buckets \in Nat \ {0}, NEW columns, NEW state \in PassStates(buckets, columns),
         NEW i, NEW first, NEW step, NEW bucket \in 0 .. buckets - 1,
         bucket = (timestamps[Slot(i)] - first) \div step,
         \A c \in DOMAIN columns : Cell(i, columns[c]) \notin NotFinite => Cell(i, columns[c]) \in Int
  PROVE  LET next == Take(state, i, first, step, columns) IN
         /\ next \in PassStates(buckets, columns)
         /\ next.current = bucket
         /\ \A c \in DOMAIN columns :
              /\ SoFar(next, bucket, c)
                   = Add(IF bucket = state.current THEN SoFar(state, bucket, c) ELSE NothingYet,
                         Cell(i, columns[c]))
              /\ \A b \in (0 .. buckets - 1) \ {bucket} : SoFar(next, b, c) = SoFar(state, b, c)
  <1> DEFINE same == bucket = state.current
             next == Take(state, i, first, step, columns)
             stored == IF same THEN state.result
                       ELSE [state.result EXCEPT ![state.current] = state.running]
             run(c) == IF same THEN state.running[c] ELSE NothingYet
             added == [c \in DOMAIN columns |-> Add(run(c), Cell(i, columns[c]))]
  <1>1. /\ state.result \in [0 .. buckets - 1 -> [DOMAIN columns -> Run]]
        /\ state.running \in [DOMAIN columns -> Run]
        /\ state.current \in 0 .. buckets - 1
        /\ state = [result |-> state.result, running |-> state.running, current |-> state.current]
    BY DEF PassStates
  <1>2. next = [result |-> stored, running |-> added, current |-> bucket]
    <2>1. CASE same BY <1>1, <2>1 DEF Take
    <2>2. CASE ~ same
      <3> DEFINE blank == [c \in DOMAIN columns |-> NothingYet]
      <3>1. next = [result |-> stored,
                    running |-> [c \in DOMAIN columns |-> Add(blank[c], Cell(i, columns[c]))],
                    current |-> bucket]
        <4> DEFINE mid == [result |-> stored, running |-> blank, current |-> bucket]
                   taken == [c \in DOMAIN columns |-> Add(mid.running[c], Cell(i, columns[c]))]
        <4>1. next = [mid EXCEPT !.running = taken] BY <2>2 DEF Take
        <4>2. taken = [c \in DOMAIN columns |-> Add(blank[c], Cell(i, columns[c]))] OBVIOUS
        <4> HIDE DEF stored, blank, taken, next
        <4>3. [mid EXCEPT !.running = taken]
                = [result |-> stored, running |-> taken, current |-> bucket]
          OBVIOUS
        <4>4. QED BY <4>1, <4>2, <4>3
      <3>2. [c \in DOMAIN columns |-> Add(blank[c], Cell(i, columns[c]))] = added BY <2>2
      <3>3. QED BY <3>1, <3>2
    <2>3. QED BY <2>1, <2>2
  <1>3. stored \in [0 .. buckets - 1 -> [DOMAIN columns -> Run]] BY <1>1
  <1>4. added \in [DOMAIN columns -> Run]
    <2>1. ASSUME NEW c \in DOMAIN columns PROVE Add(run(c), Cell(i, columns[c])) \in Run
      <3>1. run(c) \in Run BY <1>1, NothingIsRun
      <3> HIDE DEF run
      <3>2. QED BY <3>1, AddIsRun
    <2>2. QED BY <2>1
  <1>5. next \in PassStates(buckets, columns) BY <1>2, <1>3, <1>4 DEF PassStates
  <1>6. next.current = bucket BY <1>2
  <1>7. ASSUME NEW c \in DOMAIN columns
        PROVE  SoFar(next, bucket, c) = Add(IF same THEN SoFar(state, bucket, c) ELSE NothingYet,
                                           Cell(i, columns[c]))
    <2>1. SoFar(next, bucket, c) = Add(run(c), Cell(i, columns[c])) BY <1>2 DEF SoFar
    <2>2. run(c) = IF same THEN SoFar(state, bucket, c) ELSE NothingYet BY DEF SoFar
    <2>3. QED BY <2>1, <2>2
  <1>8. ASSUME NEW c \in DOMAIN columns, NEW b \in (0 .. buckets - 1) \ {bucket}
        PROVE  SoFar(next, b, c) = SoFar(state, b, c)
    <2>1. SoFar(next, b, c) = stored[b][c] BY <1>2 DEF SoFar
    <2>2. stored[b][c] = SoFar(state, b, c) BY <1>1 DEF SoFar
    <2>3. QED BY <2>1, <2>2
  <1>9. QED BY <1>5, <1>6, <1>7, <1>8

(* The bucket of a time, counted from that of the first.                   *)
LEMMA BucketOfTime ==
  ASSUME NEW first \in Nat, NEW x \in Nat, first <= x, NEW s \in Nat \ {0}
  PROVE  /\ (x - (first - (first % s))) \div s = x \div s - first \div s
         /\ x \div s - first \div s \in Nat
  <1> DEFINE low == first \div s
             high == x \div s
             r == x % s
  <1>1. low \in Nat /\ high \in Nat /\ r \in 0 .. s - 1 BY Division
  <1>2. high - low \in Nat
    <2>1. high - low \in 0 .. x - first BY QuotientsApart
    <2>2. QED BY <2>1
  <1>3. first - (first % s) = s * low BY AlignedIs
  <1>4. x = s * high + r BY Division
  <1> HIDE DEF low, high, r
  <1>5. x - s * low = s * (high - low) + r
    <2>1. s * high = s * low + s * (high - low) BY <1>1, <1>2
    <2> DEFINE p == s * low
               q == s * (high - low)
    <2>2. p \in Nat /\ q \in Nat /\ x = p + q + r BY <1>1, <1>2, <1>4, <2>1
    <2> HIDE DEF p, q
    <2>3. x - p = q + r BY <1>1, <2>2
    <2>4. QED BY <2>3 DEF p, q
  <1>6. (s * (high - low) + r) \div s = high - low
    <2> DEFINE d == high - low
    <2>1. d \in Nat /\ r \in Nat /\ r < s BY <1>1, <1>2
    <2> HIDE DEF d
    <2>2. (s * d + r) \div s = d BY <2>1, QuotientIs
    <2>3. QED BY <2>2 DEF d
  <1>7. QED BY <1>2, <1>3, <1>5, <1>6 DEF low, high

(* The times of a bucket.                                                  *)
LEMMA TimesOfBucket ==
  ASSUME NEW x \in Nat, NEW q \in Nat, NEW s \in Nat \ {0}
  PROVE  x \div s = q <=> s * q <= x /\ x < s * q + s
  <1>1. x \div s = q => s * q <= x /\ x < s * q + s
    <2>1. x = s * (x \div s) + (x % s) /\ x % s \in 0 .. s - 1 BY Division
    <2>2. s * q \in Nat OBVIOUS
    <2>3. QED BY <2>1, <2>2
  <1>2. s * q <= x /\ x < s * q + s => x \div s = q
    <2> SUFFICES ASSUME s * q <= x, x < s * q + s PROVE x \div s = q
      OBVIOUS
    <2> DEFINE p == s * q
               r == x - p
    <2>1. p \in Nat OBVIOUS
    <2> HIDE DEF p
    <2>2. p <= x /\ x < p + s BY DEF p
    <2>3. r \in Nat /\ r < s /\ x = p + r BY <2>1, <2>2
    <2> HIDE DEF r
    <2>4. (s * q + r) \div s = q BY <2>3, QuotientIs
    <2>5. QED BY <2>3, <2>4 DEF p
  <1>3. QED BY <1>1, <1>2

(* A pass over n records from the place after start.                       *)
IsPass(start, n, first, step, buckets) ==
  /\ start \in Nat /\ n \in Nat \ {0} /\ start + n <= len
  /\ step \in Nat \ {0} /\ first = Records[start + 1].t
  /\ buckets = Records[start + n].t \div step - first \div step + 1

BucketOf(p, first, step) == Records[p].t \div step - first \div step

(* The places that are summed up in bucket b after k records.              *)
Taken(start, k, b, c, first, step) ==
  {p \in start + 1 .. start + k :
     BucketOf(p, first, step) = b /\ Measure(p, Columns[c]) \notin NotFinite}

(* Records in later places are no older.                                   *)
LEMMA TimesInOrder ==
  ASSUME RingInv, NEW i \in 1 .. len, NEW j \in i .. len
  PROVE  /\ Records[i].t \in Nat /\ Records[j].t \in Nat
         /\ Records[i].t <= Records[j].t
  <1>1. len \in Nat BY CapacityAssumption DEF RingInv, TypeOK
  <1>2. j \in 1 .. len BY <1>1
  <1>3. Records[i].t \in Nat /\ Records[j].t \in Nat BY <1>2, RecordIs, MaxTimeAssumption
  <1>4. CASE i = j BY <1>3, <1>4
  <1>5. CASE i < j BY <1>2, <1>3, <1>5 DEF RingInv, InTimeOrder
  <1>6. QED BY <1>1, <1>4, <1>5

(* The buckets of a pass go from the first to the last, in order.          *)
LEMMA BucketsOfPass ==
  ASSUME RingInv, NEW start, NEW n, NEW first, NEW step, NEW buckets,
         IsPass(start, n, first, step, buckets)
  PROVE  /\ buckets \in Nat \ {0}
         /\ BucketOf(start + 1, first, step) = 0
         /\ \A k \in 1 .. n :
              /\ start + k \in 1 .. len
              /\ BucketOf(start + k, first, step) \in 0 .. buckets - 1
              /\ BucketOf(start + k, first, step)
                   = (timestamps[Slot(start + k - 1)] - (first - (first % step))) \div step
         /\ \A p \in start + 1 .. start + n : \A q \in p .. start + n :
              BucketOf(p, first, step) <= BucketOf(q, first, step)
  <1>1. /\ start \in Nat /\ n \in Nat \ {0} /\ start + n <= len
        /\ step \in Nat \ {0} /\ first = Records[start + 1].t
        /\ buckets = Records[start + n].t \div step - first \div step + 1
        /\ len \in Nat
    BY CapacityAssumption DEF IsPass, RingInv, TypeOK
  <1>2. ASSUME NEW p \in start + 1 .. start + n
        PROVE  /\ p \in 1 .. len /\ Records[p].t \in Nat /\ first \in Nat /\ first <= Records[p].t
               /\ BucketOf(p, first, step) \in Nat
               /\ BucketOf(p, first, step) = (Records[p].t - (first - (first % step))) \div step
    <2> DEFINE i == start + 1
    <2>1. i \in 1 .. len /\ p \in i .. len BY <1>1
    <2> HIDE DEF i
    <2>2. Records[i].t \in Nat /\ Records[p].t \in Nat /\ Records[i].t <= Records[p].t
      BY <2>1, TimesInOrder
    <2>3. first = Records[i].t BY <1>1 DEF i
    <2> DEFINE x == Records[p].t
    <2>4. x \in Nat /\ first \in Nat /\ first <= x BY <2>2, <2>3
    <2> HIDE DEF x
    <2>5. /\ (x - (first - (first % step))) \div step = x \div step - first \div step
          /\ x \div step - first \div step \in Nat
      BY <1>1, <2>4, BucketOfTime
    <2>6. p \in 1 .. len BY <1>1
    <2>7. QED BY <2>4, <2>5, <2>6 DEF BucketOf, x
  <1>3. ASSUME NEW p \in start + 1 .. start + n, NEW q \in p .. start + n
        PROVE  BucketOf(p, first, step) <= BucketOf(q, first, step)
    <2>1. p \in 1 .. len /\ q \in p .. len /\ q \in start + 1 .. start + n BY <1>1
    <2> DEFINE x == Records[p].t
               y == Records[q].t
    <2>2. x \in Nat /\ y \in Nat /\ x <= y BY <2>1, TimesInOrder
    <2>3. first \in Nat BY <1>2
    <2> HIDE DEF x, y
    <2>4. x \div step <= y \div step BY <1>1, <2>2, QuotientGrows
    <2>5. x \div step \in Nat /\ y \div step \in Nat /\ first \div step \in Nat
      BY <1>1, <2>2, <2>3, Division
    <2>6. x \div step - first \div step <= y \div step - first \div step BY <2>4, <2>5
    <2>7. QED BY <2>6 DEF BucketOf, x, y
  <1>4. BucketOf(start + 1, first, step) = 0
    <2>1. start + 1 \in start + 1 .. start + n BY <1>1
    <2>2. first \in Nat BY <1>2, <2>1
    <2>3. first \div step \in Nat BY <1>1, <2>2, Division
    <2>4. BucketOf(start + 1, first, step) = first \div step - first \div step BY <1>1 DEF BucketOf
    <2>5. QED BY <2>3, <2>4
  <1>5. buckets = BucketOf(start + n, first, step) + 1 /\ start + n \in start + 1 .. start + n
    BY <1>1 DEF BucketOf
  <1>6. buckets \in Nat \ {0} BY <1>2, <1>5
  <1>7. ASSUME NEW k \in 1 .. n
        PROVE  /\ start + k \in 1 .. len
               /\ BucketOf(start + k, first, step) \in 0 .. buckets - 1
               /\ BucketOf(start + k, first, step)
                    = (timestamps[Slot(start + k - 1)] - (first - (first % step))) \div step
    <2> DEFINE p == start + k
    <2>1. p \in start + 1 .. start + n /\ start + n \in p .. start + n BY <1>1
    <2>2. p - 1 = start + k - 1 BY <1>1
    <2> HIDE DEF p
    <2>3. BucketOf(p, first, step) \in 0 .. buckets - 1
      <3>1. BucketOf(p, first, step) <= BucketOf(start + n, first, step) BY <1>3, <2>1
      <3>2. BucketOf(p, first, step) \in Nat /\ BucketOf(start + n, first, step) \in Nat
        BY <1>2, <1>5, <2>1
      <3>3. QED BY <1>5, <3>1, <3>2
    <2>4. Records[p].t = timestamps[Slot(p - 1)] BY <1>2, <2>1, RecordIs
    <2>5. QED BY <1>2, <2>1, <2>2, <2>3, <2>4 DEF p
  <1>8. QED BY <1>3, <1>4, <1>6, <1>7

(* The pass can be made: the state it passes on is always one.             *)
LEMMA PassExists ==
  ASSUME RingInv, NEW start, NEW n, NEW first, NEW step, NEW buckets,
         IsPass(start, n, first, step, buckets)
  PROVE  \E pass : PassEquation(pass, n, start, first - (first % step), step, Columns,
                                Blanks(buckets, Columns))
  <1> DEFINE S == PassStates(buckets, Columns)
             g == [p \in (1 .. n) \X S |->
                    Take(p[2], start + p[1] - 1, first - (first % step), step, Columns)]
             base == Blanks(buckets, Columns)
  <1>1. buckets \in Nat \ {0} BY BucketsOfPass
  <1>2. base \in S BY <1>1, NothingIsRun DEF Blanks, PassStates
  <1>3. n \in Nat /\ start \in Nat BY DEF IsPass
  <1>4. g \in [(1 .. n) \X S -> S]
    <2>1. ASSUME NEW k \in 1 .. n, NEW state \in S
          PROVE  Take(state, start + k - 1, first - (first % step), step, Columns) \in S
      <3> DEFINE bucket == BucketOf(start + k, first, step)
                 i == start + k - 1
                 origin == first - (first % step)
      <3>1. /\ bucket \in 0 .. buckets - 1
            /\ bucket = (timestamps[Slot(i)] - origin) \div step
            /\ start + k \in 1 .. len
        BY BucketsOfPass
      <3>2. \A c \in DOMAIN Columns :
              Cell(i, Columns[c]) \notin NotFinite => Cell(i, Columns[c]) \in Int
        <4>1. k \in Nat \ {0} BY <1>3
        <4>2. QED BY <1>3, <3>1, <4>1, FiniteCell
      <3> HIDE DEF bucket, i, origin
      <3>3. Take(state, i, origin, step, Columns) \in S BY <1>1, <3>1, <3>2, TakeIs
      <3>4. QED BY <3>3 DEF i, origin
    <2>2. QED BY <2>1
  <1> HIDE DEF S, g, base
  <1>5. PICK pass : Recurs(pass, S, n, base, g)
    BY <1>2, <1>3, <1>4, Recursion
  <1>6. \A k \in 0 .. n :
          pass[k] = IF k = 0 THEN base
                    ELSE Take(pass[k - 1], start + k - 1, first - (first % step), step, Columns)
    <2>1. pass[0] = base BY <1>3, <1>5 DEF Recurs
    <2>2. ASSUME NEW k \in 1 .. n
          PROVE  pass[k] = Take(pass[k - 1], start + k - 1, first - (first % step), step, Columns)
      <3>1. k \in 0 .. n /\ k # 0 /\ k - 1 \in 0 .. n BY <1>3
      <3>2. pass[k - 1] \in S BY <1>5, <3>1 DEF Recurs
      <3>3. pass[k] = g[<<k, pass[k - 1]>>] BY <1>5, <3>1 DEF Recurs
      <3>4. QED BY <3>2, <3>3 DEF g
    <2>3. QED BY <1>3, <2>1, <2>2
  <1>7. PassEquation(pass, n, start, first - (first % step), step, Columns, base)
    BY <1>5, <1>6 DEF PassEquation, Recurs
  <1>8. QED BY <1>7 DEF base

(* After the pass a bucket has the totals of the records that are in it.   *)
LEMMA TotalsOfPass ==
  ASSUME RingInv, NEW start, NEW n, NEW first, NEW step, NEW buckets,
         IsPass(start, n, first, step, buckets),
         NEW pass, PassEquation(pass, n, start, first - (first % step), step, Columns,
                                Blanks(buckets, Columns))
  PROVE  \A b \in 0 .. buckets - 1 : \A c \in DOMAIN Columns :
           Totals(SoFar(pass[n], b, c), Taken(start, n, b, c, first, step), Columns[c])
  <1> DEFINE
    Has(k, b, c) == Totals(SoFar(pass[k], b, c), Taken(start, k, b, c, first, step), Columns[c])
    Right(k) == /\ pass[k] \in PassStates(buckets, Columns)
                /\ pass[k].current = IF k = 0 THEN 0 ELSE BucketOf(start + k, first, step)
                /\ \A b \in 0 .. buckets - 1 : \A c \in DOMAIN Columns : Has(k, b, c)
    Good == {k \in Nat : k <= n => Right(k)}
  <1>1. n \in Nat /\ start \in Nat /\ start + n <= len /\ len \in Nat /\ buckets \in Nat \ {0}
    <2>1. buckets \in Nat \ {0} BY BucketsOfPass
    <2>2. QED BY <2>1, CapacityAssumption DEF IsPass, RingInv, TypeOK
  <1>2. Right(0)
    <2>1. pass[0] = Blanks(buckets, Columns) BY <1>1 DEF PassEquation
    <2>2. pass[0] \in PassStates(buckets, Columns) /\ pass[0].current = 0
      BY <1>1, <2>1, NothingIsRun DEF Blanks, PassStates
    <2>3. ASSUME NEW b \in 0 .. buckets - 1, NEW c \in DOMAIN Columns PROVE Has(0, b, c)
      <3>1. SoFar(pass[0], b, c) = NothingYet BY <2>1 DEF SoFar, Blanks
      <3>2. Taken(start, 0, b, c, first, step) = {} BY <1>1 DEF Taken
      <3>3. QED BY <3>1, <3>2, NothingIsTotals
    <2>4. QED BY <2>2, <2>3
  <1> HIDE DEF Has
  <1>3. ASSUME NEW k \in Good PROVE k + 1 \in Good
    <2> SUFFICES ASSUME k + 1 <= n PROVE Right(k + 1)
      OBVIOUS
    <2> DEFINE p == start + (k + 1)
               i == start + (k + 1) - 1
               bucket == BucketOf(p, first, step)
               current == pass[k].current
               next == pass[k + 1]
    <2>1. k \in Nat /\ Right(k) BY <1>1
    <2>2. /\ p \in 1 .. len /\ bucket \in 0 .. buckets - 1
          /\ bucket = (timestamps[Slot(i)] - (first - (first % step))) \div step
      <3>1. k + 1 \in 1 .. n BY <1>1, <2>1
      <3>2. QED BY <3>1, BucketsOfPass
    <2>3. next = Take(pass[k], i, first - (first % step), step, Columns)
      <3>1. k + 1 \in 0 .. n /\ k + 1 # 0 /\ (k + 1) - 1 = k BY <1>1, <2>1
      <3>2. QED BY <3>1 DEF PassEquation
    <2>4. \A c \in DOMAIN Columns :
            /\ Cell(i, Columns[c]) = Measure(p, Columns[c])
            /\ Cell(i, Columns[c]) \notin NotFinite => Cell(i, Columns[c]) \in Int
      <3>1. k + 1 \in Nat \ {0} BY <2>1
      <3>2. QED BY <1>1, <2>2, <3>1, FiniteCell
    <2>5. p = start + k + 1 /\ start + 1 .. start + (k + 1) = (start + 1 .. start + k) \cup {p}
      BY <1>1, <2>1
    <2> HIDE DEF p, i, bucket, next, current
    <2>6. /\ next \in PassStates(buckets, Columns)
          /\ next.current = bucket
          /\ \A c \in DOMAIN Columns :
               /\ SoFar(next, bucket, c)
                    = Add(IF bucket = current THEN SoFar(pass[k], bucket, c) ELSE NothingYet,
                          Cell(i, Columns[c]))
               /\ \A b \in (0 .. buckets - 1) \ {bucket} : SoFar(next, b, c) = SoFar(pass[k], b, c)
      <3> DEFINE origin == first - (first % step)
      <3>1. next = Take(pass[k], i, origin, step, Columns)
            /\ bucket = (timestamps[Slot(i)] - origin) \div step
        BY <2>2, <2>3
      <3> HIDE DEF origin
      <3>2. QED BY <1>1, <2>1, <2>2, <2>4, <3>1, TakeIs DEF current
    <2>7. ASSUME NEW b \in (0 .. buckets - 1) \ {bucket}, NEW c \in DOMAIN Columns
          PROVE  Has(k + 1, b, c)
      <3>1. Taken(start, k + 1, b, c, first, step) = Taken(start, k, b, c, first, step)
        <4>1. BucketOf(p, first, step) # b BY DEF bucket
        <4>2. QED BY <2>5, <4>1 DEF Taken
      <3>2. SoFar(next, b, c) = SoFar(pass[k], b, c) BY <2>6
      <3>3. Has(k, b, c) BY <2>1
      <3>4. QED BY <3>1, <3>2, <3>3 DEF Has, next
    <2>8. ASSUME NEW c \in DOMAIN Columns, bucket # current
          PROVE  Taken(start, k, bucket, c, first, step) = {}
      <3> SUFFICES ASSUME NEW q \in Taken(start, k, bucket, c, first, step) PROVE FALSE
        OBVIOUS
      <3>1. q \in start + 1 .. start + k /\ BucketOf(q, first, step) = bucket BY DEF Taken
      <3> DEFINE newest == start + k
      <3>2. k # 0 /\ k \in Nat /\ k <= n BY <1>1, <2>1, <3>1
      <3>3. /\ newest \in start + 1 .. start + n /\ p \in newest .. start + n
            /\ q \in start + 1 .. start + n /\ newest \in q .. start + n
        BY <1>1, <2>5, <3>1, <3>2
      <3>4. current = BucketOf(newest, first, step) BY <2>1, <3>2 DEF current
      <3> HIDE DEF newest
      <3>5. /\ BucketOf(q, first, step) <= BucketOf(newest, first, step)
            /\ BucketOf(newest, first, step) <= BucketOf(p, first, step)
        BY <3>3, BucketsOfPass
      <3>6. current \in 0 .. buckets - 1 BY <2>1 DEF current, PassStates
      <3>7. QED BY <1>1, <2>2, <2>8, <3>1, <3>4, <3>5, <3>6 DEF bucket
    <2>9. ASSUME NEW c \in DOMAIN Columns PROVE Has(k + 1, bucket, c)
      <3> DEFINE before == IF bucket = current THEN SoFar(pass[k], bucket, c) ELSE NothingYet
                 places == Taken(start, k, bucket, c, first, step)
                 column == Columns[c]
      <3>1. Totals(before, places, column)
        <4>1. CASE bucket = current BY <2>1, <2>2, <4>1 DEF Has
        <4>2. CASE bucket # current
          <5>1. places = {} BY <2>8, <4>2
          <5>2. before = NothingYet BY <4>2
          <5> HIDE DEF before, places, column
          <5>3. QED BY <5>1, <5>2, NothingIsTotals
        <4>3. QED BY <4>1, <4>2
      <3>2. SoFar(next, bucket, c) = Add(before, Measure(p, column)) BY <2>4, <2>6
      <3>3. Taken(start, k + 1, bucket, c, first, step)
              = places \cup (IF Measure(p, column) \notin NotFinite THEN {p} ELSE {})
        <4>1. BucketOf(p, first, step) = bucket BY DEF bucket
        <4>2. QED BY <2>5, <4>1 DEF Taken
      <3>4. /\ places \in SUBSET (1 .. len) /\ p \notin places
            /\ \A q \in places : Measure(q, column) \notin NotFinite
        BY <1>1, <2>1, <2>5 DEF Taken
      <3>5. \A q \in 1 .. len : Measure(q, column) \notin NotFinite
              => Measure(q, column) \in (1 - Infinity) .. (Infinity - 1)
        BY FiniteMeasure
      <3> HIDE DEF before, places, column
      <3>6. CASE Measure(p, column) \in NotFinite
        <4>1. Add(before, Measure(p, column)) = before BY <3>6 DEF Add
        <4>2. Taken(start, k + 1, bucket, c, first, step) = places BY <3>3, <3>6
        <4>3. QED BY <3>1, <3>2, <4>1, <4>2 DEF Has, next, column
      <3>7. CASE Measure(p, column) \notin NotFinite
        <4>1. p \in (1 .. len) \ places BY <2>2, <3>4
        <4>2. \A q \in places \cup {p} : Measure(q, column) \in (1 - Infinity) .. (Infinity - 1)
          BY <2>2, <3>4, <3>5, <3>7
        <4>3. Totals(Add(before, Measure(p, column)), places \cup {p}, column)
          BY <1>1, <3>1, <3>4, <3>7, <4>1, <4>2, AddIsTotals
        <4>4. Taken(start, k + 1, bucket, c, first, step) = places \cup {p} BY <3>3, <3>7
        <4>5. QED BY <3>2, <4>3, <4>4 DEF Has, next, column
      <3>8. QED BY <3>6, <3>7
    <2>10. next.current = BucketOf(start + (k + 1), first, step) BY <2>6 DEF bucket, p
    <2>11. QED BY <2>1, <2>6, <2>7, <2>9, <2>10 DEF next
  <1> HIDE DEF Right
  <1>4. n \in Good
    <2>1. Good \in SUBSET Nat /\ 0 \in Good BY <1>2
    <2> HIDE DEF Good
    <2>2. QED BY <1>1, <1>3, <2>1, Induction
  <1>5. Right(n) BY <1>1, <1>4
  <1>6. QED BY <1>5 DEF Right, Has

-----------------------------------------------------------------------------
(* Downsampled reads.                                                      *)

LEMMA EndsOfInterval ==
  ASSUME NEW a \in Int, NEW b \in Int, a <= b
  PROVE  Min(a .. b) = a /\ Max(a .. b) = b
  BY DEF Min, Max

(* Where a bucket starts.                                                  *)
LEMMA StartOfBucket ==
  ASSUME NEW x \in Nat, NEW s \in Nat \ {0}, NEW k \in Nat
  PROVE  /\ x - (x % s) + k * s = s * (x \div s + k)
         /\ x - (x % s) + k * s = (x \div s + k) * s
  <1> DEFINE q == x \div s
             r == x % s
  <1>1. q \in Nat /\ r \in Nat /\ x = s * q + r BY Division
  <1> HIDE DEF q, r
  <1>2. s * (q + k) = s * q + k * s /\ (q + k) * s = s * q + k * s
        /\ s * q \in Nat /\ k * s \in Nat
    BY <1>1
  <1> DEFINE p == s * q
             d == k * s
  <1>3. p \in Nat /\ d \in Nat /\ x = p + r BY <1>1, <1>2
  <1> HIDE DEF p, d
  <1>4. x - r + d = p + d BY <1>1, <1>3
  <1>5. QED BY <1>2, <1>4 DEF q, r, p, d

(* The number of buckets of a downsampled read.                            *)
LEMMA BucketsNeeded ==
  ASSUME RingInv, NEW from \in Limits, NEW to \in Limits, NEW step \in Nat \ {0},
         ~ (RangeStart(from, to) >= RangeEnd(from, to))
  PROVE  LET first == FirstTime(from, to)
             last == LastTime(from, to)
             n == RangeEnd(from, to) - RangeStart(from, to)
             buckets == B!BucketCount(first, last, step)
         IN  /\ buckets = last \div step - first \div step + 1
             /\ IsPass(RangeStart(from, to), n, first, step, buckets)
             /\ Wanted(from, to) = RangeStart(from, to) + 1 .. RangeStart(from, to) + n
             /\ Min(Wanted(from, to)) = RangeStart(from, to) + 1
             /\ Max(Wanted(from, to)) = RangeEnd(from, to)
  <1> DEFINE start == RangeStart(from, to)
             end == RangeEnd(from, to)
             first == FirstTime(from, to)
             last == LastTime(from, to)
             n == end - start
             buckets == B!BucketCount(first, last, step)
  <1>1. /\ start + 1 \in 1 .. len /\ end \in 1 .. len /\ start \in Nat /\ start + 1 <= end
        /\ first = Records[start + 1].t /\ last = Records[end].t
        /\ first \in 0 .. MaxTime /\ last \in 0 .. MaxTime
        /\ first <= last /\ last - first < MaxTime
    BY EndsOfRange
  <1>2. len \in Nat BY CapacityAssumption DEF RingInv, TypeOK
  <1>3. Wanted(from, to) = start + 1 .. end
    BY RangeIs DEF RangeStart, RangeEnd
  <1> HIDE DEF start, end, first, last
  <1>4. n \in Nat \ {0} /\ start + n = end BY <1>1, <1>2
  <1>5. buckets = last \div step - first \div step + 1
    <2>1. first \in Nat /\ last \in Nat BY <1>1, MaxTimeAssumption
    <2>2. QED BY <1>1, <2>1, CountIs
  <1>6. Min(start + 1 .. end) = start + 1 /\ Max(start + 1 .. end) = end
    <2> DEFINE a == start + 1
    <2>1. a \in Int /\ end \in Int /\ a <= end BY <1>1, <1>2
    <2> HIDE DEF a
    <2>2. Min(a .. end) = a /\ Max(a .. end) = end BY <2>1, EndsOfInterval
    <2>3. QED BY <2>2 DEF a
  <1> HIDE DEF buckets
  <1>7. IsPass(start, n, first, step, buckets)
    <2> HIDE DEF n
    <2>1. start + n <= len BY <1>1, <1>2, <1>4
    <2>2. QED BY <1>1, <1>4, <1>5, <2>1 DEF IsPass
  <1>8. QED BY <1>3, <1>4, <1>5, <1>6, <1>7 DEF start, end, first, last, buckets

(* A bucket sums up the records whose times are in it.                     *)
LEMMA TakenIsInBucket ==
  ASSUME RingInv, NEW start, NEW n, NEW first, NEW step, NEW buckets,
         IsPass(start, n, first, step, buckets), first \in Nat,
         NEW k \in Nat, NEW c, NEW time, time = first - (first % step) + k * step
  PROVE  Taken(start, n, k, c, first, step)
           = InBucket(start + 1 .. start + n, time, step, Columns[c])
  <1>1. /\ start \in Nat /\ n \in Nat \ {0} /\ start + n <= len /\ step \in Nat \ {0} /\ len \in Nat
    BY CapacityAssumption DEF IsPass, RingInv, TypeOK
  <1> DEFINE low == first \div step
             q == low + k
  <1>2. low \in Nat /\ q \in Nat
    <2>1. low \in Nat BY <1>1, Division
    <2>2. QED BY <2>1
  <1>3. time = step * q
    <2>1. first - (first % step) + k * step = step * (first \div step + k) 
      <3>1. step \in Nat \ {0} BY <1>1
      <3>2. QED BY <3>1, StartOfBucket
    <2>2. QED BY <2>1
  <1> HIDE DEF q
  <1>4. ASSUME NEW p \in start + 1 .. start + n
        PROVE  BucketOf(p, first, step) = k <=> time <= Records[p].t /\ Records[p].t < time + step
    <2> DEFINE x == Records[p].t
    <2>1. p \in 1 .. len BY <1>1
    <2>2. x \in Nat BY <2>1, RecordIs, MaxTimeAssumption
    <2> HIDE DEF x
    <2>3. x \div step = q <=> step * q <= x /\ x < step * q + step
      BY <1>1, <1>2, <2>2, TimesOfBucket
    <2>4. x \div step \in Nat BY <1>1, <2>2, Division
    <2> HIDE DEF low
    <2>5. x \div step - low = k <=> x \div step = q BY <1>2, <2>4 DEF q
    <2>6. QED BY <1>3, <2>3, <2>5 DEF BucketOf, x, low
  <1>5. QED BY <1>4 DEF Taken, InBucket

LEMMA DownsamplesAreExact == RingInv => DownsampleIsExact
  <1> SUFFICES ASSUME RingInv, NEW from \in Limits, NEW to \in Limits, NEW stepMs \in 0 .. MaxTime
               PROVE
      LET got == Downsample(from, to, Columns, stepMs)
          wanted == Wanted(from, to)
          step == B!AtLeast(stepMs, 1)
          first == Records[Min(wanted)].t \div step
          needed == IF wanted = {} THEN 0 ELSE Records[Max(wanted)].t \div step - first + 1
      IN  /\ got.ok <=> needed <= MaxBuckets
          /\ got.ok =>
               /\ Len(got.timestamps) = needed /\ Len(got.cells) = needed
               /\ \A b \in 1 .. needed :
                    /\ got.timestamps[b] = (first + b - 1) * step
                    /\ \A c \in DOMAIN Columns :
                         IsSummary(got.cells[b][c],
                                   InBucket(wanted, got.timestamps[b], step, Columns[c]), Columns[c])
    BY DEF DownsampleIsExact
  <1> DEFINE got == Downsample(from, to, Columns, stepMs)
             wanted == Wanted(from, to)
             step == B!AtLeast(stepMs, 1)
             first == Records[Min(wanted)].t \div step
             needed == IF wanted = {} THEN 0 ELSE Records[Max(wanted)].t \div step - first + 1
             Exact(b) ==
               /\ got.timestamps[b] = (first + b - 1) * step
               /\ \A c \in DOMAIN Columns :
                    IsSummary(got.cells[b][c],
                              InBucket(wanted, got.timestamps[b], step, Columns[c]), Columns[c])
  <1>1. step \in Nat \ {0} /\ MaxBuckets \in Nat
    BY MaxTimeAssumption, MaxBucketsAssumption DEF B!AtLeast
  <1>2. CASE RangeStart(from, to) >= RangeEnd(from, to)
    <2>1. wanted = {}
      <3>1. /\ RangeStart(from, to) \in Nat /\ RangeEnd(from, to) \in Nat
            /\ wanted = RangeStart(from, to) + 1 .. RangeEnd(from, to)
        BY RangeIs, CapacityAssumption DEF RingInv, TypeOK, RangeStart, RangeEnd
      <3>2. QED BY <1>2, <3>1
    <2>2. got.ok /\ got.timestamps = << >> /\ got.cells = << >>
      BY <1>2, DownsampleGives
    <2>3. needed = 0 BY <2>1
    <2> HIDE DEF got, needed, Exact
    <2>4. Len(got.timestamps) = 0 /\ Len(got.cells) = 0 BY <2>2
    <2>5. \A b \in 1 .. needed : Exact(b) BY <2>3
    <2>6. QED BY <1>1, <2>2, <2>3, <2>4, <2>5 DEF got, needed, Exact
  <1>3. CASE ~ (RangeStart(from, to) >= RangeEnd(from, to))
    <2> DEFINE start == RangeStart(from, to)
               time == FirstTime(from, to)
               last == LastTime(from, to)
               n == RangeEnd(from, to) - start
               buckets == B!BucketCount(time, last, step)
               end == EndOfPass(from, to, Columns, step, buckets)
    <2>1. /\ buckets = last \div step - time \div step + 1
          /\ IsPass(start, n, time, step, buckets)
          /\ wanted = start + 1 .. start + n
          /\ Min(wanted) = start + 1 /\ Max(wanted) = RangeEnd(from, to)
      BY <1>1, <1>3, BucketsNeeded
    <2>2. /\ time = Records[start + 1].t /\ last = Records[RangeEnd(from, to)].t
          /\ time \in Nat
      BY <1>3, EndsOfRange, MaxTimeAssumption
    <2>3. wanted # {}
      <3>1. start \in Nat /\ n \in Nat \ {0} BY <2>1 DEF IsPass
      <3> HIDE DEF start, n, wanted
      <3>2. start + 1 \in wanted BY <2>1, <3>1
      <3>3. QED BY <3>2
    <2>4. first = time \div step /\ needed = buckets
      <3>1. first = time \div step BY <2>1, <2>2
      <3>2. Records[Max(wanted)].t = last BY <2>1, <2>2
      <3> HIDE DEF first, wanted, time, last, buckets
      <3>3. QED BY <2>1, <2>3, <3>1, <3>2
    <2>5. buckets \in Nat \ {0} BY <2>1, BucketsOfPass
    <2>6. CASE buckets > MaxBuckets
      <3>1. ~ got.ok
        <4>1. got = [ok |-> FALSE, buckets |-> buckets] BY <1>3, <2>6, DownsampleGives
        <4> HIDE DEF got, buckets
        <4>2. QED BY <4>1
      <3> HIDE DEF got, needed, buckets
      <3>2. ~ (needed <= MaxBuckets) BY <1>1, <2>4, <2>5, <2>6
      <3>3. QED BY <3>1, <3>2 DEF got, needed
    <2>7. CASE ~ (buckets > MaxBuckets)
      <3> DEFINE starts == [b \in 1 .. buckets |-> time - (time % step) + (b - 1) * step]
                 cells == [b \in 1 .. buckets |->
                            IF b - 1 = end.current THEN end.running ELSE end.result[b - 1]]
      <3>1. got = [ok |-> TRUE, step |-> step, timestamps |-> starts, cells |-> cells]
        BY <1>3, <2>7, DownsampleGives
      <3>2. Len(starts) = buckets /\ Len(cells) = buckets
        <4>1. starts = [b \in 1 .. buckets |-> starts[b]] /\ cells = [b \in 1 .. buckets |-> cells[b]]
          OBVIOUS
        <4> HIDE DEF starts, cells, buckets
        <4>2. QED BY <2>5, <4>1, LengthOfTuple
      <3>3. \A b \in 0 .. buckets - 1 : \A c \in DOMAIN Columns :
              Totals(SoFar(end, b, c), Taken(start, n, b, c, time, step), Columns[c])
        <4> DEFINE pass == CHOOSE p : PassEquation(p, n, start, time - (time % step), step, Columns,
                                                   Blanks(buckets, Columns))
        <4>1. end = pass[n] BY DEF EndOfPass
        <4>2. PassEquation(pass, n, start, time - (time % step), step, Columns,
                           Blanks(buckets, Columns))
          BY <2>1, PassExists
        <4> HIDE DEF pass, end, start, n, time, buckets, step
        <4>3. QED BY <2>1, <4>1, <4>2, TotalsOfPass
      <3>4. ASSUME NEW b \in 1 .. needed PROVE Exact(b)
        <4> DEFINE k == b - 1
        <4>1. b \in 1 .. buckets /\ k \in Nat /\ k \in 0 .. buckets - 1 BY <2>4, <2>5
        <4>2. got.timestamps[b] = time - (time % step) + k * step BY <3>1, <4>1
        <4>3. got.cells[b] = IF k = end.current THEN end.running ELSE end.result[k]
          BY <3>1, <4>1
        <4> HIDE DEF k
        <4>4. first + b - 1 = time \div step + k
          <5>1. time \div step \in Nat BY <1>1, <2>2, Division
          <5> HIDE DEF first
          <5>2. QED BY <2>4, <4>1, <5>1 DEF k
        <4>5. got.timestamps[b] = (first + b - 1) * step
          <5>1. time - (time % step) + k * step = (time \div step + k) * step
            BY <1>1, <2>2, <4>1, StartOfBucket
          <5>2. QED BY <4>2, <4>4, <5>1
        <4>6. ASSUME NEW c \in DOMAIN Columns
              PROVE  IsSummary(got.cells[b][c],
                               InBucket(wanted, got.timestamps[b], step, Columns[c]), Columns[c])
          <5>1. got.cells[b][c] = SoFar(end, k, c) BY <4>3 DEF SoFar
          <5>2. Taken(start, n, k, c, time, step)
                  = InBucket(wanted, got.timestamps[b], step, Columns[c])
            <6> DEFINE at == got.timestamps[b]
            <6>1. at = time - (time % step) + k * step BY <4>2
            <6> HIDE DEF at, start, n, time, buckets, step, wanted, got
            <6>2. Taken(start, n, k, c, time, step)
                    = InBucket(start + 1 .. start + n, at, step, Columns[c])
              BY <2>1, <2>2, <4>1, <6>1, TakenIsInBucket
            <6>3. QED BY <2>1, <6>2 DEF at
          <5>3. Totals(SoFar(end, k, c), Taken(start, n, k, c, time, step), Columns[c])
            BY <3>3, <4>1
          <5> HIDE DEF got, end, start, n, time, buckets, step, wanted
          <5>4. QED BY <5>1, <5>2, <5>3 DEF Totals
        <4>7. QED BY <4>5, <4>6
      <3> HIDE DEF starts, cells, got, needed, buckets, Exact
      <3>5. /\ got.ok /\ needed <= MaxBuckets
            /\ Len(got.timestamps) = needed /\ Len(got.cells) = needed
        BY <1>1, <2>4, <2>5, <2>7, <3>1, <3>2
      <3>6. QED BY <3>4, <3>5 DEF got, needed, Exact
    <2>8. QED BY <2>6, <2>7
  <1>4. QED BY <1>2, <1>3

(* A downsampled read has every bucket from the first record's to the      *)
(* last's, each with the totals of exactly the finite values in it, and is *)
(* refused exactly when there would be too many.                           *)
THEOREM DownsamplesSumUpTheRange == Spec => []DownsampleIsExact
  BY RingInvariant, DownsamplesAreExact, PTL

=============================================================================
