---------------------------- MODULE StoreQueries ----------------------------
(***************************************************************************)
(* The reads of store.rs and the read request of protocol.rs, as operators *)
(* on the ring of Store.tla in whatever state pushes have left it: binary  *)
(* search over the wrapped ring, range reads, downsampling into buckets    *)
(* aligned to the epoch, and the choice of their width.                    *)
(*                                                                         *)
(* Finite values are integers; an average is left as a sum and a count.    *)
(***************************************************************************)
EXTENDS Store, Integers, SequencesExt

CONSTANTS
  NoLimit,    \* None, for the `from` or `to` of a range
  NotFinite,  \* the values that are left out of summaries (NaN, infinities)
  NaN,        \* what a read gives for a value that is not there
  Infinity,   \* beyond every finite value, on both sides
  MaxBuckets, \* MAX_BUCKETS
  Interval    \* the sampling interval, in milliseconds

ASSUME NoLimitAssumption == NoLimit \notin 0 .. MaxTime
ASSUME FiniteAssumption ==
  NaN \in NotFinite /\ Infinity \in Nat /\ Values \ NotFinite \subseteq (1 - Infinity) .. (Infinity - 1)
ASSUME MaxBucketsAssumption == MaxBuckets \in 2 .. MaxTime
ASSUME IntervalAssumption == Interval \in 0 .. MaxTime

(* No two records are as far apart as a u64 can tell, 584 million years:   *)
(* at a step of 1 their buckets would be counted as none.                  *)
ASSUME SpanAssumption == \A s, t \in Stamps : t - s < MaxTime

B == INSTANCE Buckets

-----------------------------------------------------------------------------
(* Reads of a range.                                                       *)

(* The logical index of the first record whose timestamp is not in `before`. *)
Partition(before) ==
  LET search[part \in (0 .. len) \X (0 .. len)] ==
        LET low == part[1]
            high == part[2]
            middle == low + (high - low) \div 2
        IN  IF low >= high THEN low
            ELSE IF timestamps[Slot(middle)] \in before THEN search[<<middle + 1, high>>]
            ELSE search[<<low, middle>>]
  IN  search[<<0, len>>]

(* Mutant: `to` is taken to be outside the range.                          *)
IndexRangeOpen(from, to) ==
  LET start == IF from = NoLimit THEN 0 ELSE Partition(0 .. from - 1)
      end == IF to = NoLimit THEN len ELSE Partition(0 .. to - 1)
  IN  [start |-> start, end |-> B!AtLeast(end, start)]

(* The logical indices of the records in from..to, as start..end-1.        *)
IndexRange(from, to) ==
  LET start == IF from = NoLimit THEN 0 ELSE Partition(0 .. from - 1)
      end == IF to = NoLimit THEN len ELSE Partition(0 .. to)
  IN  [start |-> start, end |-> B!AtLeast(end, start)]

Indices(range) == [k \in 1 .. range.end - range.start |-> range.start + k - 1]

(* The value at index column of the record in logical place i.             *)
Cell(i, column) ==
  LET row == rows[Slot(i)] IN IF column < Width THEN row[column + 1] ELSE NaN

SnapshotRange(from, to, columns) ==
  LET places == Indices(IndexRange(from, to)) IN
  [timestamps |-> [k \in DOMAIN places |-> timestamps[Slot(places[k])]],
   columns |-> [c \in DOMAIN columns |->
                 [k \in DOMAIN places |-> Cell(places[k], columns[c])]]]

(* The first and last timestamps in from..to, if there are any.            *)
Bounds(from, to) ==
  LET range == IndexRange(from, to) IN
  IF range.start >= range.end THEN << >>
  ELSE <<timestamps[Slot(range.start)], timestamps[Slot(range.end - 1)]>>

-----------------------------------------------------------------------------
(* Downsampling.                                                           *)

NothingYet == [sum |-> 0, count |-> 0, min |-> Infinity, max |-> -Infinity]

(* Running::add for a value that is finite; others are left out.           *)
Add(run, value) ==
  IF value \in NotFinite THEN run
  ELSE [sum |-> run.sum + value, count |-> run.count + 1,
        min |-> IF value < run.min THEN value ELSE run.min,
        max |-> IF value > run.max THEN value ELSE run.max]

(* Mutant: the totals are not cleared when the next bucket begins.         *)
TakeKeeping(state, i, first, step, columns) ==
  LET bucket == (timestamps[Slot(i)] - first) \div step
      next == IF bucket = state.current THEN state
              ELSE [result |-> [state.result EXCEPT ![state.current] = state.running],
                    running |-> state.running,
                    current |-> bucket]
  IN  [next EXCEPT !.running = [c \in DOMAIN columns |-> Add(@[c], Cell(i, columns[c]))]]

(* One record of the pass: when it begins another bucket the running       *)
(* totals are stored and cleared first, then its values are added.         *)
Take(state, i, first, step, columns) ==
  LET bucket == (timestamps[Slot(i)] - first) \div step
      next == IF bucket = state.current THEN state
              ELSE [result |-> [state.result EXCEPT ![state.current] = state.running],
                    running |-> [c \in DOMAIN columns |-> NothingYet],
                    current |-> bucket]
  IN  [next EXCEPT !.running = [c \in DOMAIN columns |-> Add(@[c], Cell(i, columns[c]))]]

(* The buckets' start times and, per bucket and column, its totals; or how *)
(* many buckets it would have taken.  A bucket left as it was created has  *)
(* a count of 0 and is read as NaN.                                        *)
Downsample(from, to, columns, stepMs) ==
  LET step == B!AtLeast(stepMs, 1)
      range == IndexRange(from, to)
      blank == [c \in DOMAIN columns |-> NothingYet]
  IN  IF range.start >= range.end
      THEN [ok |-> TRUE, step |-> step, timestamps |-> << >>, cells |-> << >>]
      ELSE LET first == timestamps[Slot(range.start)]
               last == timestamps[Slot(range.end - 1)]
               buckets == B!BucketCount(first, last, step)
               firstBucket == first - (first % step)
               blanks == [result |-> [b \in 0 .. buckets - 1 |-> blank],
                          running |-> blank, current |-> 0]
               pass[k \in 0 .. range.end - range.start] ==
                 IF k = 0 THEN blanks
                 ELSE Take(pass[k - 1], range.start + k - 1, firstBucket, step, columns)
               end == pass[range.end - range.start]
           IN  IF buckets > MaxBuckets THEN [ok |-> FALSE, buckets |-> buckets]
               ELSE [ok |-> TRUE, step |-> step,
                     timestamps |-> [b \in 1 .. buckets |-> firstBucket + (b - 1) * step],
                     cells |-> [b \in 1 .. buckets |->
                       IF b - 1 = end.current THEN end.running ELSE end.result[b - 1]]]

StepForMaxPoints(first, last, maxPoints, interval) ==
  LET samples == B!AtLeast(interval, 1)
      points == B!AtLeast(maxPoints, 2)
      widen[step \in 1 .. MaxTime] ==
        IF B!BucketCount(first, last, step) > points THEN widen[B!Wider(step, samples)] ELSE step
  IN  widen[B!FirstStep(first, last, points, samples)]

(* Mutant: the records are taken anew after the width was worked out, more *)
(* of them than it was worked out for.                                     *)
AnswerMaxPointsLater(from, to, columns, points) ==
  LET ends == Bounds(from, to)
      step == IF ends = << >> THEN B!AtLeast(Interval, 1)
              ELSE StepForMaxPoints(ends[1], ends[2], points, Interval)
  IN  Downsample(from, NoLimit, columns, step)

(* answer_read for max_points: the range's bounds, a width for them, and   *)
(* the downsampling, all under one read lock.                              *)
AnswerMaxPoints(from, to, columns, points) ==
  LET ends == Bounds(from, to)
      step == IF ends = << >> THEN B!AtLeast(Interval, 1)
              ELSE StepForMaxPoints(ends[1], ends[2], points, Interval)
  IN  Downsample(from, to, columns, step)

-----------------------------------------------------------------------------
Limits == 0 .. MaxTime \union {NoLimit}

(* One column past the end, then all there are from the last to the first. *)
Columns == [c \in 1 .. Width + 1 |-> Width + 1 - c]

(* The reference: the places, from 1, of the records in from..to, and what *)
(* a record has in a column.                                               *)
Wanted(from, to) ==
  {i \in 1 .. len : /\ from # NoLimit => Records[i].t >= from
                    /\ to # NoLimit => Records[i].t <= to}

Measure(i, column) == IF column < Width THEN Records[i].row[column + 1] ELSE NaN

(* A range read gives exactly the records in the range, oldest first, with *)
(* the columns asked for in the order asked for and NaN for one that does  *)
(* not exist: for every range, empty and backwards ones too, and wherever  *)
(* the ring's end falls in it.                                             *)
RangeIsExact ==
  \A from, to \in Limits :
    LET got == SnapshotRange(from, to, Columns)
        n == Len(got.timestamps)
    IN  /\ \A j, k \in 1 .. n : j < k => got.timestamps[j] < got.timestamps[k]
        /\ \A c \in DOMAIN Columns : Len(got.columns[c]) = n
        /\ {[t |-> got.timestamps[k], row |-> [c \in DOMAIN Columns |-> got.columns[c][k]]] :
              k \in 1 .. n}
           = {[t |-> Records[i].t, row |-> [c \in DOMAIN Columns |-> Measure(i, Columns[c])]] :
                i \in Wanted(from, to)}

(* The places whose time is in start..start+step-1 and whose value in the  *)
(* column is finite.                                                       *)
InBucket(places, start, step, column) ==
  {i \in places : /\ start <= Records[i].t /\ Records[i].t < start + step
                  /\ Measure(i, column) \notin NotFinite}

(* The totals of a cell are those of the column's values in these places.  *)
IsSummary(cell, places, column) ==
  LET value == [i \in 1 .. len |-> Measure(i, column)] IN
  /\ cell.count = Cardinality(places)
  /\ cell.sum = SumFunctionOnSet(value, places)
  /\ places # {} =>
       /\ \E i \in places : cell.min = value[i]
       /\ \E i \in places : cell.max = value[i]
       /\ \A i \in places : cell.min <= value[i] /\ value[i] <= cell.max

(* A downsampled read has one bucket for every step from the first         *)
(* record's to the last's, starting at multiples of the step, each with    *)
(* the summary of exactly the finite values in it; it is refused exactly   *)
(* when that would take more than MaxBuckets.                              *)
DownsampleIsExact ==
  \A from, to \in Limits, stepMs \in 0 .. MaxTime :
    LET got == Downsample(from, to, Columns, stepMs)
        wanted == Wanted(from, to)
        step == B!AtLeast(stepMs, 1)
        first == Records[Min(wanted)].t \div step
        needed == IF wanted = {} THEN 0 ELSE Records[Max(wanted)].t \div step - first + 1
    IN  /\ got.ok <=> needed <= MaxBuckets
        /\ got.ok =>
             /\ Len(got.timestamps) = needed /\ Len(got.cells) = needed
             /\ \A b \in 1 .. needed :
                  /\ got.timestamps[b] = (first + b - 1) * step
                  /\ \A c \in DOMAIN Columns :
                       IsSummary(got.cells[b][c],
                                 InBucket(wanted, got.timestamps[b], step, Columns[c]), Columns[c])

(* A read with max_points is never refused and never gives more buckets    *)
(* than were asked for.                                                    *)
MaxPointsIsKept ==
  \A from, to \in Limits, points \in 2 .. MaxBuckets :
    LET got == AnswerMaxPoints(from, to, Columns, points)
    IN  got.ok /\ Len(got.timestamps) <= points
=============================================================================
