----------------------------- MODULE BucketStep -----------------------------
(***************************************************************************)
(* step_for_max_points of store.rs, one step per turn of its loop, over    *)
(* every range of data, sampling interval and number of points wanted.     *)
(***************************************************************************)
EXTENDS Buckets

CONSTANTS
  Points,   \* the values of max_points that callers pass
  Intervals \* the sampling intervals, in milliseconds

(* Requests ask for 200,000 points at most (MAX_POINTS).                   *)
ASSUME PointsAssumption == MaxTime > 2 /\ Points \subseteq 0 .. MaxTime - 1
ASSUME IntervalsAssumption == Intervals \subseteq 0 .. MaxTime

VARIABLES
  query, \* the arguments of the call: first, last, points and interval
  step,  \* the width being tried, 0 before the first
  done   \* whether the call has returned

vars == <<query, step, done>>

Query ==
  {q \in [first : 0 .. MaxTime, last : 0 .. MaxTime, points : Points, interval : Intervals] :
     q.first <= q.last}

(* The interval and the number of points as the call raises them.          *)
Interval == AtLeast(query.interval, 1)
MaxPoints == AtLeast(query.points, 2)

Fits == BucketCount(query.first, query.last, step) <= MaxPoints

-----------------------------------------------------------------------------
Init == query \in Query /\ step = 0 /\ done = FALSE

Start ==
  /\ step = 0
  /\ step' = FirstStep(query.first, query.last, MaxPoints, Interval)
  /\ UNCHANGED <<query, done>>

Widen ==
  /\ step > 0 /\ ~done /\ ~Fits
  /\ step' = Wider(step, Interval)
  /\ UNCHANGED <<query, done>>

Return ==
  /\ step > 0 /\ ~done /\ Fits
  /\ done' = TRUE
  /\ UNCHANGED <<query, step>>

Next == Start \/ Widen \/ Return

Spec == Init /\ [][Next]_vars /\ WF_vars(Next)

-----------------------------------------------------------------------------
(* The reference: the epoch-aligned buckets that hold some time of the     *)
(* range, counted without a word's width.                                  *)
BucketsHolding(first, last, s) == last \div s - first \div s + 1

(* The width returned really gives no more buckets than asked for, wherever *)
(* the data lies relative to the epoch.                                    *)
NoMoreThanAsked ==
  done => BucketsHolding(query.first, query.last, step) <= MaxPoints

(* Every width tried, and so the one returned, is a u64 and a whole number *)
(* of samples, so that no bucket is always short of one: a width that had  *)
(* to be cut off at the last u64 is never needed.                          *)
WholeNumberOfSamples == step \in 0 .. MaxTime /\ step % Interval = 0

(* "Ending for certain": the loop comes to an end for every call.          *)
Returns == <>done
=============================================================================
