------------------------- MODULE BucketStepProofs -------------------------
(***************************************************************************)
(* Proofs about BucketStep.tla for every width of word, range of data,     *)
(* interval and number of points: the width that is returned, and why the  *)
(* search for it ends.                                                     *)
(***************************************************************************)
EXTENDS BucketStep, TLAPS

USE MaxTimeAssumption

-----------------------------------------------------------------------------
(* Division.                                                               *)

LEMMA Division ==
  ASSUME NEW x \in Nat, NEW s \in Nat \ {0}
  PROVE  /\ x \div s \in Nat /\ x % s \in 0 .. s - 1
         /\ x = s * (x \div s) + (x % s)
  OBVIOUS

LEMMA QuotientIs ==
  ASSUME NEW q \in Nat, NEW r \in Nat, NEW s \in Nat \ {0}, r < s
  PROVE  (s * q + r) \div s = q /\ (s * q + r) % s = r
  OBVIOUS

LEMMA QuotientGrows ==
  ASSUME NEW x \in Nat, NEW y \in Nat, NEW s \in Nat \ {0}, x <= y
  PROVE  x \div s <= y \div s
  OBVIOUS

LEMMA ProductGrows ==
  ASSUME NEW x \in Nat, NEW y \in Nat, NEW s \in Nat, x <= y
  PROVE  s * x <= s * y
  OBVIOUS

LEMMA StillEnough ==
  ASSUME NEW x \in Nat, NEW y \in Nat, NEW s \in Nat, NEW z \in Nat, z <= s * x, x <= y
  PROVE  z <= s * y
  <1>1. s * x <= s * y
    BY ProductGrows
  <1>2. s * x \in Nat /\ s * y \in Nat
    OBVIOUS
  <1> QED
    BY <1>1, <1>2

LEMMA ProductOrder ==
  ASSUME NEW x \in Nat, NEW y \in Nat, NEW s \in Nat \ {0}, s * x < s * y
  PROVE  x < y
  OBVIOUS

(* Rounded up to a multiple.                                               *)
LEMMA RoundedUp ==
  ASSUME NEW x \in Nat, NEW d \in Nat \ {0}
  PROVE  /\ DivCeil(x, d) \in Nat
         /\ x <= d * DivCeil(x, d) /\ d * DivCeil(x, d) <= x + d - 1
  <1> DEFINE y == x + d - 1
  <1>1. y \in Nat
    OBVIOUS
  <1>2. y \div d \in Nat /\ y % d \in 0 .. d - 1 /\ y = d * (y \div d) + (y % d)
    BY <1>1, Division
  <1>3. d * (y \div d) \in Nat
    BY <1>2
  <1> HIDE DEF y
  <1>4. y = x + d - 1
    BY DEF y
  <1>5. x <= d * (y \div d) /\ d * (y \div d) <= y
    BY <1>2, <1>3, <1>4
  <1>6. DivCeil(x, d) = y \div d
    BY DEF DivCeil, y
  <1>7. QED
    BY <1>2, <1>4, <1>5, <1>6

-----------------------------------------------------------------------------
(* Counting buckets.                                                       *)

(* What bucket_count works out is the number of buckets, but for a word's  *)
(* width.                                                                  *)
LEMMA CountIsHolding ==
  ASSUME NEW first \in Nat, NEW last \in Nat, first <= last, NEW s \in Nat \ {0}
  PROVE  /\ BucketsHolding(first, last, s) \in Nat \ {0}
         /\ BucketCount(first, last, s) = BucketsHolding(first, last, s) % (MaxTime + 1)
  <1> DEFINE low == first \div s
             high == last \div s
  <1>1. low \in Nat /\ high \in Nat /\ low <= high
    BY QuotientGrows, Division
  <1>2. first - (first % s) = s * low
    BY Division, <1>1
  <1>3. last - (last % s) = s * high
    BY Division, <1>1
  <1> HIDE DEF low, high
  <1>4. s * high - s * low = s * (high - low) /\ high - low \in Nat
    BY <1>1
  <1>5. (s * (high - low)) \div s = high - low
    <2>1. \A q \in Nat : (s * q) \div s = q
      <3> SUFFICES ASSUME NEW q \in Nat PROVE (s * q) \div s = q
        OBVIOUS
      <3>1. s * q + 0 = s * q
        OBVIOUS
      <3>2. QED
        BY <3>1, QuotientIs
    <2>2. QED
      BY <1>4, <2>1
  <1>6. (last - (last % s) - (first - (first % s))) \div s = high - low
    BY <1>2, <1>3, <1>4, <1>5
  <1>7. BucketsHolding(first, last, s) = high - low + 1
    BY DEF BucketsHolding, low, high
  <1>8. QED
    BY <1>1, <1>6, <1>7 DEF BucketCount

(* As many buckets as there are times at most, and few if they are wide.   *)
LEMMA WideBucketsAreFew ==
  ASSUME NEW first \in Nat, NEW last \in Nat, first <= last, NEW s \in Nat \ {0}
  PROVE  /\ s * (BucketsHolding(first, last, s) - 1) <= last
         /\ BucketsHolding(first, last, s) <= last - first + 1
  <1> DEFINE low == first \div s
             high == last \div s
  <1>1. low \in Nat /\ high \in Nat /\ low <= high
    BY QuotientGrows, Division
  <1>2. s * low <= first /\ first < s * low + s
    BY Division
  <1>3. s * high <= last
    BY Division
  <1> HIDE DEF low, high
  <1>4. BucketsHolding(first, last, s) = high - low + 1
    BY DEF BucketsHolding, low, high
  <1>5. s * (high - low) = s * high - s * low
    BY <1>1
  <1>6. s * (high - low) <= last
    BY <1>1, <1>3, <1>5
  <1>7. high - low <= last - first
    <2> SUFFICES ASSUME high - low > last - first PROVE FALSE
      BY <1>1
    <2> DEFINE d == high - low
               r == first - s * low
    <2>1. d \in Nat /\ d >= 1 /\ last - first <= d - 1
      BY <1>1
    <2>2. s * d <= last - first + r /\ r \in Nat /\ r <= s - 1
      BY <1>1, <1>2, <1>3, <1>5
    <2> HIDE DEF d, r
    <2>3. s * d <= d - 1 + (s - 1)
      BY <2>1, <2>2
    <2>4. (s - 1) * (d - 1) = s * d - s - d + 1
      BY <2>1
    <2>5. (s - 1) * (d - 1) >= 0
      BY <2>1
    <2>6. QED
      BY <2>1, <2>3, <2>4, <2>5
  <1>8. QED
    BY <1>1, <1>4, <1>6, <1>7

-----------------------------------------------------------------------------
(* Rounding to whole samples.                                              *)

LEMMA WholeSamplesRoundsUp ==
  ASSUME NEW x \in 0 .. MaxTime, NEW i \in 1 .. MaxTime
  PROVE  /\ WholeSamples(x, i) \in 1 .. MaxTime /\ x <= WholeSamples(x, i)
         /\ DivCeil(x, i) * i <= MaxTime => WholeSamples(x, i) % i = 0
  <1> DEFINE q == DivCeil(x, i)
  <1>1. q \in Nat /\ x <= i * q
    BY RoundedUp
  <1> HIDE DEF q
  <1>2. q * i = i * q /\ q * i \in Nat
    BY <1>1
  <1>3. Saturated(q * i) \in 0 .. MaxTime /\ x <= Saturated(q * i)
    BY <1>1, <1>2 DEF Saturated
  <1>4. WholeSamples(x, i) = AtLeast(Saturated(q * i), i)
    BY DEF WholeSamples, q
  <1>5. WholeSamples(x, i) \in 1 .. MaxTime /\ x <= WholeSamples(x, i)
    BY <1>3, <1>4 DEF AtLeast
  <1>6. ASSUME q * i <= MaxTime
        PROVE  WholeSamples(x, i) % i = 0
    <2>1. \A k \in Nat : (i * k) % i = 0
      <3> SUFFICES ASSUME NEW k \in Nat PROVE (i * k) % i = 0
        OBVIOUS
      <3>1. i * k + 0 = i * k
        OBVIOUS
      <3>2. QED
        BY <3>1, QuotientIs
    <2>2. Saturated(q * i) = i * q
      BY <1>2, <1>6 DEF Saturated
    <2>3. WholeSamples(x, i) = i * q \/ WholeSamples(x, i) = i
      BY <1>4, <2>2 DEF AtLeast
    <2>4. i * 1 = i
      OBVIOUS
    <2>5. QED
      BY <1>1, <2>1, <2>3, <2>4
  <1>7. QED
    BY <1>5, <1>6 DEF q

(* The smallest multiple of i that is no less than x is one of those that  *)
(* are.                                                                    *)
LEMMA RoundedUpIsLeast ==
  ASSUME NEW x \in Nat, NEW i \in Nat \ {0}, NEW k \in Nat, x <= i * k
  PROVE  DivCeil(x, i) * i <= i * k
  <1> DEFINE q == DivCeil(x, i)
  <1>1. q \in Nat /\ i * q <= x + i - 1
    BY RoundedUp
  <1> HIDE DEF q
  <1>2. i * (k + 1) = i * k + i /\ i * k \in Nat /\ i * q \in Nat
    BY <1>1
  <1>3. i * q < i * (k + 1)
    BY <1>1, <1>2
  <1>4. q < k + 1
    BY <1>1, <1>3, ProductOrder
  <1>5. i * q <= i * k
    BY <1>1, <1>4, ProductGrows
  <1>6. q * i = i * q
    BY <1>1
  <1>7. QED
    BY <1>5, <1>6 DEF q

(* The first width is no more than half of the times there are, or one     *)
(* interval: rounding it up never takes it past the last u64.              *)
LEMMA FirstIsNeverCutOff ==
  ASSUME NEW span \in 1 .. MaxTime, NEW points \in Nat, points >= 2, NEW i \in 1 .. MaxTime
  PROVE  /\ DivCeil(span, points) \in 0 .. MaxTime
         /\ DivCeil(DivCeil(span, points), i) * i <= MaxTime
  <1> DEFINE x == DivCeil(span, points)
  <1>1. x \in Nat /\ span <= points * x /\ points * x <= span + points - 1
    BY RoundedUp
  <1> HIDE DEF x
  <1>2. x >= 1
    BY <1>1
  <1>3. points * (x - 1) = points * x - points
    BY <1>1
  <1>4. 2 * (x - 1) <= points * (x - 1)
    BY <1>1, <1>2
  <1>5. 2 * (x - 1) <= MaxTime - 1
    <2>1. points * x \in Nat
      BY <1>1
    <2>2. points * (x - 1) <= span - 1
      BY <1>1, <1>3, <2>1
    <2>3. x - 1 \in Nat /\ points * (x - 1) \in Nat
      BY <1>1, <1>2
    <2>4. QED
      BY <1>4, <2>2, <2>3
  <1>6. x \in 0 .. MaxTime
    BY <1>1, <1>2, <1>5
  <1>7. DivCeil(x, i) \in Nat /\ i * DivCeil(x, i) <= x + i - 1
    BY <1>1, RoundedUp
  <1>8. DivCeil(x, i) * i = i * DivCeil(x, i) /\ DivCeil(x, i) * i \in Nat
    BY <1>7
  <1>9. DivCeil(x, i) * i <= MaxTime
    <2>1. CASE x <= i
      <3>1. x <= i * 1 /\ i * 1 = i
        BY <2>1
      <3>2. DivCeil(x, i) * i <= i * 1
        BY <1>1, <3>1, RoundedUpIsLeast
      <3>3. QED
        BY <1>8, <3>1, <3>2
    <2>2. CASE i < x
      BY <1>1, <1>5, <1>7, <1>8, <2>2
    <2>3. QED
      BY <1>1, <2>1, <2>2
  <1>10. QED
    BY <1>6, <1>9 DEF x

(* Nor does widening, as long as there is room for twice the width.        *)
LEMMA WiderIsNeverCutOff ==
  ASSUME NEW s \in 1 .. MaxTime, 2 * s <= MaxTime, NEW i \in 1 .. MaxTime, s % i = 0
  PROVE  /\ Saturated(s + DivCeil(s, 8)) \in s .. MaxTime
         /\ DivCeil(Saturated(s + DivCeil(s, 8)), i) * i <= MaxTime
  <1> DEFINE y == s + DivCeil(s, 8)
             k == s \div i
  <1>1. DivCeil(s, 8) \in Nat /\ 8 * DivCeil(s, 8) <= s + 7
    BY RoundedUp
  <1>2. y \in Nat /\ s <= y /\ y <= 2 * s
    BY <1>1
  <1>3. k \in Nat /\ s = i * k
    <2>1. k \in Nat /\ s = i * k + (s % i)
      BY Division
    <2>2. QED
      BY <2>1
  <1> HIDE DEF y, k
  <1>4. Saturated(y) = y
    BY <1>2 DEF Saturated
  <1>5. i * (2 * k) = 2 * s
    BY <1>3
  <1>6. DivCeil(y, i) * i <= i * (2 * k)
    <2>1. 2 * k \in Nat /\ y <= i * (2 * k)
      BY <1>2, <1>3, <1>5
    <2>2. QED
      BY <1>2, <2>1, RoundedUpIsLeast
  <1>7. DivCeil(y, i) * i <= MaxTime
    <2>1. DivCeil(y, i) \in Nat
      BY <1>2, RoundedUp
    <2>2. DivCeil(y, i) * i \in Nat
      BY <2>1
    <2>3. QED
      BY <1>5, <1>6, <2>2
  <1>8. Saturated(y) \in s .. MaxTime /\ DivCeil(Saturated(y), i) * i <= MaxTime
    BY <1>2, <1>4, <1>7
  <1>9. QED
    BY <1>8 DEF y

-----------------------------------------------------------------------------
(* The loop.                                                               *)

Span == Saturated(query.last - query.first + 1)

(* The width is a whole number of samples, and the points asked for, this  *)
(* wide, are as long as the range.                                         *)
WidthIsSound ==
  /\ query \in Query /\ step \in 0 .. MaxTime /\ step % Interval = 0
  /\ step > 0 => Span <= MaxPoints * step
  /\ done => step > 0 /\ Fits

LEMMA Arguments ==
  ASSUME query \in Query
  PROVE  /\ query.first \in 0 .. MaxTime /\ query.last \in 0 .. MaxTime
         /\ query.first <= query.last
         /\ Interval \in 1 .. MaxTime /\ MaxPoints \in 2 .. MaxTime - 1
         /\ Span \in 1 .. MaxTime
  <1>1. /\ query.first \in 0 .. MaxTime /\ query.last \in 0 .. MaxTime
        /\ query.first <= query.last /\ query.points \in Points /\ query.interval \in Intervals
    BY DEF Query
  <1>2. Interval \in 1 .. MaxTime
    <2>1. query.interval \in 0 .. MaxTime /\ MaxTime > 2
      BY <1>1, IntervalsAssumption, PointsAssumption
    <2>2. QED
      BY <2>1 DEF Interval, AtLeast
  <1>3. MaxPoints \in 2 .. MaxTime - 1
    <2>1. query.points \in 0 .. MaxTime - 1 /\ MaxTime > 2
      BY <1>1, PointsAssumption
    <2>2. QED
      BY <2>1 DEF MaxPoints, AtLeast
  <1>4. Span \in 1 .. MaxTime
    BY <1>1, PointsAssumption DEF Span, Saturated
  <1>5. QED
    BY <1>1, <1>2, <1>3, <1>4

LEMMA StartIsSound ==
  ASSUME WidthIsSound, Start
  PROVE  WidthIsSound'
  <1> DEFINE x == DivCeil(Span, MaxPoints)
  <1>1. /\ Interval \in 1 .. MaxTime /\ MaxPoints \in 2 .. MaxTime - 1 /\ Span \in 1 .. MaxTime
    BY Arguments DEF WidthIsSound
  <1>2. x \in 0 .. MaxTime /\ DivCeil(x, Interval) * Interval <= MaxTime
    BY <1>1, FirstIsNeverCutOff
  <1>3. Span <= MaxPoints * x
    BY <1>1, RoundedUp
  <1> HIDE DEF x
  <1>4. step' = WholeSamples(x, Interval)
    BY DEF Start, FirstStep, Span, x
  <1>5. step' \in 1 .. MaxTime /\ x <= step' /\ step' % Interval = 0
    BY <1>1, <1>2, <1>4, WholeSamplesRoundsUp
  <1>6. MaxPoints \in Nat /\ x \in Nat /\ step' \in Nat
    BY <1>1, <1>2, <1>5
  <1>7. Span <= MaxPoints * step'
    <2>1. Span \in Nat
      BY <1>1
    <2>2. QED
      BY <1>3, <1>5, <1>6, <2>1, StillEnough
  <1>8. query' = query /\ done' = done /\ ~done
    BY DEF Start, WidthIsSound
  <1>9. Interval' = Interval /\ MaxPoints' = MaxPoints /\ Span' = Span
    BY <1>8 DEF Interval, MaxPoints, Span
  <1>10. QED
    BY <1>5, <1>7, <1>8, <1>9 DEF WidthIsSound

(* A width that gives three buckets leaves room for twice the width.       *)
LEMMA TooNarrowIsHalf ==
  ASSUME WidthIsSound, step > 0, ~Fits
  PROVE  2 * step <= MaxTime
  <1> DEFINE h == BucketsHolding(query.first, query.last, step)
  <1>1. /\ query.first \in 0 .. MaxTime /\ query.last \in 0 .. MaxTime
        /\ query.first <= query.last /\ MaxPoints \in 2 .. MaxTime - 1
    BY Arguments DEF WidthIsSound
  <1>2. step \in Nat \ {0} /\ query.first \in Nat /\ query.last \in Nat
    BY <1>1 DEF WidthIsSound
  <1>3. h \in Nat \ {0} /\ BucketCount(query.first, query.last, step) = h % (MaxTime + 1)
    BY <1>1, <1>2, CountIsHolding
  <1>4. step * (h - 1) <= query.last
    BY <1>1, <1>2, WideBucketsAreFew
  <1> HIDE DEF h
  <1>5. h % (MaxTime + 1) <= h
    BY <1>3
  <1>6. h % (MaxTime + 1) \in Nat /\ h % (MaxTime + 1) > MaxPoints
    <2>1. h % (MaxTime + 1) \in Nat
      BY <1>3
    <2>2. ~(h % (MaxTime + 1) <= MaxPoints)
      BY <1>3 DEF Fits
    <2>3. QED
      BY <1>1, <2>1, <2>2
  <1>7. h - 1 \in Nat /\ 2 <= h - 1
    BY <1>1, <1>3, <1>5, <1>6
  <1>8. step * 2 <= step * (h - 1)
    BY <1>2, <1>7, ProductGrows
  <1>9. step * (h - 1) \in Nat /\ step * 2 = 2 * step
    BY <1>2, <1>7
  <1>10. QED
    BY <1>1, <1>2, <1>4, <1>8, <1>9

LEMMA WidenIsSound ==
  ASSUME WidthIsSound, Widen
  PROVE  WidthIsSound'
  <1> DEFINE y == Saturated(step + DivCeil(step, 8))
  <1>1. Interval \in 1 .. MaxTime /\ MaxPoints \in 2 .. MaxTime - 1 /\ Span \in 1 .. MaxTime
    BY Arguments DEF WidthIsSound
  <1>2. step \in 1 .. MaxTime /\ step % Interval = 0 /\ Span <= MaxPoints * step
    BY DEF Widen, WidthIsSound
  <1>3. 2 * step <= MaxTime
    BY TooNarrowIsHalf DEF Widen
  <1>4. y \in step .. MaxTime /\ DivCeil(y, Interval) * Interval <= MaxTime
    BY <1>1, <1>2, <1>3, WiderIsNeverCutOff
  <1> HIDE DEF y
  <1>5. step' = WholeSamples(y, Interval)
    BY DEF Widen, Wider, y
  <1>6. y \in 0 .. MaxTime
    BY <1>2, <1>4
  <1>7. step' \in 1 .. MaxTime /\ y <= step' /\ step' % Interval = 0
    BY <1>1, <1>4, <1>5, <1>6, WholeSamplesRoundsUp
  <1>8. MaxPoints \in Nat /\ step \in Nat /\ step' \in Nat /\ step <= step'
    BY <1>1, <1>2, <1>4, <1>7
  <1>9. Span <= MaxPoints * step'
    <2>1. Span \in Nat
      BY <1>1
    <2>2. QED
      BY <1>2, <1>8, <2>1, StillEnough
  <1>10. query' = query /\ done' = done /\ ~done
    BY DEF Widen
  <1>11. Interval' = Interval /\ MaxPoints' = MaxPoints /\ Span' = Span
    BY <1>10 DEF Interval, MaxPoints, Span
  <1>12. QED
    BY <1>7, <1>9, <1>10, <1>11 DEF WidthIsSound

LEMMA WidthInvariant == Spec => []WidthIsSound
  <1>1. Init => WidthIsSound
    <2> SUFFICES ASSUME Init PROVE WidthIsSound
      OBVIOUS
    <2>1. query \in Query /\ step = 0 /\ done = FALSE
      BY DEF Init
    <2>2. 0 % Interval = 0
      BY <2>1, Arguments
    <2>3. QED
      BY <2>1, <2>2 DEF WidthIsSound
  <1>2. WidthIsSound /\ [Next]_vars => WidthIsSound'
    <2> SUFFICES ASSUME WidthIsSound, [Next]_vars PROVE WidthIsSound'
      OBVIOUS
    <2>1. CASE Return \/ UNCHANGED vars
      <3>1. query' = query /\ step' = step
        BY <2>1 DEF Return, vars
      <3>2. Interval' = Interval /\ MaxPoints' = MaxPoints /\ Span' = Span /\ Fits' = Fits
        BY <3>1 DEF Interval, MaxPoints, Span, Fits
      <3>3. done' => step > 0 /\ Fits
        BY <2>1 DEF Return, vars, WidthIsSound
      <3>4. QED
        BY <3>1, <3>2, <3>3 DEF WidthIsSound
    <2>2. QED
      BY <2>1, StartIsSound, WidenIsSound DEF Next
  <1>3. QED
    BY <1>1, <1>2, PTL DEF Spec

-----------------------------------------------------------------------------
(* A count that fits has not wrapped.                                      *)
LEMMA FittingIsTrue ==
  ASSUME WidthIsSound, done
  PROVE  BucketsHolding(query.first, query.last, step) <= MaxPoints
  <1> DEFINE h == BucketsHolding(query.first, query.last, step)
  <1>1. /\ query.first \in 0 .. MaxTime /\ query.last \in 0 .. MaxTime
        /\ query.first <= query.last /\ MaxPoints \in 2 .. MaxTime - 1
    BY Arguments DEF WidthIsSound
  <1>2. step \in Nat \ {0} /\ query.first \in Nat /\ query.last \in Nat
    BY <1>1 DEF WidthIsSound
  <1>3. h \in Nat \ {0} /\ BucketCount(query.first, query.last, step) = h % (MaxTime + 1)
    BY <1>1, <1>2, CountIsHolding
  <1>4. step * (h - 1) <= query.last /\ h <= query.last - query.first + 1
    BY <1>1, <1>2, WideBucketsAreFew
  <1> HIDE DEF h
  <1>5. h % (MaxTime + 1) <= MaxPoints
    BY <1>3 DEF WidthIsSound, Fits
  <1>6. CASE h <= MaxTime
    <2>1. h % (MaxTime + 1) = h
      BY <1>3, <1>6
    <2>2. QED
      BY <1>5, <2>1 DEF h
  <1>7. CASE ~(h <= MaxTime)
    <2>1. h = MaxTime + 1 /\ query.first = 0 /\ query.last = MaxTime
      BY <1>1, <1>3, <1>4, <1>7
    <2>2. step = 1
      <3>1. step * MaxTime <= MaxTime
        BY <1>4, <2>1
      <3>2. MaxTime * step < MaxTime * 2
        BY <1>2, <3>1, PointsAssumption
      <3>3. step < 2
        BY <1>2, <3>2, ProductOrder, PointsAssumption
      <3>4. QED
        BY <1>2, <3>3
    <2>3. Span = MaxTime
      BY <2>1 DEF Span, Saturated
    <2>4. MaxTime <= MaxPoints * 1
      BY <2>2, <2>3 DEF WidthIsSound
    <2>5. QED
      BY <1>1, <2>4
  <1>8. QED
    BY <1>6, <1>7

(* The data never falls into more buckets than were asked for.             *)
THEOREM WidthGivesFewEnough == Spec => []NoMoreThanAsked
  <1>1. WidthIsSound => NoMoreThanAsked
    BY FittingIsTrue DEF NoMoreThanAsked
  <1>2. QED
    BY <1>1, WidthInvariant, PTL

(* Every width tried is a u64, and no sum or product has been cut off.     *)
THEOREM WidthIsOfWholeSamples == Spec => []WholeNumberOfSamples
  <1>1. WidthIsSound => WholeNumberOfSamples
    BY DEF WidthIsSound, WholeNumberOfSamples
  <1>2. QED
    BY <1>1, WidthInvariant, PTL

-----------------------------------------------------------------------------
(* The search comes to an end.                                             *)

(* A width is widened only while it is less than the data, and the next    *)
(* one is at least an eighth wider.                                        *)
SearchConverges ==
  [][Widen => step < query.last - query.first /\ 9 * step <= 8 * step']_vars

(* Three buckets or more: the data is wider than the one in the middle.    *)
LEMMA ThreeBucketsAreWide ==
  ASSUME NEW first \in Nat, NEW last \in Nat, NEW s \in Nat \ {0},
         2 < BucketsHolding(first, last, s)
  PROVE  s < last - first
  <1> DEFINE p == first \div s
             q == last \div s
  <1>1. /\ p \in Nat /\ q \in Nat
        /\ first < s * p + s /\ s * q <= last
    <2>1. /\ p \in Nat /\ first % s \in 0 .. s - 1 /\ first = s * p + (first % s)
      BY Division
    <2>2. /\ q \in Nat /\ last % s \in 0 .. s - 1 /\ last = s * q + (last % s)
      BY Division
    <2> DEFINE a == s * p
               b == s * q
    <2>3. a \in Nat /\ b \in Nat
      BY <2>1, <2>2
    <2> HIDE DEF p, q, a, b
    <2>4. first < a + s /\ b <= last
      BY <2>1, <2>2, <2>3 DEF a, b
    <2>5. QED
      BY <2>1, <2>2, <2>4 DEF a, b
  <1>2. p + 2 <= q
    BY <1>1 DEF BucketsHolding
  <1> HIDE DEF p, q
  <1>3. s * (p + 2) <= s * q
    BY <1>1, <1>2, ProductGrows
  <1>4. s * (p + 2) = s * p + s + s /\ s * p \in Nat /\ s * q \in Nat
    BY <1>1
  <1>5. QED
    BY <1>1, <1>3, <1>4

LEMMA NarrowerThanTheData ==
  ASSUME WidthIsSound, step > 0, ~Fits
  PROVE  step < query.last - query.first
  <1> DEFINE h == BucketsHolding(query.first, query.last, step)
  <1>1. /\ query.first \in 0 .. MaxTime /\ query.last \in 0 .. MaxTime
        /\ query.first <= query.last /\ MaxPoints \in 2 .. MaxTime - 1
    BY Arguments DEF WidthIsSound
  <1>2. step \in Nat \ {0} /\ query.first \in Nat /\ query.last \in Nat
    BY <1>1 DEF WidthIsSound
  <1>3. h \in Nat \ {0} /\ BucketCount(query.first, query.last, step) = h % (MaxTime + 1)
    BY <1>1, <1>2, CountIsHolding
  <1>4. (2 < h) => step < query.last - query.first
    BY <1>2, ThreeBucketsAreWide
  <1> HIDE DEF h
  <1>5. h % (MaxTime + 1) \in Nat /\ h % (MaxTime + 1) <= h
    BY <1>3
  <1>6. ~(h % (MaxTime + 1) <= MaxPoints)
    BY <1>3 DEF Fits
  <1>7. 2 < h
    BY <1>1, <1>3, <1>5, <1>6
  <1>8. QED
    BY <1>4, <1>7

LEMMA AnEighthMore ==
  ASSUME NEW s \in Nat, NEW c \in Nat, NEW w \in Nat, s <= 8 * c, s + c <= w
  PROVE  9 * s <= 8 * w
  OBVIOUS

LEMMA WiderByAnEighth ==
  ASSUME WidthIsSound, Widen
  PROVE  9 * step <= 8 * step'
  <1> DEFINE c == DivCeil(step, 8)
             y == Saturated(step + c)
  <1>1. Interval \in 1 .. MaxTime /\ step \in 1 .. MaxTime
    BY Arguments DEF WidthIsSound, Widen
  <1>2. 2 * step <= MaxTime
    BY TooNarrowIsHalf DEF Widen
  <1>3. c \in Nat /\ step <= 8 * c /\ 8 * c <= step + 7
    BY <1>1, RoundedUp
  <1> HIDE DEF c
  <1>4. y = step + c /\ y \in 0 .. MaxTime
    BY <1>1, <1>2, <1>3 DEF Saturated
  <1>5. step' = WholeSamples(y, Interval)
    BY DEF Widen, Wider, y, c
  <1> HIDE DEF y
  <1>6. step' \in 1 .. MaxTime /\ y <= step'
    BY <1>1, <1>4, <1>5, WholeSamplesRoundsUp
  <1>7. step \in Nat /\ step' \in Nat /\ step + c <= step'
    BY <1>1, <1>4, <1>6
  <1>8. QED
    BY <1>3, <1>7, AnEighthMore

(* "Ending for certain once one bucket is at least as wide as the data":   *)
(* the loop turns only while a bucket is narrower than that, and each turn *)
(* makes it wider by an eighth at least, so it ends within a few hundred   *)
(* turns on any range a u64 can hold.                                      *)
THEOREM SearchAlwaysConverges == Spec => SearchConverges
  <1>1. WidthIsSound /\ [Next]_vars
          => [Widen => step < query.last - query.first /\ 9 * step <= 8 * step']_vars
    <2> SUFFICES ASSUME WidthIsSound, Widen
                 PROVE  step < query.last - query.first /\ 9 * step <= 8 * step'
      OBVIOUS
    <2>1. step > 0 /\ ~Fits
      BY DEF Widen
    <2>2. QED
      BY <2>1, NarrowerThanTheData, WiderByAnEighth
  <1>2. QED
    BY <1>1, WidthInvariant, PTL DEF Spec, SearchConverges
=============================================================================
