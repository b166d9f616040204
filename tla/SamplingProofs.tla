-------------------------- MODULE SamplingProofs --------------------------
(***************************************************************************)
(* Proofs about Sampling.tla for every interval, flush interval, grace,    *)
(* delay and clock: when turns and flushes are due, what time samples get, *)
(* and that only the end of time makes the store refuse one.               *)
(***************************************************************************)
EXTENDS Sampling, TLAPS

Stamps == 0 .. MaxTime \union {None}

TypeOK ==
  /\ pc \in {"down", "turn", "asleep"}
  /\ up \in Nat /\ started \in Nat /\ next \in Nat /\ flushed \in Nat
  /\ turns \in Nat /\ unflushed \in Nat
  /\ late \in BOOLEAN /\ waiting \in BOOLEAN /\ refused \in BOOLEAN
  /\ bumped \in BOOLEAN /\ stepped \in BOOLEAN
  /\ loaded \in Stamps /\ newest \in Stamps /\ told \in Stamps /\ saved \in Stamps

(* A turn is not due before it is taken: the sleep before it ended first.  *)
TurnIsDue == pc = "turn" => next <= up

(* The turn after the last flush is due no earlier than that flush, and    *)
(* every later one an interval after the one before it at least.           *)
TurnsSinceFlush == flushed + unflushed * Interval <= next

(* Until the grace is over a clock that goes forward is ahead of the       *)
(* newest record, unless that is the one that was loaded.                  *)
ClockLeads ==
  ~stepped /\ up < started + Grace =>
    newest = loaded \/ (told # None /\ newest # None /\ newest <= told)

(* How a run is paced, and what time its samples get.                      *)
Paced == TurnIsDue /\ TurnsSinceFlush /\ FlushesInTime /\ SleepsAtMostAnInterval /\ NoDrift
Timed == RefusedOnlyAtTheEnd /\ ClockLeads /\ TimesAreTheClocks

USE IntervalAssumption, ClockAssumption

-----------------------------------------------------------------------------
(* A timestamp is one the store can hold, and comes after the newest unless*)
(* that is the last there is.                                              *)
LEMMA TimestampIsLater ==
  ASSUME TypeOK, NEW clock \in Clock
  PROVE  /\ Timestamp(clock) \in 0 .. MaxTime
         /\ newest # None /\ newest # MaxTime => Timestamp(clock) > newest
  <1>1. CASE newest = None
    BY <1>1 DEF Timestamp
  <1>2. CASE newest # None /\ newest # MaxTime
    <2>1. newest \in 0 .. MaxTime /\ newest + 1 \in 0 .. MaxTime
      BY <1>2 DEF TypeOK, Stamps
    <2>2. (newest + 1) % (MaxTime + 1) = newest + 1
      BY <2>1
    <2>3. QED
      BY <1>2, <2>1, <2>2 DEF Timestamp
  <1>3. CASE newest # None /\ newest = MaxTime
    <2>1. (newest + 1) % (MaxTime + 1) = 0
      BY <1>3
    <2>2. QED
      BY <1>3, <2>1 DEF Timestamp
  <1>4. QED
    BY <1>1, <1>2, <1>3

(* The next turn is due after this one has ended, and within an interval.  *)
LEMMA NextTurnIsAhead ==
  ASSUME next \in Nat, NEW after \in Nat, next <= after
  PROVE  /\ NextTurn(after) \in Nat
         /\ after < NextTurn(after) /\ NextTurn(after) <= after + Interval
         /\ ~(next + Interval <= after) => NextTurn(after) = next + Interval
  BY DEF NextTurn

(* Of a clock that goes forward the time given to a sample is the reading  *)
(* itself, unless the sample is held back.                                 *)
LEMMA TimestampIsTheClocks ==
  ASSUME TypeOK, ClockLeads, NEW first \in Clock, NEW second \in Clock, NEW at \in Nat, up <= at,
         ~stepped, up < started + Grace, at < started + Grace, ~Behind(first, at),
         first <= second, told # None => first > told
  PROVE  Timestamp(second) = second
  <1>1. newest \in Stamps /\ first \in 0 .. MaxTime /\ second \in 0 .. MaxTime
    BY DEF TypeOK
  <1>2. newest # None => newest < second
    <2>1. CASE newest = loaded
      BY <1>1, <2>1 DEF Behind, TypeOK, Stamps
    <2>2. CASE told # None /\ newest # None /\ newest <= told
      BY <1>1, <2>2 DEF TypeOK, Stamps
    <2>3. QED
      BY <2>1, <2>2 DEF ClockLeads
  <1>3. newest # None => newest + 1 \in 0 .. MaxTime /\ newest + 1 <= second
    BY <1>1, <1>2 DEF Stamps
  <1>4. newest # None => (newest + 1) % (MaxTime + 1) = newest + 1
    BY <1>3
  <1>5. QED
    BY <1>1, <1>3, <1>4 DEF Timestamp

-----------------------------------------------------------------------------
(* A run begins with everything due at once.                               *)
LEMMA FreshIsOnTime ==
  ASSUME NEW begun \in Nat, Fresh(begun), newest' = loaded', loaded' \in Stamps, saved' \in Stamps,
         pc' \in {"down", "turn"}
  PROVE  (TypeOK /\ Paced /\ Timed)'
  <1>1. TypeOK'
    BY DEF Fresh, TypeOK, Stamps
  <1>2. Paced'
    <2>1. 0 * Interval = 0
      OBVIOUS
    <2>2. QED
      BY <2>1 DEF Fresh, Paced, TurnIsDue, TurnsSinceFlush, FlushesInTime,
                  SleepsAtMostAnInterval, NoDrift
  <1>3. Timed'
    BY DEF Fresh, Timed, RefusedOnlyAtTheEnd, ClockLeads, TimesAreTheClocks
  <1>4. QED
    BY <1>1, <1>2, <1>3

LEMMA InitOnTime == Init => TypeOK /\ Paced /\ Timed
  <1> SUFFICES ASSUME Init PROVE TypeOK /\ Paced /\ Timed
    OBVIOUS
  <1>1. TypeOK
    BY DEF Init, TypeOK, Stamps
  <1>2. 0 * Interval = 0
    OBVIOUS
  <1>3. Paced
    BY <1>2 DEF Init, Paced, TurnIsDue, TurnsSinceFlush, FlushesInTime,
                SleepsAtMostAnInterval, NoDrift
  <1>4. Timed
    BY DEF Init, Timed, RefusedOnlyAtTheEnd, ClockLeads, TimesAreTheClocks
  <1>5. QED
    BY <1>1, <1>3, <1>4

LEMMA StartOnTime ==
  ASSUME TypeOK, Start
  PROVE  (TypeOK /\ Paced /\ Timed)'
  <1>1. newest' \in Stamps /\ loaded' = newest' /\ saved' = newest' /\ pc' = "turn"
    BY DEF Start, TypeOK, Stamps
  <1>2. PICK begun \in 0 .. MaxDelay : Fresh(begun)
    BY DEF Start
  <1>3. QED
    BY <1>1, <1>2, FreshIsOnTime

LEMMA KillOnTime ==
  ASSUME TypeOK, Kill
  PROVE  (TypeOK /\ Paced /\ Timed)'
  BY FreshIsOnTime DEF Kill, TypeOK, Stamps

-----------------------------------------------------------------------------
(* What a turn does to the times of samples.                               *)
LEMMA RecordIsTimed ==
  ASSUME TypeOK, Timed, NEW first \in Clock, NEW second \in Clock, NEW at \in Nat, up <= at,
         Record(first, second, at), up' \in Nat, at <= up', started' = started
  PROVE  /\ newest' \in Stamps /\ loaded' \in Stamps /\ told' \in Stamps
         /\ waiting' \in BOOLEAN /\ refused' \in BOOLEAN
         /\ bumped' \in BOOLEAN /\ stepped' \in BOOLEAN
         /\ Timed'
  <1> DEFINE held == Behind(first, at)
             t == Timestamp(second)
             ok == newest = None \/ t > newest
             steps == stepped \/ (told # None /\ first <= told) \/ (~held /\ second < first)
  <1>1. /\ waiting' = held
        /\ newest' = IF ~held /\ ok THEN t ELSE newest
        /\ refused' = (~held /\ ~ok)
        /\ bumped' = (~held /\ ok /\ t # second)
        /\ stepped' = steps
        /\ told' = IF stepped' THEN None ELSE IF held THEN first ELSE second
        /\ loaded' = loaded
    BY DEF Record
  <1>2. /\ t \in 0 .. MaxTime
        /\ newest # None /\ newest # MaxTime => t > newest
        /\ first \in 0 .. MaxTime /\ second \in 0 .. MaxTime
    BY TimestampIsLater
  <1>3. /\ newest' \in Stamps /\ loaded' \in Stamps /\ told' \in Stamps
        /\ waiting' \in BOOLEAN /\ refused' \in BOOLEAN
        /\ bumped' \in BOOLEAN /\ stepped' \in BOOLEAN
    <2>1. held \in BOOLEAN
      BY DEF Behind
    <2>2. newest' \in Stamps /\ loaded' \in Stamps /\ told' \in Stamps
      BY <1>1, <1>2 DEF TypeOK, Stamps
    <2>3. steps \in BOOLEAN
      BY DEF TypeOK
    <2>4. QED
      BY <1>1, <2>1, <2>2, <2>3
  <1>4. RefusedOnlyAtTheEnd'
    <2>1. refused' => newest' = newest /\ newest # None /\ ~(t > newest)
      BY <1>1
    <2>2. QED
      BY <1>2, <2>1 DEF RefusedOnlyAtTheEnd
  <1>5. ASSUME ~stepped', up' < started' + Grace
        PROVE  /\ ~held => t = second
               /\ newest' = loaded' \/ (told' # None /\ newest' # None /\ newest' <= told')
    <2>1. /\ ~stepped /\ (told # None => first > told) /\ (~held => first <= second)
          /\ up < started + Grace /\ at < started + Grace
      <3>1. ~stepped /\ ~(told # None /\ first <= told) /\ ~(~held /\ second < first)
        BY <1>1, <1>5
      <3>2. /\ told \in Stamps /\ up \in Nat /\ started \in Nat /\ started' = started
            /\ up <= up'
        BY DEF TypeOK
      <3>3. up < started + Grace /\ at < started + Grace
        BY <1>5, <3>2
      <3>4. (told # None => first > told) /\ (~held => first <= second)
        BY <1>2, <3>1, <3>2 DEF Stamps
      <3>5. QED
        BY <3>1, <3>3, <3>4
    <2>2. ~held => t = second
      BY <2>1, TimestampIsTheClocks DEF Timed
    <2>3. told' = IF held THEN first ELSE second
      BY <1>1, <1>5
    <2>4. told' # None /\ told' \in 0 .. MaxTime /\ first <= told'
      BY <1>2, <2>1, <2>3
    <2>5. CASE newest' = t /\ ~held
      BY <1>2, <2>2, <2>3, <2>4, <2>5
    <2>6. CASE newest' = newest
      <3>1. newest = loaded \/ (told # None /\ newest # None /\ newest <= told)
        BY <2>1 DEF Timed, ClockLeads
      <3>2. CASE newest = loaded
        BY <1>1, <2>2, <2>6, <3>2
      <3>3. CASE told # None /\ newest # None /\ newest <= told
        <4>1. newest \in 0 .. MaxTime /\ told \in 0 .. MaxTime
          BY <3>3 DEF TypeOK, Stamps
        <4>2. newest <= first
          BY <1>2, <2>1, <3>3, <4>1
        <4>3. newest' # None /\ newest' <= told'
          BY <1>2, <2>4, <2>6, <3>3, <4>1, <4>2
        <4>4. QED
          BY <2>2, <2>4, <4>3
      <3>4. QED
        BY <3>1, <3>2, <3>3
    <2>7. QED
      BY <1>1, <2>2, <2>5, <2>6
  <1>6. ClockLeads'
    BY <1>5 DEF ClockLeads
  <1>7. TimesAreTheClocks'
    <2>1. ~(up' < started' + Grace) => up' >= started' + Grace
      BY DEF TypeOK
    <2>2. bumped' => ~held /\ t # second
      BY <1>1
    <2>3. QED
      BY <1>5, <2>1, <2>2 DEF TimesAreTheClocks
  <1>8. QED
    BY <1>3, <1>4, <1>6, <1>7 DEF Timed

(* A flush is found due before the turns since the last one are more than  *)
(* fit its interval and one, and the pace of turns goes on from there.     *)
LEMMA TurnIsPaced ==
  ASSUME TypeOK, Paced, pc = "turn", pc' = "asleep",
         NEW at \in Nat, NEW set \in Nat, NEW after \in Nat,
         up <= at, at <= set, set <= after, FlushIfDue(at, set), Pace(after)
  PROVE  /\ up' \in Nat /\ next' \in Nat /\ turns' \in Nat /\ late' \in BOOLEAN
         /\ started' \in Nat /\ flushed' \in Nat /\ unflushed' \in Nat
         /\ Paced'
  <1>1. /\ up \in Nat /\ next \in Nat /\ turns \in Nat /\ late \in BOOLEAN
        /\ started \in Nat /\ flushed \in Nat /\ unflushed \in Nat
        /\ next <= up
    BY DEF TypeOK, Paced, TurnIsDue
  <1>2. /\ up' = after /\ next' = NextTurn(after) /\ turns' = turns + 1 /\ started' = started
        /\ late' = (late \/ next + Interval <= after)
    BY DEF Pace
  <1>3. /\ next' \in Nat /\ after < next' /\ next' <= after + Interval
        /\ ~(next + Interval <= after) => next' = next + Interval
    BY <1>1, <1>2, NextTurnIsAhead
  <1>4. next + Interval <= next'
    BY <1>1, <1>3
  <1>5. /\ flushed' = IF FlushDue(at) THEN set ELSE flushed
        /\ unflushed' = IF FlushDue(at) THEN 0 ELSE unflushed + 1
    BY DEF FlushIfDue
  <1>6. TurnsSinceFlush' /\ FlushesInTime'
    <2>1. flushed + unflushed * Interval <= next /\ unflushed * Interval \in Nat
      BY <1>1 DEF Paced, TurnsSinceFlush
    <2>2. CASE FlushDue(at)
      <3>1. unflushed' * Interval = 0
        BY <1>5, <2>2
      <3>2. flushed' + 0 <= next' /\ 0 < FlushInterval + Interval
        BY <1>3, <1>5, <2>2
      <3>3. QED
        BY <3>1, <3>2 DEF TurnsSinceFlush, FlushesInTime
    <2>3. CASE ~FlushDue(at)
      <3>1. unflushed' * Interval = unflushed * Interval + Interval /\ flushed' = flushed
        BY <1>1, <1>5, <2>3
      <3>2. at < flushed + FlushInterval
        BY <1>1, <2>3 DEF FlushDue
      <3>3. unflushed * Interval < FlushInterval
        BY <1>1, <2>1, <3>2
      <3>4. /\ flushed' + (unflushed * Interval + Interval) <= next'
            /\ unflushed * Interval + Interval < FlushInterval + Interval
        BY <1>1, <1>3, <1>4, <2>1, <3>1, <3>3
      <3>5. QED
        BY <3>1, <3>4 DEF TurnsSinceFlush, FlushesInTime
    <2>4. QED
      BY <2>2, <2>3
  <1>7. NoDrift'
    <2>1. ~late' => ~late /\ ~(next + Interval <= after)
      BY <1>2
    <2>2. ~late' => next' = started + turns * Interval + Interval
      BY <1>3, <2>1 DEF Paced, NoDrift
    <2>3. (turns + 1) * Interval = turns * Interval + Interval /\ turns * Interval \in Nat
      BY <1>1
    <2>4. QED
      BY <1>1, <1>2, <2>2, <2>3 DEF NoDrift
  <1>8. SleepsAtMostAnInterval' /\ TurnIsDue'
    BY <1>2, <1>3 DEF SleepsAtMostAnInterval, TurnIsDue
  <1>9. flushed' \in Nat /\ unflushed' \in Nat
    BY <1>1, <1>5
  <1>10. QED
    BY <1>1, <1>2, <1>3, <1>6, <1>7, <1>8, <1>9 DEF Paced

LEMMA TurnOnTime ==
  ASSUME TypeOK, Paced, Timed, Turn
  PROVE  (TypeOK /\ Paced /\ Timed)'
  <1>1. pc = "turn" /\ pc' = "asleep" /\ up \in Nat
    BY DEF Turn, TypeOK
  <1>2. PICK read, at, set, after \in up .. up + MaxDelay :
          /\ read <= at /\ at <= set /\ set <= after
          /\ \E first, second \in Clock : Record(first, second, read)
          /\ FlushIfDue(at, set)
          /\ Pace(after)
    BY DEF Turn
  <1>3. PICK first \in Clock, second \in Clock : Record(first, second, read)
    BY <1>2
  <1>4. /\ read \in Nat /\ at \in Nat /\ set \in Nat /\ after \in Nat
        /\ up <= read /\ up <= at /\ at <= set /\ set <= after /\ read <= after
    BY <1>1, <1>2
  <1>5. /\ up' \in Nat /\ next' \in Nat /\ turns' \in Nat /\ late' \in BOOLEAN
        /\ started' \in Nat /\ flushed' \in Nat /\ unflushed' \in Nat
        /\ Paced'
    BY <1>1, <1>2, <1>4, TurnIsPaced
  <1>6. up' = after /\ started' = started
    BY <1>2 DEF Pace
  <1>7. /\ newest' \in Stamps /\ loaded' \in Stamps /\ told' \in Stamps
        /\ waiting' \in BOOLEAN /\ refused' \in BOOLEAN
        /\ bumped' \in BOOLEAN /\ stepped' \in BOOLEAN
        /\ Timed'
    BY <1>3, <1>4, <1>6, RecordIsTimed
  <1>8. saved' \in Stamps
    BY <1>2, <1>7 DEF FlushIfDue, TypeOK
  <1>9. QED
    BY <1>1, <1>5, <1>7, <1>8 DEF TypeOK

LEMMA WakeOnTime ==
  ASSUME TypeOK, Paced, Timed, Wake
  PROVE  (TypeOK /\ Paced /\ Timed)'
  <1>1. up' \in Nat /\ up <= up' /\ next <= up' /\ pc' = "turn"
    BY DEF Wake, TypeOK
  <1>2. UNCHANGED <<pace, times, saved>>
    BY DEF Wake
  <1>3. TypeOK'
    BY <1>1, <1>2 DEF TypeOK, pace, times
  <1>4. Paced'
    BY <1>1, <1>2 DEF Paced, TurnIsDue, TurnsSinceFlush, FlushesInTime, SleepsAtMostAnInterval,
                      NoDrift, pace
  <1>5. Timed'
    <2>1. up \in Nat /\ started \in Nat
      BY DEF TypeOK
    <2>2. /\ up' < started + Grace => up < started + Grace
          /\ up >= started + Grace => up' >= started + Grace
      BY <1>1, <2>1
    <2>3. QED
      BY <1>2, <2>2 DEF Timed, RefusedOnlyAtTheEnd, ClockLeads, TimesAreTheClocks, pace, times
  <1>6. QED
    BY <1>3, <1>4, <1>5

-----------------------------------------------------------------------------
LEMMA OnTimeInvariant == Spec => [](TypeOK /\ Paced /\ Timed)
  <1>1. Init => TypeOK /\ Paced /\ Timed
    BY InitOnTime
  <1>2. (TypeOK /\ Paced /\ Timed) /\ [Next]_vars => (TypeOK /\ Paced /\ Timed)'
    <2> SUFFICES ASSUME TypeOK, Paced, Timed, [Next]_vars PROVE (TypeOK /\ Paced /\ Timed)'
      OBVIOUS
    <2>1. CASE UNCHANGED vars
      <3>1. UNCHANGED <<pc, up, saved>> /\ UNCHANGED pace /\ UNCHANGED times
        BY <2>1 DEF vars
      <3>2. TypeOK'
        BY <3>1 DEF TypeOK, pace, times
      <3>3. Paced'
        BY <3>1 DEF Paced, TurnIsDue, TurnsSinceFlush, FlushesInTime, SleepsAtMostAnInterval,
                    NoDrift, pace
      <3>4. Timed'
        BY <3>1 DEF Timed, RefusedOnlyAtTheEnd, ClockLeads, TimesAreTheClocks, pace, times
      <3>5. QED
        BY <3>2, <3>3, <3>4
    <2>2. QED
      BY <2>1, StartOnTime, TurnOnTime, WakeOnTime, KillOnTime DEF Next
  <1>3. QED
    BY <1>1, <1>2, PTL DEF Spec

(* However the clock jumps, a sample is refused only when the newest has   *)
(* the last timestamp there is.                                            *)
THEOREM PushesSucceed == Spec => []RefusedOnlyAtTheEnd
  <1>1. Timed => RefusedOnlyAtTheEnd
    BY DEF Timed
  <1>2. QED
    BY <1>1, OnTimeInvariant, PTL

(* While the clock goes forward a sample has the time the clock read,      *)
(* though it was behind the loaded history, until the grace is over.       *)
THEOREM TimesAreRight == Spec => []TimesAreTheClocks
  <1>1. Timed => TimesAreTheClocks
    BY DEF Timed
  <1>2. QED
    BY <1>1, OnTimeInvariant, PTL

(* Between two flushes there are no more turns than begin within the flush *)
(* interval and one, for every pace, delay and moment of the flush.        *)
THEOREM FlushesComeInTime == Spec => []FlushesInTime
  <1>1. Paced => FlushesInTime
    BY DEF Paced
  <1>2. QED
    BY <1>1, OnTimeInvariant, PTL

(* The sleep between turns is never negative, and an interval at most.     *)
THEOREM SleepsAreShort == Spec => []SleepsAtMostAnInterval
  <1>1. Paced => SleepsAtMostAnInterval
    BY DEF Paced
  <1>2. QED
    BY <1>1, OnTimeInvariant, PTL

(* The time that turns take does not add up, however many there are.       *)
THEOREM TurnsDoNotDrift == Spec => []NoDrift
  <1>1. Paced => NoDrift
    BY DEF Paced
  <1>2. QED
    BY <1>1, OnTimeInvariant, PTL
=============================================================================
