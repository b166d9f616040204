------------------------------ MODULE Sampling ------------------------------
(***************************************************************************)
(* The loop of sample_forever in daemon.rs: when it samples, which samples *)
(* it holds back, what time it gives them and when it has them flushed,    *)
(* with a clock that may read anything at every reading, over runs that    *)
(* load what earlier ones saved.                                           *)
(*                                                                         *)
(* `Instant`s are counted from the moment Journal::start notes the first   *)
(* last_flush of a run, in a unit of the model's own; clock readings are   *)
(* in milliseconds.  Of the store only the newest timestamp matters, of    *)
(* the file the newest it holds.                                           *)
(***************************************************************************)
EXTENDS Naturals

CONSTANTS
  Interval,  \* between samples, in Instants
  FlushInterval, \* flush_every, in Instants
  Grace,     \* CLOCK_GRACE, in Instants
  MaxDelay,  \* a bound on what a start or a turn takes, and on oversleeping
  MaxTurns,  \* a bound on the turns of a run
  Clock,     \* what the clock may read
  MaxTime,   \* u64::MAX
  Plausible, \* PLAUSIBLE_CLOCK_MS
  Retention, \* the retention, in milliseconds
  None       \* no timestamp

ASSUME IntervalAssumption ==
  Interval \in Nat \ {0} /\ FlushInterval \in Nat /\ Grace \in Nat /\ MaxDelay \in Nat
ASSUME ClockAssumption ==
  MaxTime \in Nat /\ Clock \subseteq 0 .. MaxTime /\ None \notin 0 .. MaxTime

VARIABLES
  pc,        \* "down", about to take a turn, or asleep
  up,        \* the Instant it is now
  started,   \* the Instant at which the loop began
  next,      \* the Instant the next turn is due
  flushed,   \* last_flush
  turns,     \* (ghost) how many turns this run has taken
  late,      \* (ghost) whether a turn of this run ended after the next was due
  unflushed, \* (ghost) how many turns there were since last_flush
  loaded,    \* loaded_newest
  newest,    \* the newest timestamp in the store
  waiting,   \* waiting_for_clock
  refused,   \* whether the last turn's push was refused
  bumped,    \* (ghost) whether the last sample got a time the clock did not read
  told,      \* (ghost) what the clock read last in this run, until it steps
  stepped,   \* (ghost) whether the clock has stood still or gone back in this run
  saved      \* the newest timestamp in the history file

pace == <<started, next, turns, late, flushed, unflushed>>
times == <<loaded, newest, waiting, refused, bumped, told, stepped>>
vars == <<pc, up, pace, times, saved>>

-----------------------------------------------------------------------------
(* A run's state before its first turn, at the Instant `begun`.            *)
Fresh(begun) ==
  /\ up' = begun /\ started' = begun /\ next' = begun /\ flushed' = 0
  /\ turns' = 0 /\ late' = FALSE /\ unflushed' = 0
  /\ waiting' = FALSE /\ refused' = FALSE
  /\ bumped' = FALSE /\ told' = None /\ stepped' = FALSE

Init ==
  /\ pc = "down" /\ up = 0 /\ started = 0 /\ next = 0 /\ flushed = 0
  /\ turns = 0 /\ late = FALSE /\ unflushed = 0
  /\ loaded = None /\ newest = None /\ waiting = FALSE /\ refused = FALSE
  /\ bumped = FALSE /\ told = None /\ stepped = FALSE
  /\ saved \in Clock \union {None}

(* open_history: what is older than this is left out.                      *)
Oldest(clock) ==
  IF clock > Plausible /\ clock > Retention THEN clock - Retention ELSE 0

(* open_history: records are in time order, so if the newest is too old    *)
(* they all are; the file is written afresh with those that are left.      *)
Start ==
  /\ pc = "down"
  /\ \E clock \in Clock :
       newest' = IF saved # None /\ saved >= Oldest(clock) THEN saved ELSE None
  /\ loaded' = newest' /\ saved' = newest'
  /\ pc' = "turn"
  /\ \E begun \in 0 .. MaxDelay : Fresh(begun)

(* Mutant: a clock that reads the newest time that was loaded is believed. *)
BehindStrictly(clock, at) == loaded # None /\ clock < loaded /\ at - started < Grace

(* Whether to hold the sample back: the clock is behind the history that   *)
(* was loaded, and may be about to be set.                                 *)
Behind(clock, at) == loaded # None /\ clock <= loaded /\ at - started < Grace

(* Mutant: the clock is always believed.                                   *)
TimestampOfClock(clock) == clock

(* The time given to a sample: never earlier than just after the newest.   *)
Timestamp(clock) ==
  IF newest = None THEN clock
  ELSE LET after == (newest + 1) % (MaxTime + 1) IN IF clock > after THEN clock ELSE after

(* Mutants: the next turn is due one interval after this one ended; turns  *)
(* that were missed are made up for.                                       *)
NextFromNow(after) == after + Interval
NextCatchingUp(after) == next + Interval

(* When the next turn is due, if this one ended at Instant `after`.        *)
NextTurn(after) ==
  IF next + Interval <= after THEN after + Interval ELSE next + Interval

(* The sample is held back, or pushed; the clock is read once to decide,   *)
(* when it is `at`, and again to give the sample its time.                 *)
Record(first, second, at) ==
  LET held == Behind(first, at)
      t == Timestamp(second)
      ok == newest = None \/ t > newest
  IN  /\ waiting' = held
      /\ newest' = IF ~held /\ ok THEN t ELSE newest
      /\ refused' = (~held /\ ~ok)
      /\ bumped' = (~held /\ ok /\ t # second)
      /\ stepped' = (stepped \/ (told # None /\ first <= told) \/ (~held /\ second < first))
      /\ told' = IF stepped' THEN None ELSE IF held THEN first ELSE second
      /\ UNCHANGED loaded

(* flush_if_due: whether the flush interval is over at the Instant `at`.   *)
FlushDue(at) == at - flushed >= FlushInterval

(* flush_if_due: if it is, last_flush becomes `set` before anything is     *)
(* written, and what is written gets to the file or does not.              *)
FlushIfDue(at, set) ==
  /\ flushed' = IF FlushDue(at) THEN set ELSE flushed
  /\ unflushed' = IF FlushDue(at) THEN 0 ELSE unflushed + 1
  /\ saved' \in IF FlushDue(at) THEN {saved, newest'} ELSE {saved}

(* The turn is over at the Instant `after`.                                *)
Pace(after) ==
  /\ up' = after
  /\ next' = NextTurn(after)
  /\ late' = (late \/ next + Interval <= after)
  /\ turns' = turns + 1
  /\ UNCHANGED started

(* A turn: the machine is read until `read`, which takes as long as it     *)
(* takes; the sample is recorded, the flush found due or not when it is    *)
(* `at`, and writing it may take its time too.                             *)
Turn ==
  /\ pc = "turn" /\ turns < MaxTurns
  /\ \E read, at, set, after \in up .. up + MaxDelay :
       /\ read <= at /\ at <= set /\ set <= after
       /\ \E first, second \in Clock : Record(first, second, read)
       /\ FlushIfDue(at, set)
       /\ Pace(after)
  /\ pc' = "asleep"

(* thread::sleep: at least as long as asked for, which is not negative.    *)
Wake ==
  /\ pc = "asleep"
  /\ \E over \in 0 .. MaxDelay : up' = (IF next > up THEN next ELSE up) + over
  /\ pc' = "turn"
  /\ UNCHANGED <<pace, times, saved>>

Kill ==
  /\ pc # "down"
  /\ pc' = "down" /\ loaded' = None /\ newest' = None /\ Fresh(0)
  /\ UNCHANGED saved

Next == Start \/ Turn \/ Wake \/ Kill

Spec == Init /\ [][Next]_vars

-----------------------------------------------------------------------------
(* However the clock jumps, from one reading to the next too, the store    *)
(* never refuses a sample ("could not record a sample") until its newest   *)
(* timestamp is the last there is.                                         *)
RefusedOnlyAtTheEnd == refused => newest = MaxTime

(* While the clock of a run goes forward, as it does from where it was     *)
(* behind the loaded history too, no sample is given "a run of wrong       *)
(* timestamps": each has the time the clock read for it, unless the grace  *)
(* is over.                                                                *)
TimesAreTheClocks == bumped => stepped \/ up >= started + Grace

(* From one flush to the next there are no more turns than begin within    *)
(* the flush interval and one: though turns are paced from their start and *)
(* the flush interval runs from somewhere within one, and whatever         *)
(* oversleeps, is suspended or is slow, turns never crowd in between, so   *)
(* the records that wait are that many at most.                            *)
FlushesInTime == unflushed * Interval < FlushInterval + Interval

(* A turn is always due after the one before it has ended, so the sleep is *)
(* never negative and missed turns are not made up for in a burst; and it  *)
(* is due within an interval.                                              *)
SleepsAtMostAnInterval == pc = "asleep" => up < next /\ next <= up + Interval

(* "So the reading time doesn't add up as drift": while no turn lasts      *)
(* beyond the next, turns are due at multiples of the interval.            *)
NoDrift == ~late => next = started + turns * Interval
=============================================================================
