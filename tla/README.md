# A TLA+ model of simple-metrics

simple-metrics is a small daemon: one thread samples the machine every few
seconds into a fixed-size store in memory, others answer requests for it over a
Unix socket, and, if asked, the history is kept in a file across restarts. A
second program, `smq`, asks the daemon and prints its answers. This directory
models both, checks the models with TLC on small instances, and proves with
TLAPS what it can for every instance.

## The system

| Part (source) | State it keeps | Operations | Modelled by |
|---|---|---|---|
| Record store (`store.rs`) | a ring of timestamps and rows, `head`, `len` | `new`, `push`; `records`, `latest` | `Store`, `BoundedLog` |
| Store queries (`store.rs`, `answer_read` of `protocol.rs`) | none | `snapshot_range`, `bounds`, `downsample`, `step_for_max_points` | `StoreQueries`, `Buckets`, `BucketStep` |
| History on disk (`persist.rs`, `open_history`) | `pending`, `in_file`, `needs_rewrite`, `last_flush`; the file | `load`, `start`, `record`, `flush_if_due` | `Journal`, `SavedHistory` |
| Startup (`run`, `prepare_socket_path` of `daemon.rs`) | the socket path, the name `history.bin` | one system call after another | `Startup` |
| Sampling loop (`sample_forever`) | `next`, `loaded_newest`, `waiting_for_clock` | a turn, a sleep | `Sampling` |
| Rates (`sampler.rs`) and what they are made of (`proc.rs`) | the previous readings | `sample`; the parsers | `Rates`, `Proc` |
| Connections (`server.rs`, `state.rs`) | the counter of slots, threads, the lock | accept, back off, answer, close | `Connections` |
| Requests and answers (rest of `protocol.rs`) | none | `parse_request`, `respond` | `Requests`, `Answers` |
| Command line (`config.rs`, `cli.rs`, `main.rs`) | none | parse, check, start or exit | `Settings`, `Requests` |
| Schema (`metrics.rs`) | none | names and their order | `Metrics` |
| `smq` (`query.rs`, `bin/smq.rs`) | none | parse, one request, print the answer | `SmqOptions`, `Answers`, `Requests` |

The parts meet in three places. The sampler pushes to the store under the write
lock, notes the record in the journal under the same lock, and then flushes the
journal under a read lock. Connection threads copy what they need out of the
store under a read lock and write it to the client after that. The journal reads
the store whenever it rewrites its file, and fills it at startup.

What is hard here: the ring's indices at its end; alignment, saturation and
wrap-around in the bucket arithmetic; a file that must agree with memory through
failed writes, kills and power cuts; system calls of several processes on one
path; a clock that may read anything; a lock shared with slow clients; rules for
requests that are written twice, in the client and in the daemon; values that are
known only by their place, from the sampler's row to the table that `smq` prints.
`PROJECT.json` lists these hazards at their lines, with the properties that
cover each, or why none does.

## The modules

- `BoundedLog` says what a store of records promises with no ring in sight.
  `Store` is the ring; its `Push` has one action per outcome of `Store::push`,
  and `ImplementsBoundedLog` says that it implements `BoundedLog`, through
  `log <- Records`.
- `StoreQueries` extends `Store` with the reads as operators, each compared with a
  reference over sets of places in `Records`: those of the times asked for
  (`RangeIsExact`), and counts, sums and ends over those of a bucket (`IsSummary`).
  `Buckets` has the arithmetic that `StoreQueries`, `BucketStep` and `Settings`
  share, on numbers up to `MaxTime`, which stands for `u64::MAX`. `BucketStep` runs
  the loop of `step_for_max_points` one turn per step.
- `SavedHistory` says what a history on disk promises, with three sets: the records
  in memory, those a start finds after a kill, and those it finds even after a
  power cut. `Journal` implements it (`ImplementsSavedHistory`). It uses
  `BoundedLog`'s `Added` and `InOrder` for the store, which the theorems justify,
  and models the file as its header, its records as the kernel sees them, and how
  many of them have surely reached the disk. `older` is the file the directory on
  the disk may still name after a rename that nobody synced. A flush that appends
  is one step that succeeds, fails part of the way, or is cut short by a kill; a
  rewrite is three (begin, rename, reopen), a load one per record, and anything may
  happen between them.
- `Startup` runs several copies of the daemon on one path and one directory, with
  a step for each system call. The socket path is what it names: nothing,
  something else, a stale socket, or the daemon that bound it.
- `Sampling` models the clock as a set of values any reading may return, so that
  the two readings of one turn may differ either way. A turn goes through its
  moments in order: the machine has been read, the flush is found due or not,
  `last_flush` is set, the turn is over; each may be as late as `MaxDelay` allows.
- How `Journal` and `Sampling` fit together: `Journal` has turns and no time. Its
  `FlushEvery` is the flush interval in sampling intervals, rounded up; a flush may be
  due at any turn, and is due at the latest at the turn after `FlushEvery` of them.
  That is `FlushesInTime` of `Sampling`, where the time is. One turn more than the
  interval seems to have, because `flush_if_due` compares the time since `last_flush`,
  which was set somewhere within a turn, with an interval that turns keep only from
  start to start: after a slow flush, or by jitter, `FlushEvery` turns may take less.
- `Proc` has the parsers of `/proc` and `/sys` as operators on lines and fields.
  `Rates` has a machine whose counters move between turns, whose interfaces go
  away and come back, and whose files are missing or in an odd shape at some
  turns; the ghost variables `since` and `truth` count what really happened.
- `Metrics` has the names of the schema, in order, for the sampler's row (`Rates`)
  and the daemon's answers (`Requests`).
- `Connections` has the accepting thread with its back-off, one thread per
  connection and the sampler. A read lock is granted only when no writer holds or
  waits for it.
- `Settings` turns a command line into the daemon's config: both spellings of every
  option, durations, the capacity and its limit. A text is known by what the parsers
  see of it: the number it begins with, its unit, its length (`Look`).
  `SmqOptions` is the same for `smq`, and makes its request. `Answers` has the
  daemon's answers as JSON values and what `smq` prints of them, dates included.
- `Requests` composes these three with the rules of `parse_request`. It follows the
  daemon from its command line to serving, then one request after another: from the
  command line of `smq`, or from any other client, through the daemon's checks to
  the call on the store, the answer, the printed table and the exit code. The checks
  are a list in the order of the code, and the first that fails is the answer.
  What the store finds is left open (it is `StoreQueries`' matter).
- `*Proofs` modules hold the theorems of the module they are named for.
- `MC*` modules give the constants their values, with a `.cfg` per question.

An operator whose comment begins with "Mutant" is a plausible bug in the definition
that follows it; nothing uses it. `PROJECT.json` names, for each property, one that
breaks it.

## The runs

| Run | Bounds | What it shows |
|---|---|---|
| `store` | 3 slots, 6 timestamps, rows of width 0 to 2; every range, steps up to one past the limit of 3 buckets | shape, order, nothing unwritten is read, refinement; reads are exact |
| `bucket_step` | `MaxTime` 31, every range | the width's promises, and that the search ends and never has to cut a width off |
| `journal` | 2 records, a flush interval of 2 samples, 6 samples, 2 sets of metrics | the file follows memory; what survives; `SavedHistory` |
| `journal_saved` | 1 record, a flush interval of 2 samples, 6 samples | the file stays short; records get to it once the disk works |
| `journal_power_cut` | 3 records, a flush interval of 1 sample, 4 samples | finding: see below |
| `startup` | 2 copies, starting one at a time, 2 records | a live socket is kept; a start ends |
| `startup_race` | the same, starting at any time | finding |
| `startup_second_copy` | as `startup` | finding |
| `sampling` | 5 turns a run, an interval and a delay of 2, a flush interval of 4, clock 0 to 2 of a last time of 5 | times, pacing, when flushes come |
| `rates` | an interface and an absent one, 5 events in all, 4 sets of readable files | rates are true, gaps have a cause, values have their place |
| `requests` | the daemon's command lines of up to 3 arguments; 2 of them served; every combination of the options of `smq read`, and of a request's fields; 3 names and 1 row at most | settings, agreement of `smq` and the daemon, what the store is asked, what is shown |
| `connections` | 3 clients, 2 slots | slots, lock, liveness |

Why the bounds are enough. Three slots and six timestamps wrap the ring twice, with
every position of `head`. With a `MaxTime` of 31 the span of the widest range
saturates, and intervals reach close to the largest number. Six samples in `journal`
are two flushes of three samples or up to six of one: an append, one that fails before
or after it, and the rewrite that follows, with restarts whose file has records that
are too old or of other metrics.
In `journal_saved` a store of one record and six samples bring the file past the
size that has it rewritten, and past its bound if it were not. In `startup` every copy can be killed and started
without end; only the records are bounded. In `sampling` the last timestamp comes
within reach of five turns, the grace ends within a run, and turns that are late by as
much as an interval add up to enough for a burst of them if they were made up for. Five events in `rates`
are bytes, ticks and time on both sides of a turn, with an interface that goes and
comes back in between. One more client than slots in `connections` is what it takes
to be turned away while the slots change hands. In `requests` each option and each
field takes a value of each kind that the code tells apart, on both sides of each
limit; three arguments are an option, its value and one more that it may disturb;
and the newest record is from days spread over four centuries (every 137th, over the
400 years after which the calendar repeats) and from all those around the ends of some
Februaries, of a leap year, of 2000 and of 2100 and 2400 among them.

`CHECK_DEADLOCK FALSE` is given for `bucket_step` only: the call returns.

## What the findings say

- **A power cut can lose more than the last flush interval's records**
  (`journal_power_cut`). `append` does not sync; the README and `persist.rs` say a
  power cut loses at most the last interval's; the run allows it all that may wait for
  one flush, one record more than the interval has. What holds instead is
  `SavedHistory`: what has reached the disk stays there unless memory has discarded
  it. For a kill, `KillKeepsFlushed` is the promise as it is written.
- **A live socket can be removed** (`startup_race`). Between a copy's `connect` and
  its `remove_file` another copy may begin to listen. `LiveIsKept` holds when
  copies start one at a time (`startup`, and `LiveSocketsAreSafe` for any number).
- **A second copy that gives up has already replaced the history file**
  (`startup_second_copy`), if it was given the same state directory. From its load
  on, what the first copy flushes is lost to the next run.

## Fairness

- `Journal`: `WF_vars(Boot \/ Turn)`: a load ends, as files do, and the sampler thread
  goes on while the process lives, as it sleeps for a bounded time and its system calls return. Nothing makes a disk
  heal or a daemon start; `SavedOnceDiskWorks` assumes both in its premise.
- `Startup`: weak fairness of each copy's startup steps, which are sequential code.
- `BucketStep`: weak fairness of the one running call.
- `Connections`: weak fairness of the sampler, the accepting thread (its sleep after
  an accept that failed ends too, `BackoffEnds`) and each connection's own work, and
  strong fairness of taking the read lock. The last is what `RequestsAreAnswered`
  needs, since the sampler's request for the lock goes before new readers; the code
  justifies it because the sampler sleeps for the rest of its interval between two
  pushes, and the lock of the standard library wakes the readers that wait when a
  writer lets go. Clients have no fairness: they may stall for ever.
  `SilenceFreesSlots` names what it relies on: the timeouts fire, clients do nothing
  from some time on, and `accept` no longer fails from some time on, for there are
  file descriptors again.
- The other specifications have safety properties only.

## What is proved

Each theorem is for every value of the constants its module allows.

`StoreQueriesProofs`, first of the ring, for every capacity, width, set of timestamps
and set of rows:

- `RingInvariant`: `Spec => []RingInv`. `InTimeOrder` and `HeldAreWritten` are not
  inductive alone: a ring that had wrapped before it was full would grow over
  records it still holds. `UnwrappedUntilFull` (until `len` reaches the capacity
  `head` is 0) is what is missing, and `RingInv` is the conjunction.
- `NeverReadUnwritten` follows from it.
- `ImplementsLog`: `Spec => ImplementsBoundedLog`. Lemmas say what each kind of
  push does to `Records`: one that finds room appends, one that does not appends
  to the tail, one that is refused changes nothing.
- `OkIffAdded`: `push` returns `Ok` exactly when the records changed.

Then of the reads, for every capacity, width, range, width of a bucket, limit and
set of rows. The invariant is `RingInv`; what is hard is that the reads are
recursive:

- `ReadsGiveTheRange`: the binary search ends at the boundary of any order
  (`SearchFinds`), and the two that `IndexRange` makes enclose the records of the times
  asked for (`RangeIs`), wherever the ring wraps.
- `DownsamplesSumUpTheRange`: after each record the pass has the totals of the records
  so far, bucket by bucket (`Totals`, `TotalsOfPass`). The sum it is compared with is
  taken apart one element at a time (`SumOfElement`); buckets come in order because
  records do and division keeps order (`TimesInOrder`, `BucketsOfPass`).
- `ReadsKeepMaxPoints`: a wider width leaves fewer buckets, so that the width the code
  chooses fits (`StepIsFitting`), and no more buckets are answered than the width
  allows (`BucketsNeeded`).

A recursive function is first shown to exist (`SearchSolution`, `UpwardRecursion`,
`PassExists`); what is said of it holds of every solution of its equation. Both are
inductions over the naturals by a least counterexample (`LeastNumber`), which needs no
operator as a parameter.

`BucketStepProofs`, for every largest number above 2, range, interval and number of
points: `WidthGivesFewEnough` and `WidthIsOfWholeSamples`. The invariant is
`WidthIsSound`: besides what the second theorem says, the points asked for, this
wide, are as long as the range (`Span <= MaxPoints * step`). From it follows that a
width that does not fit is at most half of the largest number (`TooNarrowIsHalf`),
so the next one is not cut off. The count the loop tests is taken modulo the word;
that it is still the true one where it says "few enough" is `FittingIsTrue`.
`SearchAlwaysConverges` proves the reason the code gives for the end of its loop: a
width is widened only while it is less than the data (`ThreeBucketsAreWide`: a width
that does not fit leaves a whole bucket between two others), and each turn makes it
wider by an eighth at least (`WiderByAnEighth`), so that a search over u64s takes a few
hundred turns at most.

`JournalProofs`, for every capacity, flush interval, retention and set of sets of
metrics, with kills, power cuts and failing writes at any step:

- `FileFollowsMemory`: a journal that may append has a file that continues, with what
  waits, exactly as memory ends. An append keeps this because discarding the oldest
  record and taking the last `Capacity` of a sequence commute (`LastOfAppend`).
- `KillsKeepFlushed`, the promise about a kill as it is written. After a flush that
  succeeds all of memory can be found in the file, as memory is the end of the file
  (`FileFollowsMemory`) and no record of a trusted file is torn (`TrustedIsWhole`);
  after one that fails, what could be found before can be found still (`FoundGrows`).
  A load finds in the file what it takes (`FileIsRead`).
- `NothingMisread` and `FileStaysShort` need what is true of every file that the name
  may stand for after a power cut (`FilesAreSound`): it is short, and its readable
  records are of the metrics that its header says and of samples that were taken;
  and that the records in memory are of this run's metrics (`MemoryIsSound`).
- `WaitingNeverPilesUp`: `WaitingIsRecent` ties the waiting records to the turns since
  the last flush, and says that none wait while the file is not trusted. How many turns
  those are is `FlushesComeInTime` of `SamplingProofs`, which `Journal` takes as the
  guard of `NotDue`.

They are inductive together (`IInv`). The load is a step per record, and not a fold,
so that what it has taken so far can be said in an invariant.

The second half of `JournalProofs`, under the same assumptions, is `HistoryIsSaved`:
`Spec => ImplementsSavedHistory`. Every file that the name may stand for is in the order of
times (`FilesInOrder`), so that a load discards nothing as out of order and, after
each record, has the newest of those it has read (`LoadIsNewest`); this rests on
`AddedIsNewest` (adding to a full log keeps the newest `Capacity` of all, by counting
what is newer) and `NewestTwice` (what was discarded before stays discarded). An
append leaves the part that is surely on the disk as it is (`AppendedSavesNothing`), a
rewrite drops from it only what memory has discarded (`CompactMaps`), and a power cut
leaves at least that part of whatever file the name then stands for
(`RemainsInOrder`). Each kind of step has a lemma that names the step of
`SavedHistory` it is; `QuietSteps` lists those that nobody sees there.

`StartupProofs`, for every number of copies:

- `FilesAreSafe`: what is not a socket stays at the path. `NobodyPasses` says that no
  copy is past its look at such a path; a path that a copy has passed cannot become
  one, as nothing in the system puts such a file there.
- `LiveSocketsAreSafe`, when copies start one at a time. `OneStarts` is that
  assumption kept by every step; `OwnerLives` and `RemovesStale` say that the path
  names only copies that live, and none of them when a copy is about to remove it.

`SamplingProofs`, for every clock, interval, flush interval, grace, delay and number of
turns:

- `PushesSucceed` and `TimesAreRight`. What the second needs besides is `ClockLeads`:
  until the grace is over, a clock that has only gone forward is ahead of the newest
  record, unless that is the one that was loaded, and then samples are held back.
- `SleepsAreShort`, `TurnsDoNotDrift` and `FlushesComeInTime`. The last rests on
  `TurnsSinceFlush`: the turn after a flush is due no earlier than that flush, and each
  later one an interval after the one before it at least; with `TurnIsDue`, that no
  turn is taken before it is due, the time since the flush grows by an interval a turn
  from the second turn on.

`RatesProofs`, for any interfaces, ports, sets of files that are fine at a turn, and
number of events: `RatesTellTheTruth`, `NoGapWithoutCause`, `CpuShareIsTrue` and
`RowsFitTheirSchema`. What the parsers give of the machine's files comes first
(`StatIs`, `OddStatsAreNone`, `NetDevIs`, `MemoryIsRead`, `MemoryIsNone`, together
`ReadingsAre`), then which value of the row each name stands for (`NamesStandFor`,
`RowPlaces`). The properties are about one turn and what the ghosts counted before it;
what has to be known between turns is `IInv`:

- `TicksSince`: the ticks read at the last turn, and those counted since, are the ticks
  that are there; a total says so only while no counter has gone back.
- `BytesSince`: the same for each interface that was read and not gone since. One that
  was gone, and counts from 0 again, has at most what it carried since, which is why a
  rate over the whole of its counter would not be true.
- `ReadUnlessGone`: an interface whose file was fine was read if it was there.

`ConnectionsProofs`, for every number of clients and every limit:

- `SlotsAlwaysCounted`, with `TurningWaits` (a connection that is turned away has
  no thread) and lemmas on how each step changes the set of those that have one.
- `LockNeverWaitsForClients` and `AnswersAreOfOneStore`, from `HoldersAreKnown`: the
  lock is held for reading by the threads between the two halves of an answer, and
  nobody holds it for writing from one step to the next.
- `LockNeverDeadlocks`: a request waits for a push that waits for the lock, the push for
  answers that are being copied, and those for nobody (`WaitingComesToAnEnd`). `KeptBy`
  says who keeps whom from the lock; `SamplerIsKnown`, that the sampler holds it while
  it flushes and at no other time, so that it never waits for itself.

`RequestsProofs`, for every set of command lines of the daemon and of `smq`, of texts
that others send, of environments, clock readings and instants. The properties of
`Requests` compare two ends of an exchange, what the command line said and what was
asked, refused or printed; the inductive invariant, `Exchange` (`AlwaysExchange`), says
that each part comes from the one before: the config from a command line of the
daemon, the request from one of `smq` or another client, the call on the store from a
request that was understood, the answer from the call, what is shown from the answer.
Which parts there are follows from how far things have come (`PartsInOrder`). The
properties then follow from what each translation does:

- A command line is taken argument by argument with a fold. Its value is that of a
  function on sets of places (`FoldExists`), and what is known of its stages is
  proved by induction over their number (`SmqStages`, `ReadStages`, `SettingStages`,
  `ResolveStages`, `ApartStages`).
- `DatesPrintedAreRight`: a day of an era is a century, four years, a year and a day of
  it in one way (`Decompose`), from which the year that the code divides out is the
  right one (`YearAndDayOf`), the month that it takes from `153 * mp + 2` begins where
  the calendar has it (`MonthsFromMarch`), and the year begins where leap days put it
  (`YearBegins`).
- `ConfigsAreUsable`, from `GoodConfig`: settings made by `parse` have each
  interface once and intervals above 0 (`FinishedIs`), and so a schema that names each
  metric once (`SchemaIsInjective`) and the smallest capacity that covers the
  retention (`CapacityIs`).
- `AlwaysAskedSensibly`: a request in which no check fails has its fields as each check
  asks (`RefusalIs`, `ReadIsChecked`), and known names become columns that the
  schema has, each once (`MetricsAreResolved`).
- `SmqAlwaysAgrees`: of what `smq` makes of its options the daemon can only refuse
  values (`RefusedForAValue`), ages in order stay so at any clock (`AgesInOrder`), and
  what `smq` turns away the daemon would have (`BadOptionsAreRefused`).
- `EachUnderItsName`: however often a name is listed, the names found and the columns
  found stay in step (`FoundIn`), each name once and no other (`NamesAreResolved`); so
  a series of the answer is the column of its name (`SeriesOfFound`, `AnswerHas`), and
  a column of the table is that series, under a heading that no other has
  (`ReadIsShown`, which also counts them).
- `SpellingNeverMatters`: two words in the place of `--option=value` lead to the same
  stage (`TwoWordsAreOne`). Settings in which each option is named once have a
  closed form that has no order in it (`SetBy`, `AllAreSet`).

What they assume is what the modules state of their constants. `Store`: a capacity
of at least 1 (a `NonZeroUsize` in the code), timestamps within `0 .. MaxTime`, rows
that are sequences of values, and an initial fill that differs from them. The last
is a device of the model: the code fills with NaN, which callers may also push, and
`Fill` is the one that was never pushed. `BucketStep`: fewer points than the largest
number (requests ask for 200,000 at most), and intervals that fit the word.
`StoreQueries`: the limit and the infinite values are none of the numbers that
stand for finite ones, a read may make 2 buckets at least (the code's limit is 200,000), and no two
timestamps are as far apart as `MaxTime` (`SpanAssumption`: a range of all 2^64 times
would have a count of buckets that wraps to 0 in a release build, at a width of 1 ms).
`Journal`: a capacity and a flush interval of at least 1, a retention that is a natural
number, and that a torn record is none and a foreign header is of no metrics.
`Startup`: what the path
may be has names of its own. `Sampling`: clock readings fit a timestamp, the interval
is not 0, and the flush interval, the grace and the delays are natural numbers. `Rates`: names that differ
(`config.rs` refuses an interface that is given twice), finitely many ports, what
stands for a missing reading is no reading, and each line of `/proc/meminfo` that is
of use is there once, with a number. `Connections`: finitely many clients, a limit of
at least 1. `Settings`, `SmqOptions` and `Requests`: what stands for an absent, null or
misfit field, for a text that is no object, and for an ending, is none of the values
it is told apart from (they have types of their own in the code: `AbsentAssumption`,
`WordsAssumption`, `OddAssumption`); the numbers that parsers see, the limits, the clock
and the instants are natural numbers (`LooksAssumption`, `MaxMillisAssumption`,
`LimitsAssumption`, `ClockAssumption`, `InstantsAssumption`); command lines are
sequences of texts, the fields of a request are of their type or misfits
(`LinesAssumption`, `TextsAssumption`); and names of metrics made of different
interfaces or directions differ, and differ from the fixed ones (`NamesAssumption`): the
code puts the interface between `net_` and `_rx_bytes_per_sec` or
`_tx_bytes_per_sec`, and no fixed name begins with `net_`. So do the headings of
columns (`HeadingsAssumption`): a heading is the name alone, or with ` (min)` or ` (max)`
after it, and no name of a metric ends in either. The provers know nothing of the
characters of a string, so both are assumed of the operators that put strings together
(`RxName`, `TxName`, `Heading`); TLC evaluates them on the strings of the runs.

Everything else is model-checked only: liveness and `ENABLED`, which are out of the
prover's reach (`Returns`, `StartsInTheEnd`, `SavedOnceDiskWorks`, `SamplerGoesOn`,
`RequestsAreAnswered` and `SilenceFreesSlots`). What `Returns` rests on, that the search
converges, and what `SamplerGoesOn` and `RequestsAreAnswered` rest on, that no thread
waits in a circle, are theorems all the same; that the steps are then taken is the
fairness TLC assumes.

## What is left out

- Floating point: values are integers or names, averages a sum and a count, rates a
  pair of what is divided and by what; the rounding of the numbers printed.
- Bytes: the file is a sequence of records, the checksum is what tells a torn one.
  A collision of the hash of the metrics' names.
- The text of JSON and of errors, the layout of tables, labels, units and the order in
  which JSON lists its keys. Numbers in a spelling that only Rust's parser takes
  (`+5`); an environment variable that is set and empty counts as one that is absent.
- How a line is put together from the pieces that arrive, and the length of the
  request that `smq` itself makes.
- Different retentions, and so capacities, from run to run.
- That the grace is 15 minutes long and no longer: `Sampling` compares the time since
  the start with it as the code does, and a property would say no more than that.
- In `Rates` the clock and the counters are read in one step; the code reads the clock
  first, and the reading that follows takes its time.
- In `Startup` something else than a socket is at the path from the beginning or never.
- Two rewrites at the same time in `Startup`; reads, `stat` and `connect` calls that
  fail for other reasons than the ones the model names.
- That the clock is wrong at startup: any clock after 2024 is taken for right by the
  code, and the history that looks too old by it is discarded.
- `lib.rs`, which declares modules and writes lines to standard error, and the build.

## Plan

Done, in this order: `Store` with `BoundedLog`, `Buckets` with
`BucketStep` and `StoreQueries`, `Journal`, `Startup`, `Sampling`, `Connections`,
`Rates`, `Requests`; then `SavedHistory`, `Settings`, `SmqOptions`, `Answers`,
`Metrics` and `Proc`, the back-off of `Connections`, and the proofs of `BucketStep`,
`Store`, `StoreQueries`, `Journal` and its refinement, `Startup`, `Sampling`,
`Connections`, `Rates` and `Requests`.

Next, models:

1. Capacities that differ from run to run in `Journal`.
2. A rewrite in several steps in `Startup`, with the temporary file that copies share.
3. Requests on one connection in order, in `Connections`.

Next, proofs: every safety and action property that holds has its theorem, and the
searches and the lock have the safety halves of their liveness. What is left:

1. `SilenceFreesSlots`: how many steps each thread is from its end once clients are
   silent.
2. `StartsInTheEnd` and `SavedOnceDiskWorks`: the same for a copy that starts and for a
   journal whose disk works again.
