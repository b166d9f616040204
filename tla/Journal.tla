------------------------------ MODULE Journal ------------------------------
(***************************************************************************)
(* The history on disk: persist.rs, driven by the loop of sample_forever   *)
(* (daemon.rs), through kills, restarts, power cuts, failing writes and    *)
(* changes of the set of metrics.                                          *)
(*                                                                         *)
(* The store is the bounded log that Store implements.  A sample's time is *)
(* its number, so a record is known by its time, and its row says only     *)
(* which set of metrics it was recorded with.                              *)
(*                                                                         *)
(* A file is its header and its records as the operating system sees them, *)
(* with how many of them have surely reached the disk.  After a rename the *)
(* directory on the disk may go on naming the file it named before.        *)
(***************************************************************************)
EXTENDS Naturals, Sequences, FiniteSets, SequencesExt

CONSTANTS
  Capacity,   \* the store's capacity
  FlushEvery, \* the sampling intervals that cover the flush interval
  MaxSamples, \* a bound on the samples taken, over all runs
  Retention,  \* the retention, in sampling intervals
  Schemas,    \* the sets of metrics a run may record
  NoFile,     \* the header of a file that is not there
  Foreign,    \* the header of a file that is not a history
  Torn        \* a record cut short or garbled

ASSUME CapacityAssumption == Capacity \in Nat \ {0}
ASSUME FlushAssumption == FlushEvery \in Nat \ {0}
ASSUME RetentionAssumption == Retention \in Nat
ASSUME NamesAssumption ==
  {NoFile, Foreign} \intersect Schemas = {} /\ Torn \notin [t : Nat, row : Schemas]

VARIABLES
  log,     \* the store's records, oldest first
  journal, \* the Journal: open, pending, inFile, needsRewrite
  pc,      \* where the daemon is
  loading, \* while a file is loaded: the records read, the oldest time to take
  booting, \* whether the rewrite under way is that of Journal::start
  schema,  \* the set of metrics this run records, NoFile while down
  age,     \* turns since last_flush, with the one under way
  file,    \* what history.bin names
  older,   \* the file the directory on the disk may name instead, if any
  faulty,  \* whether writes to the state directory fail at present
  now,     \* the time of the next sample
  kept     \* (ghost) the newest record at the last flush that succeeded

memory == <<log, journal, pc, loading, booting, schema, age>>
disk == <<file, older>>
vars == <<memory, disk, faulty, now, kept>>

Log == INSTANCE BoundedLog WITH Stamps <- 1 .. MaxSamples, Rows <- Schemas

Newest(s) == IF s = << >> THEN 0 ELSE s[Len(s)].t

Missing == [head |-> NoFile, recs |-> << >>, synced |-> 0]

ClosedJournal == [open |-> FALSE, pending |-> << >>, inFile |-> 0, needsRewrite |-> FALSE]

-----------------------------------------------------------------------------
(* Loading.                                                                *)

(* Mutant: the header is not compared with the metrics recorded now.       *)
FitsAnything(f) == f.head \notin {NoFile, Foreign}

(* Whether a file is a history of the metrics that are recorded now.       *)
Fits(f) == f.head = schema

(* The records before the first that fails its size or checksum.           *)
Found(recs) == {recs[i] : i \in {n \in DOMAIN recs : \A m \in 1 .. n : recs[m] # Torn}}

(* open_history: everything if the clock looks unset, else no older than   *)
(* the retention.                                                          *)
Oldest == {0, IF now > Retention THEN now - Retention ELSE 0}

-----------------------------------------------------------------------------
NotLoading == [read |-> 0, oldest |-> 0]

Init ==
  /\ log = << >> /\ journal = ClosedJournal
  /\ pc = "down" /\ loading = NotLoading /\ booting = FALSE /\ schema = NoFile /\ age = 0
  /\ file \in {Missing, [Missing EXCEPT !.head = Foreign]} /\ older = {}
  /\ faulty = FALSE /\ now = 1 /\ kept = 0

(* open_history, up to the load.                                           *)
Start ==
  /\ pc = "down" /\ pc' = "load"
  /\ schema' \in Schemas
  /\ \E oldest \in Oldest : loading' = [read |-> 0, oldest |-> oldest]
  /\ UNCHANGED <<log, journal, booting, age, disk, faulty, now, kept>>

More == Fits(file) /\ loading.read < Len(file.recs)

(* load: the next record is pushed to the store, but for one that is older *)
(* than `oldest` or out of order.                                          *)
LoadRecord ==
  /\ pc = "load" /\ More
  /\ LET r == file.recs[loading.read + 1] IN
       /\ r # Torn
       /\ log' = IF r.t >= loading.oldest /\ Log!InOrder(log, r) THEN Log!Added(log, r) ELSE log
  /\ loading' = [loading EXCEPT !.read = @ + 1]
  /\ UNCHANGED <<journal, pc, booting, schema, age, disk, faulty, now, kept>>

(* Nothing, or nothing more, can be loaded; Journal::start is called. The  *)
(* records that were left out are gone once the file is rewritten.         *)
LoadEnds ==
  /\ pc = "load"
  /\ More => file.recs[loading.read + 1] = Torn
  /\ pc' = "rewrite" /\ booting' = TRUE /\ loading' = NotLoading
  /\ kept' = Newest(log)
  /\ UNCHANGED <<log, journal, schema, age, disk, faulty, now>>

(* Mutant: records are kept for appending while a rewrite is due.          *)
NotedAlways(r) == [journal EXCEPT !.pending = Append(@, r)]

(* Journal::record                                                         *)
Noted(r) ==
  IF journal.needsRewrite THEN journal ELSE [journal EXCEPT !.pending = Append(@, r)]

(* One turn of the loop up to the flush: a sample is pushed and noted, under *)
(* the write lock.                                                         *)
Sample ==
  /\ pc = "sample" /\ now <= MaxSamples
  /\ LET r == [t |-> now, row |-> schema] IN
       log' = Log!Added(log, r) /\ journal' = Noted(r)
  /\ now' = now + 1
  /\ age' = age + 1
  /\ pc' = "flush"
  /\ UNCHANGED <<loading, booting, schema, disk, faulty, kept>>

(* A turn whose sample is not kept: the clock is behind the history.       *)
HoldBack ==
  /\ pc = "sample"
  /\ age' = age + 1
  /\ pc' = "flush"
  /\ UNCHANGED <<log, journal, loading, booting, schema, disk, faulty, now, kept>>

-----------------------------------------------------------------------------
(* Journal::flush_if_due.  Turns are paced from their start, and the flush *)
(* interval runs from somewhere within one: it may be over at any turn, as *)
(* a turn may be late or slow, and it is over at the latest at the turn    *)
(* after FlushEvery of them (Sampling's FlushesInTime).                    *)

NotDue ==
  /\ pc = "flush" /\ age <= FlushEvery
  /\ pc' = "sample"
  /\ UNCHANGED <<log, journal, loading, booting, schema, age, disk, faulty, now, kept>>

Due == pc = "flush"

(* Mutants: a failed write is not remembered; the file's size is not.      *)
RewriteDueForSize == journal.inFile > 2 * Capacity
RewriteDueForFailure == journal.needsRewrite

RewriteDue == journal.needsRewrite \/ journal.inFile > 2 * Capacity

(* The flush is over: after an error the file is not trusted any more.     *)
Flushed(ok, j) ==
  /\ journal' = IF ok THEN j ELSE [j EXCEPT !.needsRewrite = TRUE, !.pending = << >>]
  /\ kept' = IF ok THEN Newest(log) ELSE kept
  /\ age' = 0
  /\ pc' = "sample" /\ booting' = FALSE
  /\ UNCHANGED <<log, loading, schema, faulty, now>>

(* What may be left of a record that was not written whole.                *)
Rests == {<< >>, <<Torn>>}

(* Some of the waiting records, and perhaps part of one more, are written. *)
PartlyAppended ==
  \E k \in 0 .. Len(journal.pending) - 1, rest \in Rests :
    /\ file' = [file EXCEPT !.recs = @ \o SubSeq(journal.pending, 1, k) \o rest]
    /\ older' = older

AppendNothing ==
  /\ Due /\ ~RewriteDue /\ journal.pending = << >>
  /\ Flushed(TRUE, journal)
  /\ UNCHANGED disk

Appending == Due /\ ~RewriteDue /\ journal.pending # << >> /\ journal.open

(* Mutant: what was appended is left waiting.                              *)
AppendAgain ==
  /\ Appending /\ ~faulty
  /\ file' = [file EXCEPT !.recs = @ \o journal.pending] /\ older' = older
  /\ Flushed(TRUE, [journal EXCEPT !.inFile = @ + Len(journal.pending)])

(* The records are handed to the operating system, not to the disk.        *)
AppendPending ==
  /\ Appending /\ ~faulty
  /\ file' = [file EXCEPT !.recs = @ \o journal.pending] /\ older' = older
  /\ Flushed(TRUE, [journal EXCEPT !.inFile = @ + Len(journal.pending), !.pending = << >>])

AppendFails == Appending /\ faulty /\ PartlyAppended /\ Flushed(FALSE, journal)

(* Mutant: the file itself is truncated and written afresh.                *)
RewriteInPlace ==
  /\ Due /\ RewriteDue
  /\ journal' = [journal EXCEPT !.open = FALSE]
  /\ pc' = "rewrite"
  /\ file' = [head |-> schema, recs |-> << >>, synced |-> 0]
  /\ UNCHANGED <<log, loading, booting, schema, age, older, faulty, now, kept>>

(* rewrite: the file is closed and a temporary file begun beside it.       *)
RewriteBegins ==
  /\ Due /\ RewriteDue
  /\ journal' = [journal EXCEPT !.open = FALSE]
  /\ pc' = "rewrite"
  /\ UNCHANGED <<log, loading, booting, schema, age, disk, faulty, now, kept>>

(* Mutant: the temporary file is renamed without a sync_all.               *)
RenameUnsynced ==
  /\ pc = "rewrite" /\ ~faulty
  /\ file' = [head |-> schema, recs |-> log, synced |-> 0]
  /\ \E f \in older \union {file} : older' = {f}
  /\ pc' = "renamed"
  /\ UNCHANGED <<log, journal, loading, booting, schema, age, faulty, now, kept>>

(* write_whole: the temporary file, all of it on the disk, takes the name; *)
(* the directory is not synced.                                            *)
Rename ==
  /\ pc = "rewrite" /\ ~faulty
  /\ file' = [head |-> schema, recs |-> log, synced |-> Len(log)]
  /\ \E f \in older \union {file} : older' = {f}
  /\ pc' = "renamed"
  /\ UNCHANGED <<log, journal, loading, booting, schema, age, faulty, now, kept>>

Reopen ==
  /\ pc = "renamed" /\ ~faulty
  /\ Flushed(TRUE, [open |-> TRUE, pending |-> << >>, inFile |-> Len(log), needsRewrite |-> FALSE])
  /\ UNCHANGED disk

(* What an end of the process leaves of it.                                *)
Ended ==
  /\ log' = << >> /\ journal' = ClosedJournal
  /\ pc' = "down" /\ loading' = NotLoading /\ booting' = FALSE /\ age' = 0 /\ kept' = 0
  /\ schema' = NoFile
  /\ UNCHANGED <<faulty, now>>

(* Writing the temporary file, renaming or reopening fails: at startup the *)
(* daemon gives up, later the flush has failed.                            *)
RewriteFails ==
  /\ pc \in {"rewrite", "renamed"} /\ faulty
  /\ IF booting THEN Ended ELSE Flushed(FALSE, journal)
  /\ UNCHANGED disk

-----------------------------------------------------------------------------
(* The environment.                                                        *)

Kill == pc # "down" /\ Ended /\ UNCHANGED disk

KillWhileAppending == Appending /\ PartlyAppended /\ Ended

(* The kernel writes back what it has not yet.                             *)
Writeback ==
  /\ file' = [file EXCEPT !.synced = Len(file.recs)] /\ older' = {}
  /\ UNCHANGED <<memory, faulty, now, kept>>

(* What a file may hold after a power cut: at least what surely reached    *)
(* the disk, and perhaps part of one record more.                          *)
Remains(f) ==
  \/ file' = [f EXCEPT !.synced = Len(f.recs)]
  \/ \E n \in f.synced .. Len(f.recs) - 1, rest \in Rests :
       file' = [head |-> f.head, recs |-> SubSeq(f.recs, 1, n) \o rest, synced |-> n + Len(rest)]

PowerCut ==
  /\ \E f \in older \union {file} : Remains(f)
  /\ older' = {}
  /\ Ended

DiskChanges == faulty' = ~faulty /\ UNCHANGED <<memory, disk, now, kept>>

Boot == LoadRecord \/ LoadEnds

Turn ==
  \/ Sample \/ HoldBack \/ NotDue
  \/ AppendNothing \/ AppendPending \/ AppendFails
  \/ RewriteBegins \/ Rename \/ Reopen \/ RewriteFails

Next ==
  \/ Start \/ Boot \/ Turn
  \/ Kill \/ KillWhileAppending \/ Writeback \/ PowerCut \/ DiskChanges

(* The daemon goes on for as long as the process lives: the sleep of the   *)
(* sampler thread ends and calls return.  Nothing makes a disk heal or a   *)
(* daemon start.                                                           *)
Spec == Init /\ [][Next]_vars /\ WF_vars(Boot \/ Turn)

-----------------------------------------------------------------------------
(* The last n of s.                                                        *)
LastOf(s, n) == IF Len(s) <= n THEN s ELSE SubSeq(s, Len(s) - n + 1, Len(s))

(* Whenever the journal means to append, what the file holds followed by   *)
(* what is waiting ends with exactly the records in memory: nothing is     *)
(* missing, doubled or out of order, whatever failed before; the file is   *)
(* open, undamaged, and `in_file` counts it.                               *)
FileContinuesInMemory ==
  pc \in {"sample", "flush"} /\ ~journal.needsRewrite =>
    /\ journal.open
    /\ file.head = schema /\ journal.inFile = Len(file.recs)
    /\ LastOf(file.recs \o journal.pending, Capacity) = log

(* A kill at any moment, in the middle of a rewrite or an append too,      *)
(* loses no record of memory that an earlier flush wrote, even if the      *)
(* flushes since have failed.                                              *)
KillKeepsFlushed ==
  pc # "down" =>
    \A i \in DOMAIN log :
      log[i].t <= kept => log[i] \in Found(file.recs)

(* While flushes succeed no more than a flush interval's records and one   *)
(* are waiting, and while they fail none are: they cannot pile up.         *)
WaitingIsBounded ==
  Len(journal.pending) <= IF journal.needsRewrite THEN 0 ELSE FlushEvery + 1

(* The file is rewritten before it outgrows twice the capacity by more     *)
(* than the flush that noticed.                                            *)
FileIsBounded == Len(file.recs) <= 2 * Capacity + FlushEvery + 1

(* Records of another set of metrics are never taken for this one's.       *)
NeverMisread == \A i \in DOMAIN log : log[i].row = schema

(* The records that are on the disk whatever happens.                      *)
Safe ==
  {r \in ToSet(file.recs) \ {Torn} :
     \A f \in older \union {file} : r \in Found(SubSeq(f.recs, 1, f.synced))}

(* "There is always a complete file": whatever writes, rewrites, failures,  *)
(* kills and power cuts come, a start finds what SavedHistory promises. No *)
(* record that reached the disk leaves it but by a rewrite that leaves out *)
(* what memory has discarded, and what is found is taken back.             *)
Saved == INSTANCE SavedHistory WITH
  Down <- NoFile, next <- now,
  metrics <- IF pc = "load" THEN NoFile ELSE schema,
  memory <- IF pc = "load" THEN {} ELSE ToSet(log),
  onFile <- Found(file.recs), onDisk <- Safe

ImplementsSavedHistory == Saved!Spec

(* Once the disk works for good and the daemon keeps running, every record *)
(* in memory gets into the file, those taken while writing failed too.     *)
SavedOnceDiskWorks ==
  <>[](pc # "down" /\ ~faulty) =>
    \A n \in 1 .. MaxSamples :
      [](n \in {log[i].t : i \in DOMAIN log} =>
           <>(n \in {r.t : r \in Found(file.recs)}
              \/ n \notin {log[i].t : i \in DOMAIN log}))

(* "A power cut or a crash loses at most the last flush interval's         *)
(* records" (README and persist.rs): while no write has failed, no more    *)
(* records of memory than may wait for one flush are not surely on the     *)
(* disk.                                                                   *)
PowerCutLosesOneInterval ==
  pc = "sample" /\ ~journal.needsRewrite =>
    Cardinality({i \in DOMAIN log : log[i] \notin Safe}) <= FlushEvery + 1
=============================================================================
