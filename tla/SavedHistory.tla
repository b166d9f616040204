---------------------------- MODULE SavedHistory ----------------------------
(***************************************************************************)
(* What a history on disk promises, with no journal, file or rewrite in    *)
(* sight: the records in memory, those a start would find, and those it    *)
(* would find even after a power cut, through kills, power cuts and starts.*)
(* Journal implements it.                                                  *)
(***************************************************************************)
EXTENDS Integers, FiniteSets

CONSTANTS
  Capacity,  \* the most records in memory
  Retention, \* how far back a start looks, in sampling intervals
  Schemas,   \* the sets of metrics a run may record
  Down       \* what is recorded while the daemon is down

VARIABLES
  metrics, \* the set of metrics recorded
  next,    \* the time of the next sample
  memory,  \* the records in memory
  onFile,  \* the records a start finds after a kill
  onDisk   \* the records a start finds after a power cut, at least

(* The n newest records of S.                                              *)
NewestOf(S, n) == {r \in S : Cardinality({q \in S : q.t > r.t}) < n}

(* No record but of a sample that was taken.                               *)
Taken(records) == \A r \in records : r.t < next

Init ==
  /\ metrics = Down /\ next = 1
  /\ memory = {} /\ onFile = {} /\ onDisk = {}

(* Memory takes back exactly what is on file of the metrics now recorded,  *)
(* the newest of it, all or no older than the retention.                   *)
Start ==
  /\ metrics = Down
  /\ \E hash \in Schemas, oldest \in {0, next - Retention} :
       /\ metrics' = hash
       /\ memory' = NewestOf({r \in onFile : r.row = hash /\ r.t >= oldest}, Capacity)
  /\ UNCHANGED <<next, onFile, onDisk>>

Sample ==
  /\ metrics # Down
  /\ memory' = NewestOf(memory \union {[t |-> next, row |-> metrics]}, Capacity)
  /\ next' = next + 1
  /\ UNCHANGED <<metrics, onFile, onDisk>>

(* Records get onto the file; none that was there goes.                    *)
Saving == onFile \subseteq onFile' /\ Taken(onFile') /\ onDisk' = onDisk

Save == metrics # Down /\ Saving /\ UNCHANGED <<metrics, next, memory>>

(* All of memory and nothing else is on the file, and no record of memory  *)
(* that was on the disk leaves it.                                         *)
Compact ==
  /\ metrics # Down
  /\ onFile' = memory
  /\ onDisk \intersect memory \subseteq onDisk' /\ onDisk' \subseteq onFile'
  /\ UNCHANGED <<metrics, next, memory>>

Writeback == onDisk' = onFile /\ UNCHANGED <<metrics, next, memory, onFile>>

Ends == metrics' = Down /\ memory' = {} /\ next' = next

(* The process ends, perhaps in the middle of a save.                      *)
Kill == metrics # Down /\ Ends /\ Saving

PowerCut ==
  /\ Ends
  /\ onDisk \subseteq onFile' /\ Taken(onFile')
  /\ onDisk' = onFile'

Next == Start \/ Sample \/ Save \/ Compact \/ Writeback \/ Kill \/ PowerCut

Spec == Init /\ [][Next]_<<metrics, next, memory, onFile, onDisk>>
=============================================================================
