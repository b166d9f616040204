--------------------------- MODULE JournalProofs ---------------------------
(***************************************************************************)
(* Proofs about Journal.tla for every capacity, flush interval, retention  *)
(* and set of metrics: the file follows memory, a kill keeps what was      *)
(* flushed, nothing is misread, and file and waiting records stay few; and *)
(* Journal implements SavedHistory, its promise of what is on the disk.    *)
(***************************************************************************)
EXTENDS Journal, TLAPS, SequenceTheorems, FiniteSetTheorems

Records == [t : Nat, row : Schemas]

Stored == Records \union {Torn}

-----------------------------------------------------------------------------
(* Sequences of records.                                                   *)

LEMMA ToSetHas ==
  ASSUME NEW S, NEW s \in Seq(S), NEW i \in DOMAIN s
  PROVE  s[i] \in ToSet(s) /\ s[i] \in S
  BY DEF ToSet

LEMMA ConcatHas ==
  ASSUME NEW S, NEW s \in Seq(S), NEW u \in Seq(S)
  PROVE  /\ s \o u \in Seq(S) /\ Len(s \o u) = Len(s) + Len(u)
         /\ ToSet(s \o u) = ToSet(s) \union ToSet(u)
  <1>1. s \o u \in Seq(S) /\ Len(s \o u) = Len(s) + Len(u)
    OBVIOUS
  <1>2. ToSet(s \o u) \subseteq ToSet(s) \union ToSet(u)
    BY DEF ToSet
  <1>3. ToSet(s) \subseteq ToSet(s \o u)
    BY DEF ToSet
  <1>4. ToSet(u) \subseteq ToSet(s \o u)
    <2> SUFFICES ASSUME NEW i \in DOMAIN u PROVE u[i] \in ToSet(s \o u)
      BY DEF ToSet
    <2>1. Len(s) + i \in DOMAIN (s \o u) /\ (s \o u)[Len(s) + i] = u[i]
      OBVIOUS
    <2>2. QED
      BY <2>1 DEF ToSet
  <1>5. QED
    BY <1>1, <1>2, <1>3, <1>4

LEMMA PrefixHas ==
  ASSUME NEW S, NEW s \in Seq(S), NEW n \in 0 .. Len(s)
  PROVE  /\ SubSeq(s, 1, n) \in Seq(S) /\ Len(SubSeq(s, 1, n)) = n
         /\ ToSet(SubSeq(s, 1, n)) \subseteq ToSet(s)
  <1>1. /\ SubSeq(s, 1, n) \in Seq(S) /\ Len(SubSeq(s, 1, n)) = n
        /\ \A i \in 1 .. n : SubSeq(s, 1, n)[i] = s[i] /\ i \in DOMAIN s
    OBVIOUS
  <1>2. QED
    BY <1>1 DEF ToSet

LEMMA AddedHas ==
  ASSUME NEW S, NEW s \in Seq(S), NEW r \in S, Len(s) <= Capacity
  PROVE  /\ Log!Added(s, r) \in Seq(S) /\ Len(Log!Added(s, r)) <= Capacity
         /\ r \in ToSet(Log!Added(s, r))
         /\ ToSet(Log!Added(s, r)) \subseteq ToSet(s) \union {r}
  <1>1. CASE Len(s) < Capacity
    <2>1. Log!Added(s, r) = Append(s, r)
      BY <1>1 DEF Log!Added
    <2>2. /\ Append(s, r) \in Seq(S) /\ Len(Append(s, r)) = Len(s) + 1
          /\ \A i \in 1 .. Len(s) + 1 : Append(s, r)[i] = IF i <= Len(s) THEN s[i] ELSE r
      OBVIOUS
    <2>3. QED
      BY <1>1, <2>1, <2>2, CapacityAssumption DEF ToSet
  <1>2. CASE ~(Len(s) < Capacity)
    <2>1. Len(s) = Capacity /\ s # << >>
      BY <1>2, CapacityAssumption
    <2>2. Tail(s) \in Seq(S) /\ Len(Tail(s)) = Capacity - 1
      BY <2>1, CapacityAssumption
    <2>3. \A i \in 1 .. Capacity - 1 : Tail(s)[i] = s[i + 1] /\ i + 1 \in DOMAIN s
      BY <2>1, CapacityAssumption
    <2>4. Log!Added(s, r) = Append(Tail(s), r)
      BY <1>2 DEF Log!Added
    <2>5. QED
      BY <2>2, <2>3, <2>4, CapacityAssumption DEF ToSet
  <1>3. QED
    BY <1>1, <1>2

LEMMA LastOfHas ==
  ASSUME NEW S, NEW s \in Seq(S)
  PROVE  ToSet(LastOf(s, Capacity)) \subseteq ToSet(s)
  <1>1. CASE Len(s) <= Capacity
    BY <1>1 DEF LastOf
  <1>2. CASE ~(Len(s) <= Capacity)
    <2> DEFINE u == SubSeq(s, Len(s) - Capacity + 1, Len(s))
    <2>1. Len(s) - Capacity + 1 \in 1 .. Len(s)
      BY <1>2, CapacityAssumption
    <2>2. Len(u) = Capacity /\ DOMAIN u = 1 .. Capacity
      BY <1>2, <2>1, CapacityAssumption
    <2>3. \A i \in 1 .. Capacity : u[i] = s[i + Len(s) - Capacity]
      BY <1>2, <2>1, CapacityAssumption
    <2>4. \A i \in 1 .. Capacity : i + Len(s) - Capacity \in DOMAIN s
      BY <1>2, CapacityAssumption
    <2>5. LastOf(s, Capacity) = u
      BY <1>2 DEF LastOf
    <2>6. QED
      BY <2>2, <2>3, <2>4, <2>5 DEF ToSet
  <1>3. QED
    BY <1>1, <1>2

(* Discarding the oldest to make room keeps the last ones.                 *)
LEMMA LastOfAppend ==
  ASSUME NEW S, NEW s \in Seq(S), NEW r \in S
  PROVE  LastOf(Append(s, r), Capacity) = Log!Added(LastOf(s, Capacity), r)
  <1> DEFINE u == LastOf(s, Capacity)
  <1>0. Append(s, r) \in Seq(S) /\ Len(Append(s, r)) = Len(s) + 1 /\ Len(s) \in Nat
    OBVIOUS
  <1>1. CASE Len(s) < Capacity
    BY <1>0, <1>1, CapacityAssumption DEF LastOf, Log!Added
  <1>2. CASE Len(s) = Capacity
    <2>1. u = s
      BY <1>2 DEF LastOf
    <2>2. Log!Added(u, r) = Append(Tail(s), r)
      BY <1>2, <2>1 DEF Log!Added
    <2>3. LastOf(Append(s, r), Capacity) = SubSeq(Append(s, r), 2, Len(s) + 1)
      BY <1>0, <1>2, CapacityAssumption DEF LastOf
    <2>4. Append(Tail(s), r) = SubSeq(Append(s, r), 2, Len(s) + 1)
      <3> DEFINE a == Append(Tail(s), r)  b == SubSeq(Append(s, r), 2, Len(s) + 1)
      <3>1. a \in Seq(S) /\ Len(a) = Len(s)
        BY <1>2, CapacityAssumption
      <3>2. b \in Seq(S) /\ Len(b) = Len(s)
        BY <1>0, <1>2, CapacityAssumption
      <3>3. \A i \in 1 .. Len(s) : a[i] = b[i]
        <4> SUFFICES ASSUME NEW i \in 1 .. Len(s) PROVE a[i] = b[i]
          OBVIOUS
        <4>1. b[i] = Append(s, r)[i + 1]
          BY <1>0, <1>2, CapacityAssumption
        <4>2. CASE i = Len(s)
          BY <1>2, <4>1, <4>2, CapacityAssumption
        <4>3. CASE i # Len(s)
          BY <1>2, <4>1, <4>3, CapacityAssumption
        <4>4. QED
          BY <4>2, <4>3
      <3> HIDE DEF a, b
      <3>4. a = b
        BY <3>1, <3>2, <3>3, SeqEqual
      <3>5. QED
        BY <3>4 DEF a, b
    <2>5. QED
      BY <2>2, <2>3, <2>4
  <1>3. CASE Len(s) > Capacity
    <2> DEFINE k == Len(s) - Capacity
    <2>0. k \in Nat \ {0} /\ k + Capacity = Len(s)
      BY <1>0, <1>3, CapacityAssumption
    <2> HIDE DEF k
    <2>1. u = SubSeq(s, k + 1, Len(s))
      BY <1>3, CapacityAssumption DEF LastOf, k
    <2>2. u \in Seq(S) /\ Len(u) = Capacity /\ \A i \in 1 .. Capacity : u[i] = s[k + i]
      BY <2>0, <2>1, CapacityAssumption
    <2> HIDE DEF u
    <2>3. Log!Added(u, r) = Append(Tail(u), r)
      BY <2>2, CapacityAssumption DEF Log!Added
    <2>4. LastOf(Append(s, r), Capacity) = SubSeq(Append(s, r), k + 2, Len(s) + 1)
      BY <1>0, <1>3, CapacityAssumption DEF LastOf, k
    <2>5. Append(Tail(u), r) = SubSeq(Append(s, r), k + 2, Len(s) + 1)
      <3> DEFINE a == Append(Tail(u), r)  b == SubSeq(Append(s, r), k + 2, Len(s) + 1)
      <3>1. a \in Seq(S) /\ Len(a) = Capacity
        BY <2>2, CapacityAssumption
      <3>2. b \in Seq(S) /\ Len(b) = Capacity
        BY <1>0, <2>0, CapacityAssumption
      <3>3. \A i \in 1 .. Capacity : a[i] = b[i]
        <4> SUFFICES ASSUME NEW i \in 1 .. Capacity PROVE a[i] = b[i]
          OBVIOUS
        <4>1. b[i] = Append(s, r)[k + 1 + i]
          BY <1>0, <2>0, CapacityAssumption
        <4>2. CASE i = Capacity
          BY <2>0, <2>2, <4>1, <4>2, CapacityAssumption
        <4>3. CASE i # Capacity
          <5>1. a[i] = u[i + 1] /\ u[i + 1] = s[k + 1 + i]
            BY <2>0, <2>2, <4>3, CapacityAssumption
          <5>2. Append(s, r)[k + 1 + i] = s[k + 1 + i]
            BY <2>0, <4>3, CapacityAssumption
          <5>3. QED
            BY <4>1, <5>1, <5>2
        <4>4. QED
          BY <4>2, <4>3
      <3> HIDE DEF a, b
      <3>4. a = b
        BY <3>1, <3>2, <3>3, SeqEqual
      <3>5. QED
        BY <3>4 DEF a, b
    <2>6. QED
      BY <2>3, <2>4, <2>5 DEF u
  <1>4. QED
    BY <1>0, <1>1, <1>2, <1>3, CapacityAssumption

LEMMA ConcatAppend ==
  ASSUME NEW s \in Seq(Stored), NEW u \in Seq(Stored), NEW r \in Stored
  PROVE  s \o Append(u, r) = Append(s \o u, r)
  OBVIOUS

-----------------------------------------------------------------------------
(* What is found in a file.                                                *)

LEMMA FoundGrows ==
  ASSUME NEW s \in Seq(Stored), NEW u \in Seq(Stored)
  PROVE  Found(s) \subseteq Found(s \o u)
  <1> SUFFICES ASSUME NEW i \in DOMAIN s, \A m \in 1 .. i : s[m] # Torn
               PROVE  s[i] \in Found(s \o u)
    BY DEF Found
  <1>1. i \in DOMAIN (s \o u) /\ \A m \in 1 .. i : (s \o u)[m] = s[m]
    OBVIOUS
  <1>2. QED
    BY <1>1 DEF Found

LEMMA FoundIs ==
  ASSUME NEW s \in Seq(Stored)
  PROVE  /\ Found(s) \subseteq ToSet(s) \ {Torn}
         /\ Torn \notin ToSet(s) => Found(s) = ToSet(s)
  <1>1. \A i \in DOMAIN s : i \in 1 .. i /\ 1 .. i \subseteq DOMAIN s
    OBVIOUS
  <1>2. QED
    BY <1>1 DEF Found, ToSet
-----------------------------------------------------------------------------
(* The invariant.                                                          *)

Steps == {"down", "load", "rewrite", "renamed", "sample", "flush"}

Journals == [open : BOOLEAN, pending : Seq(Records), inFile : Nat, needsRewrite : BOOLEAN]

Files == [head : Schemas \union {NoFile, Foreign}, recs : Seq(Stored), synced : Nat]

TypeOK ==
  /\ log \in Seq(Records) /\ Len(log) <= Capacity
  /\ journal \in Journals
  /\ pc \in Steps /\ loading \in [read : Nat, oldest : Nat]
  /\ booting \in BOOLEAN /\ age \in Nat
  /\ schema \in Schemas \union {NoFile} /\ (pc # "down" => schema \in Schemas)
  /\ file \in Files /\ older \subseteq Files
  /\ now \in Nat \ {0} /\ kept \in Nat

(* No more records are waiting than turns were taken since the last flush, *)
(* and none while the file is not trusted.                                 *)
WaitingIsRecent ==
  /\ Len(journal.pending) <= FlushEvery + 1
  /\ pc \in {"sample", "flush"} => Len(journal.pending) <= age /\ age <= FlushEvery + 1
  /\ pc = "sample" => age <= FlushEvery
  /\ journal.needsRewrite => journal.pending = << >>

(* A record of the metrics of `hash`, of a sample that was taken.          *)
Genuine(r, hash) == r.row = hash /\ r.t < now

(* What the name may stand for after a power cut is short, and what can be *)
(* read of it is of the metrics that its header says.                      *)
FileIsSound(f) ==
  /\ Len(f.recs) <= 2 * Capacity + FlushEvery + 1
  /\ \A r \in ToSet(f.recs) \ {Torn} : Genuine(r, f.head)

FilesAreSound == \A f \in older \union {file} : FileIsSound(f)

MemoryIsSound ==
  /\ \A r \in ToSet(log) \union ToSet(journal.pending) : Genuine(r, schema)
  /\ kept < now
  /\ pc = "down" => log = << >> /\ journal = ClosedJournal

(* A file is read up to the first record that is torn, and what has been   *)
(* loaded is of it; once it has been rewritten it is the memory.           *)
FileIsRead ==
  /\ pc = "load" => /\ ToSet(log) \subseteq Found(file.recs)
                    /\ \A m \in 1 .. loading.read : file.recs[m] # Torn
  /\ pc = "renamed" => file.head = schema /\ file.recs = log

(* A file that is appended to is whole.                                    *)
TrustedIsWhole ==
  pc \in {"sample", "flush"} /\ ~journal.needsRewrite => Torn \notin ToSet(file.recs)

USE CapacityAssumption, FlushAssumption, RetentionAssumption, NamesAssumption

-----------------------------------------------------------------------------
(* What steps leave in files.                                              *)

LEMMA TornIsNoRecord == Torn \notin Records
  BY DEF Records

LEMMA RecordsAreStored ==
  ASSUME NEW p \in Seq(Records)
  PROVE  p \in Seq(Stored) /\ Torn \notin ToSet(p) /\ ToSet(p) \subseteq Records
  BY TornIsNoRecord DEF Stored, ToSet

LEMMA NewestIsTaken ==
  ASSUME NEW s \in Seq(Records)
  PROVE  Newest(s) \in Nat /\ (s # << >> => \E r \in ToSet(s) : Newest(s) = r.t)
  <1>1. CASE s = << >>
    BY <1>1 DEF Newest
  <1>2. CASE s # << >>
    <2>1. Len(s) \in DOMAIN s /\ s[Len(s)] \in Records
      BY <1>2
    <2>2. s[Len(s)] \in ToSet(s)
      BY <2>1 DEF ToSet
    <2>3. QED
      BY <1>2, <2>1, <2>2 DEF Records, Newest
  <1>3. QED
    BY <1>1, <1>2

LEMMA PartFits ==
  ASSUME NEW a \in Nat, NEW k \in Nat, NEW b \in Nat, k < b, NEW l \in 0 .. 1, NEW c, c = (a + k) + l
  PROVE  c <= a + b
  OBVIOUS

LEMMA RestHas ==
  ASSUME NEW rest \in Rests
  PROVE  rest \in Seq(Stored) /\ Len(rest) \in 0 .. 1 /\ ToSet(rest) \subseteq {Torn}
  <1>1. Torn \in Stored
    BY DEF Stored
  <1>2. CASE rest = << >>
    BY <1>2 DEF ToSet
  <1>3. CASE rest = <<Torn>>
    <2>1. DOMAIN <<Torn>> = 1 .. 1 /\ Len(<<Torn>>) = 1 /\ <<Torn>>[1] = Torn
      OBVIOUS
    <2>2. <<Torn>> \in Seq(Stored)
      BY <1>1, <2>1
    <2>3. QED
      BY <1>3, <2>1, <2>2 DEF ToSet
  <1>4. QED
    BY <1>2, <1>3 DEF Rests

(* Records appended in part, the last of them perhaps torn.                *)
LEMMA PartlyHas ==
  ASSUME NEW recs \in Seq(Stored), NEW p \in Seq(Records), NEW k \in 0 .. Len(p) - 1,
         NEW rest \in Rests
  PROVE  LET x == recs \o SubSeq(p, 1, k) \o rest IN
         /\ x \in Seq(Stored) /\ Len(x) <= Len(recs) + Len(p)
         /\ ToSet(x) \subseteq ToSet(recs) \union ToSet(p) \union {Torn}
         /\ Found(recs) \subseteq Found(x)
  <1> DEFINE q == SubSeq(p, 1, k)
             y == recs \o q
             x == y \o rest
  <1>1. p \in Seq(Stored)
    BY RecordsAreStored
  <1>2. q \in Seq(Stored) /\ Len(q) = k /\ ToSet(q) \subseteq ToSet(p)
    BY <1>1, PrefixHas
  <1>3. rest \in Seq(Stored) /\ Len(rest) \in 0 .. 1 /\ ToSet(rest) \subseteq {Torn}
    BY RestHas
  <1> HIDE DEF q
  <1>4. y \in Seq(Stored) /\ Len(y) = Len(recs) + Len(q) /\ ToSet(y) = ToSet(recs) \union ToSet(q)
    BY <1>2, ConcatHas
  <1>5. Found(recs) \subseteq Found(y)
    BY <1>2, FoundGrows
  <1> HIDE DEF y
  <1>6. x \in Seq(Stored) /\ Len(x) = Len(y) + Len(rest) /\ ToSet(x) = ToSet(y) \union ToSet(rest)
    BY <1>3, <1>4, ConcatHas
  <1>7. Found(y) \subseteq Found(x)
    BY <1>3, <1>4, FoundGrows
  <1> HIDE DEF x
  <1>8. Len(x) <= Len(recs) + Len(p)
    <2>1. Len(q) = k /\ Len(y) = Len(recs) + Len(q) /\ Len(x) = Len(y) + Len(rest)
      BY <1>2, <1>4, <1>6
    <2>2. Len(x) = (Len(recs) + k) + Len(rest)
      BY <2>1
    <2>3. Len(recs) \in Nat /\ Len(p) \in Nat /\ k \in Nat /\ k < Len(p) /\ Len(rest) \in 0 .. 1
      BY <1>3
    <2>4. QED
      BY <2>2, <2>3, PartFits
  <1>9. ToSet(x) \subseteq ToSet(recs) \union ToSet(p) \union {Torn}
    BY <1>2, <1>3, <1>4, <1>6
  <1>10. QED
    BY <1>5, <1>6, <1>7, <1>8, <1>9 DEF x, y, q

(* A file after a power cut.                                               *)
LEMMA RemainsHas ==
  ASSUME NEW f \in Files, Remains(f)
  PROVE  /\ file' \in Files /\ file'.head = f.head /\ Len(file'.recs) <= Len(f.recs)
         /\ ToSet(file'.recs) \subseteq ToSet(f.recs) \union {Torn}
  <1>1. CASE file' = [f EXCEPT !.synced = Len(f.recs)]
    BY <1>1 DEF Files
  <1>2. CASE \E n \in f.synced .. Len(f.recs) - 1, rest \in Rests :
               file' = [head |-> f.head, recs |-> SubSeq(f.recs, 1, n) \o rest, synced |-> n + Len(rest)]
    <2>1. PICK n \in f.synced .. Len(f.recs) - 1, rest \in Rests :
            file' = [head |-> f.head, recs |-> SubSeq(f.recs, 1, n) \o rest, synced |-> n + Len(rest)]
      BY <1>2
    <2> DEFINE q == SubSeq(f.recs, 1, n)
    <2>2. rest \in Seq(Stored) /\ Len(rest) \in 0 .. 1 /\ ToSet(rest) \subseteq {Torn}
      BY RestHas
    <2>3. f.recs \in Seq(Stored) /\ n \in 0 .. Len(f.recs) /\ n < Len(f.recs)
          /\ f.head \in Schemas \union {NoFile, Foreign}
      BY DEF Files
    <2>4. file'.head = f.head /\ file'.recs = q \o rest /\ file'.synced = n + Len(rest)
      BY <2>1
    <2>5. q \in Seq(Stored) /\ Len(q) = n /\ ToSet(q) \subseteq ToSet(f.recs)
      BY <2>3, PrefixHas
    <2> HIDE DEF q
    <2>6. /\ q \o rest \in Seq(Stored) /\ Len(q \o rest) = Len(q) + Len(rest)
          /\ ToSet(q \o rest) = ToSet(q) \union ToSet(rest)
      BY <2>2, <2>5, ConcatHas
    <2>7. file' \in [head : Schemas \union {NoFile, Foreign}, recs : Seq(Stored), synced : Nat]
      <3>1. file' = [head |-> f.head, recs |-> q \o rest, synced |-> n + Len(rest)]
        BY <2>1 DEF q
      <3>2. n + Len(rest) \in Nat
        BY <2>2, <2>3
      <3>3. QED
        BY <2>3, <2>6, <3>1, <3>2
    <2>8. Len(file'.recs) <= Len(f.recs)
      <3>1. Len(file'.recs) = (0 + n) + Len(rest) /\ Len(rest) \in 0 .. 1
        BY <2>2, <2>3, <2>4, <2>5, <2>6
      <3>2. Len(f.recs) \in Nat /\ n \in Nat /\ n < Len(f.recs)
        BY <2>3
      <3>3. Len(file'.recs) <= 0 + Len(f.recs)
        BY <3>1, <3>2, PartFits
      <3>4. QED
        BY <3>2, <3>3
    <2>9. ToSet(file'.recs) \subseteq ToSet(f.recs) \union {Torn}
      BY <2>2, <2>4, <2>5, <2>6
    <2>10. file' \in Files /\ file'.head = f.head
      BY <2>4, <2>7 DEF Files
    <2>11. QED
      BY <2>8, <2>9, <2>10
  <1>3. QED
    BY <1>1, <1>2 DEF Remains

LEMMA AppendedPartly ==
  ASSUME TypeOK, PartlyAppended
  PROVE  /\ file' \in Files /\ file'.head = file.head /\ older' = older
         /\ Len(file'.recs) <= Len(file.recs) + Len(journal.pending)
         /\ ToSet(file'.recs) \subseteq ToSet(file.recs) \union ToSet(journal.pending) \union {Torn}
         /\ Found(file.recs) \subseteq Found(file'.recs)
  <1>1. PICK k \in 0 .. Len(journal.pending) - 1, rest \in Rests :
          file' = [file EXCEPT !.recs = @ \o SubSeq(journal.pending, 1, k) \o rest]
    BY DEF PartlyAppended
  <1>2. /\ file \in Files /\ file.recs \in Seq(Stored) /\ journal.pending \in Seq(Records)
    BY DEF TypeOK, Files, Journals
  <1> DEFINE x == file.recs \o SubSeq(journal.pending, 1, k) \o rest
  <1>3. /\ x \in Seq(Stored) /\ Len(x) <= Len(file.recs) + Len(journal.pending)
        /\ ToSet(x) \subseteq ToSet(file.recs) \union ToSet(journal.pending) \union {Torn}
        /\ Found(file.recs) \subseteq Found(x)
    BY <1>2, PartlyHas
  <1>4. file' = [file EXCEPT !.recs = x]
    BY <1>1
  <1> HIDE DEF x
  <1>5. file' \in Files /\ file'.head = file.head /\ file'.recs = x
    BY <1>2, <1>3, <1>4 DEF Files
  <1>6. older' = older
    BY DEF PartlyAppended
  <1>7. QED
    BY <1>3, <1>5, <1>6

LEMMA AppendedWhole ==
  ASSUME TypeOK, AppendPending
  PROVE  /\ file' \in Files /\ file'.head = file.head /\ older' = older
         /\ file'.recs = file.recs \o journal.pending
         /\ Len(file'.recs) = Len(file.recs) + Len(journal.pending)
         /\ ToSet(file'.recs) = ToSet(file.recs) \union ToSet(journal.pending)
  <1>1. /\ file \in Files /\ file.recs \in Seq(Stored) /\ journal.pending \in Seq(Stored)
    BY RecordsAreStored DEF TypeOK, Files, Journals
  <1> DEFINE x == file.recs \o journal.pending
  <1>2. /\ x \in Seq(Stored) /\ Len(x) = Len(file.recs) + Len(journal.pending)
        /\ ToSet(x) = ToSet(file.recs) \union ToSet(journal.pending)
    BY <1>1, ConcatHas
  <1>3. file' = [file EXCEPT !.recs = x] /\ older' = older
    BY DEF AppendPending
  <1> HIDE DEF x
  <1>4. file' \in Files /\ file'.head = file.head /\ file'.recs = x
    BY <1>1, <1>2, <1>3 DEF Files
  <1>5. QED
    BY <1>2, <1>3, <1>4 DEF x

(* What the flush and the load are, and leave alone.                       *)
LEMMA FlushedTypes ==
  ASSUME TypeOK, NEW ok \in BOOLEAN, NEW j \in Journals, pc # "down", Flushed(ok, j),
         file' \in Files, older' \subseteq Files
  PROVE  TypeOK'
  <1>1. journal' \in Journals
    <2>1. << >> \in Seq(Records)
      OBVIOUS
    <2>2. QED
      BY <2>1 DEF Flushed, Journals
  <1>2. kept' \in Nat
    BY NewestIsTaken DEF Flushed, TypeOK
  <1>3. QED
    BY <1>1, <1>2 DEF Flushed, TypeOK, Steps

LEMMA EndedTypes ==
  ASSUME TypeOK, Ended, file' \in Files, older' \subseteq Files
  PROVE  TypeOK'
  <1>1. ClosedJournal \in Journals
    BY DEF ClosedJournal, Journals
  <1>2. << >> \in Seq(Records) /\ Len(<< >>) <= Capacity
    OBVIOUS
  <1>3. QED
    BY <1>1, <1>2 DEF Ended, TypeOK, Steps, NotLoading

(* The record that is loaded, or else sampled, and what memory is then.    *)
LEMMA LoadedRecord ==
  ASSUME TypeOK, LoadRecord
  PROVE  LET r == file.recs[loading.read + 1] IN
         /\ loading.read + 1 \in DOMAIN file.recs /\ r \in Records /\ r # Torn
         /\ r \in ToSet(file.recs)
         /\ log' \in Seq(Records) /\ Len(log') <= Capacity
         /\ ToSet(log') \subseteq ToSet(log) \union {r}
         /\ loading' \in [read : Nat, oldest : Nat] /\ loading'.read = loading.read + 1
  <1> DEFINE r == file.recs[loading.read + 1]
  <1>1. loading \in [read : Nat, oldest : Nat] /\ file.recs \in Seq(Stored)
    BY DEF TypeOK, Files
  <1>2. loading.read + 1 \in DOMAIN file.recs
    BY <1>1 DEF LoadRecord, More
  <1>3. r \in Stored /\ r \in ToSet(file.recs)
    BY <1>1, <1>2, ToSetHas
  <1>4. r # Torn /\ log' = IF r.t >= loading.oldest /\ Log!InOrder(log, r)
                            THEN Log!Added(log, r) ELSE log
    BY DEF LoadRecord
  <1>5. loading' = [loading EXCEPT !.read = @ + 1]
    BY DEF LoadRecord
  <1>6. loading' \in [read : Nat, oldest : Nat] /\ loading'.read = loading.read + 1
    BY <1>1, <1>5
  <1> HIDE DEF r
  <1>7. r \in Records
    BY <1>3, <1>4 DEF Stored
  <1>8. log \in Seq(Records) /\ Len(log) <= Capacity
    BY DEF TypeOK
  <1>9. log' \in Seq(Records) /\ Len(log') <= Capacity /\ ToSet(log') \subseteq ToSet(log) \union {r}
    BY <1>4, <1>7, <1>8, AddedHas
  <1>10. QED
    BY <1>2, <1>3, <1>4, <1>6, <1>7, <1>9 DEF r

LEMMA SampledRecord ==
  ASSUME TypeOK, Sample
  PROVE  LET r == [t |-> now, row |-> schema] IN
         /\ r \in Records
         /\ log' = Log!Added(log, r) /\ log' \in Seq(Records) /\ Len(log') <= Capacity
         /\ ToSet(log') \subseteq ToSet(log) \union {r}
         /\ journal' \in Journals /\ journal'.open = journal.open
         /\ journal'.inFile = journal.inFile /\ journal'.needsRewrite = journal.needsRewrite
         /\ journal'.pending = IF journal.needsRewrite THEN journal.pending
                               ELSE Append(journal.pending, r)
         /\ Len(journal'.pending) <= Len(journal.pending) + 1
         /\ ToSet(journal'.pending) \subseteq ToSet(journal.pending) \union {r}
  <1> DEFINE r == [t |-> now, row |-> schema]
  <1>1. r \in Records
    BY DEF TypeOK, Records, Sample
  <1>2. log' = Log!Added(log, r) /\ journal' = Noted(r)
    BY DEF Sample
  <1>3. journal \in Journals /\ journal.pending \in Seq(Records)
        /\ log \in Seq(Records) /\ Len(log) <= Capacity
    BY DEF TypeOK, Journals
  <1> HIDE DEF r
  <1>4. log' \in Seq(Records) /\ Len(log') <= Capacity /\ ToSet(log') \subseteq ToSet(log) \union {r}
    BY <1>1, <1>2, <1>3, AddedHas
  <1>5. /\ Append(journal.pending, r) \in Seq(Records)
        /\ Len(Append(journal.pending, r)) = Len(journal.pending) + 1
    BY <1>1, <1>3
  <1>6. ToSet(Append(journal.pending, r)) \subseteq ToSet(journal.pending) \union {r}
    BY <1>1, <1>3 DEF ToSet
  <1>7. /\ journal' \in Journals /\ journal'.open = journal.open
        /\ journal'.inFile = journal.inFile /\ journal'.needsRewrite = journal.needsRewrite
        /\ journal'.pending = IF journal.needsRewrite THEN journal.pending
                              ELSE Append(journal.pending, r)
    BY <1>2, <1>3, <1>5 DEF Noted, Journals
  <1>8. Len(journal.pending) \in Nat
    BY <1>3
  <1>9. /\ Len(journal'.pending) <= Len(journal.pending) + 1
        /\ ToSet(journal'.pending) \subseteq ToSet(journal.pending) \union {r}
    BY <1>5, <1>6, <1>7, <1>8
  <1>10. QED
    BY <1>1, <1>2, <1>4, <1>7, <1>9 DEF r

-----------------------------------------------------------------------------
(* Every step keeps the types.                                             *)

LEMMA InitTypes == Init => TypeOK
  <1> SUFFICES ASSUME Init PROVE TypeOK
    OBVIOUS
  <1>1. << >> \in Seq(Records) /\ << >> \in Seq(Stored) /\ Len(<< >>) = 0
    OBVIOUS
  <1>2. ClosedJournal \in Journals
    BY <1>1 DEF ClosedJournal, Journals
  <1>3. file \in Files
    <2>1. Missing = [head |-> NoFile, recs |-> << >>, synced |-> 0]
          /\ [Missing EXCEPT !.head = Foreign] = [head |-> Foreign, recs |-> << >>, synced |-> 0]
      BY DEF Missing
    <2>2. \A h \in {NoFile, Foreign} : [head |-> h, recs |-> << >>, synced |-> 0] \in Files
      BY <1>1 DEF Files
    <2>3. QED
      BY <2>1, <2>2 DEF Init
  <1>4. Len(log) <= Capacity /\ loading \in [read : Nat, oldest : Nat]
    BY <1>1 DEF Init, NotLoading
  <1>5. /\ log = << >> /\ journal = ClosedJournal /\ pc = "down" /\ booting = FALSE
        /\ age = 0 /\ schema = NoFile /\ older = {} /\ now = 1 /\ kept = 0
    BY DEF Init
  <1>6. log \in Seq(Records) /\ journal \in Journals /\ older \subseteq Files
    BY <1>1, <1>2, <1>5
  <1>7. booting \in BOOLEAN
    BY Zenon DEF Init
  <1>8. QED
    BY <1>3, <1>4, <1>5, <1>6, <1>7 DEF TypeOK, Steps

LEMMA FlushTypes ==
  ASSUME TypeOK, AppendNothing \/ AppendPending \/ AppendFails \/ Reopen
  PROVE  TypeOK'
  <1>1. journal \in Journals /\ file \in Files /\ older \subseteq Files
    BY DEF TypeOK
  <1>2. CASE AppendNothing
    BY <1>1, <1>2, FlushedTypes DEF AppendNothing, Due, disk
  <1>3. CASE AppendPending
    <2> DEFINE j == [journal EXCEPT !.inFile = @ + Len(journal.pending), !.pending = << >>]
    <2>1. j \in Journals
      <3>1. journal.inFile + Len(journal.pending) \in Nat /\ << >> \in Seq(Records)
        BY <1>1 DEF Journals
      <3>2. QED
        BY <1>1, <3>1 DEF Journals
    <2>2. Flushed(TRUE, j) /\ pc # "down"
      BY <1>3 DEF AppendPending, Appending, Due
    <2> HIDE DEF j
    <2>3. file' \in Files /\ older' \subseteq Files
      BY <1>1, <1>3, AppendedWhole
    <2>4. QED
      BY <2>1, <2>2, <2>3, FlushedTypes
  <1>4. CASE AppendFails
    <2>1. Flushed(FALSE, journal) /\ PartlyAppended /\ pc # "down"
      BY <1>4 DEF AppendFails, Appending, Due
    <2>2. file' \in Files /\ older' \subseteq Files
      BY <1>1, <2>1, AppendedPartly
    <2>3. QED
      BY <1>1, <2>1, <2>2, FlushedTypes
  <1>5. CASE Reopen
    <2> DEFINE j == [open |-> TRUE, pending |-> << >>, inFile |-> Len(log), needsRewrite |-> FALSE]
    <2>1. j \in Journals
      <3>1. Len(log) \in Nat /\ << >> \in Seq(Records)
        BY DEF TypeOK
      <3>2. QED
        BY <3>1 DEF Journals
    <2>2. Flushed(TRUE, j) /\ pc # "down" /\ UNCHANGED disk
      BY <1>5 DEF Reopen
    <2> HIDE DEF j
    <2>3. QED
      BY <1>1, <2>1, <2>2, FlushedTypes DEF disk
  <1>6. QED
    BY <1>2, <1>3, <1>4, <1>5

LEMMA RenameTypes == ASSUME TypeOK, Rename PROVE TypeOK'
  <1>1. log \in Seq(Stored) /\ Len(log) \in Nat
    BY RecordsAreStored DEF TypeOK
  <1>2. schema \in Schemas
    BY DEF Rename, TypeOK
  <1>3. file' \in Files
    BY <1>1, <1>2 DEF Rename, Files
  <1>4. older' \subseteq Files
    BY DEF Rename, TypeOK
  <1>5. QED
    BY <1>3, <1>4 DEF Rename, TypeOK, Steps

LEMMA NextTypes == ASSUME TypeOK, [Next]_vars PROVE TypeOK'
  <1>0. file \in Files /\ older \subseteq Files /\ journal \in Journals
    BY DEF TypeOK
  <1>1. CASE Start
    <2>1. loading' \in [read : Nat, oldest : Nat]
      BY <1>1 DEF Start, Oldest, TypeOK
    <2>2. QED
      BY <1>1, <2>1 DEF Start, TypeOK, Steps, disk
  <1>2. CASE LoadRecord
    BY <1>2, LoadedRecord DEF LoadRecord, TypeOK, Steps, disk
  <1>3. CASE LoadEnds
    <2>1. kept' \in Nat
      BY <1>3, NewestIsTaken DEF LoadEnds, TypeOK
    <2>2. QED
      BY <1>3, <2>1 DEF LoadEnds, TypeOK, Steps, NotLoading, disk
  <1>4. CASE Sample
    <2>1. log' \in Seq(Records) /\ Len(log') <= Capacity /\ journal' \in Journals
      BY <1>4, SampledRecord
    <2>2. now' \in Nat \ {0} /\ age' \in Nat
      BY <1>4 DEF Sample, TypeOK
    <2>3. QED
      BY <1>4, <2>1, <2>2 DEF Sample, TypeOK, Steps, disk
  <1>5. CASE HoldBack
    BY <1>5 DEF HoldBack, TypeOK, Steps, disk
  <1>6. CASE NotDue
    BY <1>6 DEF NotDue, TypeOK, Steps, disk
  <1>7. CASE AppendNothing \/ AppendPending \/ AppendFails \/ Reopen
    BY <1>7, FlushTypes
  <1>8. CASE RewriteBegins
    <2>1. journal' \in Journals
      <3>1. journal' = [journal EXCEPT !.open = FALSE]
        BY <1>8 DEF RewriteBegins
      <3>2. QED
        BY <1>0, <3>1 DEF Journals
    <2>2. QED
      BY <1>8, <2>1 DEF RewriteBegins, Due, TypeOK, Steps, disk
  <1>9. CASE Rename
    BY <1>9, RenameTypes
  <1>10. CASE RewriteFails
    <2>1. file' \in Files /\ older' \subseteq Files /\ pc # "down"
      BY <1>0, <1>10 DEF RewriteFails, disk
    <2>2. Ended \/ Flushed(FALSE, journal)
      BY <1>10 DEF RewriteFails
    <2>3. QED
      BY <1>0, <2>1, <2>2, FlushedTypes, EndedTypes
  <1>11. CASE Kill
    BY <1>0, <1>11, EndedTypes DEF Kill, disk
  <1>12. CASE KillWhileAppending
    BY <1>0, <1>12, EndedTypes, AppendedPartly DEF KillWhileAppending
  <1>13. CASE Writeback
    <2>1. file' \in Files
      BY <1>0, <1>13 DEF Writeback, Files
    <2>2. QED
      BY <1>13, <2>1 DEF Writeback, TypeOK, Steps, memory
  <1>14. CASE PowerCut
    <2>1. file' \in Files
      BY <1>0, <1>14, RemainsHas DEF PowerCut
    <2>2. Ended /\ older' \subseteq Files
      BY <1>14 DEF PowerCut
    <2>3. QED
      BY <2>1, <2>2, EndedTypes
  <1>15. CASE DiskChanges \/ UNCHANGED vars
    BY <1>15 DEF DiskChanges, vars, memory, disk, TypeOK, Steps
  <1>16. QED
    BY <1>1, <1>2, <1>3, <1>4, <1>5, <1>6, <1>7, <1>8, <1>9, <1>10, <1>11, <1>12, <1>13,
       <1>14, <1>15 DEF Next, Boot, Turn

-----------------------------------------------------------------------------
(* What waits to be written is recent.                                     *)

LEMMA FlushedIsRecent ==
  ASSUME WaitingIsRecent, NEW ok \in BOOLEAN, NEW j \in Journals,
         ok => j.pending = << >>, Flushed(ok, j)
  PROVE  WaitingIsRecent'
  <1>1. journal'.pending = << >>
    BY DEF Flushed, Journals
  <1>2. age' = 0 /\ pc' = "sample"
    BY DEF Flushed
  <1>3. QED
    BY <1>1, <1>2 DEF WaitingIsRecent

LEMMA SampleIsRecent == ASSUME TypeOK, WaitingIsRecent, Sample PROVE WaitingIsRecent'
  <1>1. /\ Len(journal'.pending) <= Len(journal.pending) + 1
        /\ journal' \in Journals /\ journal \in Journals
        /\ journal'.needsRewrite = journal.needsRewrite
        /\ journal.needsRewrite => journal'.pending = journal.pending
    BY SampledRecord DEF TypeOK
  <1>2. Len(journal'.pending) \in Nat /\ Len(journal.pending) \in Nat
    BY <1>1 DEF Journals
  <1>3. age <= FlushEvery /\ Len(journal.pending) <= age /\ age \in Nat
    BY DEF Sample, WaitingIsRecent, TypeOK
  <1>4. age' = age + 1 /\ pc' = "flush"
    BY DEF Sample
  <1>5. Len(journal'.pending) <= age' /\ age' <= FlushEvery + 1 /\ age' \in Nat
    BY <1>1, <1>2, <1>3, <1>4
  <1>6. journal'.needsRewrite => journal'.pending = << >>
    BY <1>1 DEF WaitingIsRecent
  <1>7. QED
    BY <1>2, <1>4, <1>5, <1>6 DEF WaitingIsRecent

LEMMA NextRecent == ASSUME TypeOK, WaitingIsRecent, [Next]_vars PROVE WaitingIsRecent'
  <1>0. journal \in Journals /\ journal.pending \in Seq(Records) /\ age \in Nat
    BY DEF TypeOK, Journals
  <1>1. ASSUME journal' = journal, pc' \notin {"sample", "flush"}
        PROVE  WaitingIsRecent'
    BY <1>1 DEF WaitingIsRecent
  <1>2. CASE Start \/ LoadRecord \/ LoadEnds \/ Rename
    BY <1>1, <1>2 DEF Start, LoadRecord, LoadEnds, Rename
  <1>3. CASE Sample
    BY <1>3, SampleIsRecent
  <1>4. CASE HoldBack
    <2>1. age <= FlushEvery /\ Len(journal.pending) <= age /\ age' = age + 1
      BY <1>4 DEF HoldBack, WaitingIsRecent
    <2>2. age' <= FlushEvery + 1 /\ Len(journal.pending) <= age'
      BY <1>0, <2>1
    <2>3. QED
      BY <1>4, <2>2 DEF HoldBack, WaitingIsRecent
  <1>5. CASE NotDue
    BY <1>5 DEF NotDue, WaitingIsRecent
  <1>6. CASE AppendNothing
    BY <1>0, <1>6, FlushedIsRecent DEF AppendNothing
  <1>7. CASE AppendPending
    <2> DEFINE j == [journal EXCEPT !.inFile = @ + Len(journal.pending), !.pending = << >>]
    <2>1. j.pending = << >> /\ j \in Journals
      <3>1. journal.inFile + Len(journal.pending) \in Nat /\ << >> \in Seq(Records)
        BY <1>0 DEF Journals
      <3>2. QED
        BY <1>0, <3>1 DEF Journals
    <2>2. Flushed(TRUE, j)
      BY <1>7 DEF AppendPending
    <2> HIDE DEF j
    <2>3. QED
      BY <2>1, <2>2, FlushedIsRecent
  <1>8. CASE AppendFails
    BY <1>0, <1>8, FlushedIsRecent DEF AppendFails
  <1>9. CASE Reopen
    <2>1. journal'.pending = << >> /\ age' = 0
      BY <1>9 DEF Reopen, Flushed
    <2>2. QED
      BY <1>9, <2>1 DEF Reopen, Flushed, WaitingIsRecent
  <1>10. CASE RewriteBegins
    <2>1. journal'.pending = journal.pending /\ journal'.needsRewrite = journal.needsRewrite
      BY <1>0, <1>10 DEF RewriteBegins, Journals
    <2>2. QED
      BY <1>10, <2>1 DEF RewriteBegins, WaitingIsRecent
  <1>11. ASSUME Ended PROVE WaitingIsRecent'
    BY <1>11 DEF Ended, WaitingIsRecent, ClosedJournal
  <1>12. CASE RewriteFails
    <2>1. Ended \/ Flushed(FALSE, journal)
      BY <1>12 DEF RewriteFails
    <2>2. QED
      BY <1>0, <1>11, <2>1, FlushedIsRecent
  <1>13. CASE Kill \/ KillWhileAppending \/ PowerCut
    BY <1>11, <1>13 DEF Kill, KillWhileAppending, PowerCut
  <1>14. CASE Writeback \/ DiskChanges \/ UNCHANGED vars
    BY <1>14 DEF Writeback, DiskChanges, vars, memory, WaitingIsRecent
  <1>15. QED
    BY <1>2, <1>3, <1>4, <1>5, <1>6, <1>7, <1>8, <1>9, <1>10, <1>12, <1>13, <1>14
    DEF Next, Boot, Turn

-----------------------------------------------------------------------------
(* Files and memory stay sound.                                            *)

LEMMA SoundStays ==
  ASSUME TypeOK, now' \in {now, now + 1}, NEW r, NEW hash, Genuine(r, hash), r.t \in Nat
  PROVE  r.row = hash /\ r.t < now'
  BY DEF Genuine, TypeOK

LEMMA FewEnough ==
  ASSUME NEW n \in Nat, ~(n > 2 * Capacity), NEW p \in Nat, p <= FlushEvery + 1
  PROVE  n + p <= 2 * Capacity + FlushEvery + 1
  OBVIOUS

LEMMA NoLonger ==
  ASSUME NEW n \in Nat, NEW p \in Nat, NEW l \in Nat,
         l <= n + p, n + p <= 2 * Capacity + FlushEvery + 1
  PROVE  l <= 2 * Capacity + FlushEvery + 1
  OBVIOUS

(* Whether a journal may append, and what it then knows of the file.       *)
LEMMA AppendsToFew ==
  ASSUME TypeOK, WaitingIsRecent, FileContinuesInMemory, Appending
  PROVE  /\ ~journal.needsRewrite /\ file.head = schema
         /\ journal.inFile = Len(file.recs)
         /\ Len(file.recs) + Len(journal.pending) <= 2 * Capacity + FlushEvery + 1
  <1>1. ~journal.needsRewrite /\ ~(journal.inFile > 2 * Capacity) /\ pc = "flush"
    BY DEF Appending, Due, RewriteDue
  <1>2. file.head = schema /\ journal.inFile = Len(file.recs)
    BY <1>1 DEF FileContinuesInMemory
  <1>3. Len(file.recs) \in Nat /\ Len(journal.pending) \in Nat
    BY DEF TypeOK, Files, Journals
  <1>4. Len(journal.pending) <= FlushEvery + 1
    BY DEF WaitingIsRecent
  <1>5. Len(file.recs) + Len(journal.pending) <= 2 * Capacity + FlushEvery + 1
    BY <1>1, <1>2, <1>3, <1>4, FewEnough
  <1>6. QED
    BY <1>1, <1>2, <1>5

(* Appending leaves the file sound.                                        *)
LEMMA AppendedIsSound ==
  ASSUME TypeOK, WaitingIsRecent, FileContinuesInMemory, FilesAreSound, MemoryIsSound, Appending,
         NEW recs \in Seq(Stored), Len(recs) <= Len(file.recs) + Len(journal.pending),
         ToSet(recs) \subseteq ToSet(file.recs) \union ToSet(journal.pending) \union {Torn}
  PROVE  /\ Len(recs) <= 2 * Capacity + FlushEvery + 1
         /\ \A r \in ToSet(recs) \ {Torn} : Genuine(r, file.head)
  <1>1. /\ file.head = schema
        /\ Len(file.recs) + Len(journal.pending) <= 2 * Capacity + FlushEvery + 1
    BY AppendsToFew
  <1>2. Len(file.recs) \in Nat /\ Len(journal.pending) \in Nat /\ Len(recs) \in Nat
    BY DEF TypeOK, Files, Journals
  <1>3. FileIsSound(file)
    BY DEF FilesAreSound
  <1>4. \A r \in ToSet(recs) \ {Torn} : Genuine(r, file.head)
    BY <1>1, <1>3 DEF FileIsSound, MemoryIsSound
  <1>5. Len(recs) <= 2 * Capacity + FlushEvery + 1
    BY <1>1, <1>2, NoLonger
  <1>6. QED
    BY <1>4, <1>5

LEMMA RenamedIsSound ==
  ASSUME TypeOK, MemoryIsSound, Rename
  PROVE  /\ Len(file'.recs) <= 2 * Capacity + FlushEvery + 1 /\ file'.recs = log
         /\ \A r \in ToSet(file'.recs) \ {Torn} : Genuine(r, file'.head)
  <1>1. file'.recs = log /\ file'.head = schema
    BY DEF Rename
  <1>2. Len(log) <= Capacity /\ Len(log) \in Nat
    BY DEF TypeOK
  <1>3. QED
    BY <1>1, <1>2 DEF MemoryIsSound

LEMMA NextFiles ==
  ASSUME TypeOK, TypeOK', WaitingIsRecent, FileContinuesInMemory, FilesAreSound, MemoryIsSound,
         [Next]_vars
  PROVE  FilesAreSound'
  <1>0. /\ file \in Files /\ older \subseteq Files /\ file' \in Files /\ older' \subseteq Files
    BY DEF TypeOK
  <1>1. /\ FileIsSound(file)
        /\ \A f \in older : FileIsSound(f)
    BY DEF FilesAreSound
  <1>2. ASSUME now' \in {now, now + 1}, NEW f \in Files, FileIsSound(f)
        PROVE  FileIsSound(f)'
    <2>1. \A r \in ToSet(f.recs) \ {Torn} : r.t \in Nat
      BY DEF Files, Stored, Records, ToSet
    <2>2. \A r \in ToSet(f.recs) \ {Torn} : r.row = f.head /\ r.t < now'
      BY <1>2, <2>1 DEF FileIsSound, Genuine, TypeOK
    <2>3. QED
      BY <1>2, <2>2 DEF FileIsSound, Genuine
  <1>3. now' \in {now, now + 1}
    BY DEF Next, Boot, Turn, Start, LoadRecord, LoadEnds, Sample, HoldBack, NotDue,
      AppendNothing, AppendPending, AppendFails, RewriteBegins, Rename, Reopen, RewriteFails,
      Kill, KillWhileAppending, Writeback, PowerCut, DiskChanges, Flushed, Ended, vars
  <1>4. CASE UNCHANGED disk
    <2>1. file' = file /\ older' = older
      BY <1>4 DEF disk
    <2>2. QED
      BY <1>0, <1>1, <1>2, <1>3, <2>1 DEF FilesAreSound
  <1>5. ASSUME now' = now, Len(file'.recs) <= 2 * Capacity + FlushEvery + 1,
               \A r \in ToSet(file'.recs) \ {Torn} : Genuine(r, file'.head),
               \A f \in older' : f \in older \/ f = file
        PROVE  FilesAreSound'
    <2>1. FileIsSound(file)'
      BY <1>5 DEF FileIsSound, Genuine
    <2>2. \A f \in older' : FileIsSound(f)'
      BY <1>0, <1>1, <1>2, <1>3, <1>5
    <2>3. QED
      BY <2>1, <2>2 DEF FilesAreSound
  <1>6. CASE AppendPending
    <2>1. Appending /\ now' = now
      BY <1>6 DEF AppendPending, Flushed
    <2>2. /\ older' = older /\ file'.head = file.head /\ file'.recs \in Seq(Stored)
          /\ Len(file'.recs) <= Len(file.recs) + Len(journal.pending)
          /\ ToSet(file'.recs) \subseteq ToSet(file.recs) \union ToSet(journal.pending) \union {Torn}
      <3>1. Len(file.recs) + Len(journal.pending) \in Nat
        BY DEF TypeOK, Files, Journals
      <3>2. QED
        BY <1>0, <1>6, <3>1, AppendedWhole DEF Files
    <2>3. /\ Len(file'.recs) <= 2 * Capacity + FlushEvery + 1
          /\ \A r \in ToSet(file'.recs) \ {Torn} : Genuine(r, file.head)
      BY <2>1, <2>2, AppendedIsSound
    <2>4. QED
      BY <1>5, <2>1, <2>2, <2>3
  <1>7. CASE AppendFails \/ KillWhileAppending
    <2>1. Appending /\ now' = now /\ PartlyAppended
      BY <1>7 DEF AppendFails, KillWhileAppending, Flushed, Ended
    <2>2. /\ older' = older /\ file'.head = file.head /\ file'.recs \in Seq(Stored)
          /\ Len(file'.recs) <= Len(file.recs) + Len(journal.pending)
          /\ ToSet(file'.recs) \subseteq ToSet(file.recs) \union ToSet(journal.pending) \union {Torn}
      BY <1>0, <2>1, AppendedPartly DEF Files
    <2>3. /\ Len(file'.recs) <= 2 * Capacity + FlushEvery + 1
          /\ \A r \in ToSet(file'.recs) \ {Torn} : Genuine(r, file.head)
      BY <2>1, <2>2, AppendedIsSound
    <2>4. QED
      BY <1>5, <2>1, <2>2, <2>3
  <1>8. CASE Rename
    <2>1. now' = now /\ \A f \in older' : f \in older \/ f = file
      BY <1>8 DEF Rename
    <2>2. QED
      BY <1>5, <1>8, <2>1, RenamedIsSound
  <1>9. CASE Writeback
    <2>1. now' = now /\ older' = {} /\ file'.recs = file.recs /\ file'.head = file.head
      BY <1>0, <1>9 DEF Writeback, Files
    <2>2. QED
      BY <1>1, <1>5, <2>1 DEF FileIsSound
  <1>10. CASE PowerCut
    <2>1. PICK f \in older \union {file} : Remains(f)
      BY <1>10 DEF PowerCut
    <2>2. f \in Files /\ FileIsSound(f) /\ now' = now /\ older' = {}
      BY <1>0, <1>1, <1>10, <2>1 DEF PowerCut, Ended
    <2>3. /\ file'.head = f.head /\ Len(file'.recs) <= Len(f.recs)
          /\ ToSet(file'.recs) \subseteq ToSet(f.recs) \union {Torn}
      BY <2>1, <2>2, RemainsHas
    <2>4. Len(file'.recs) <= 2 * Capacity + FlushEvery + 1
      <3>1. Len(f.recs) \in Nat /\ Len(file'.recs) \in Nat
        BY <1>0, <2>2 DEF Files
      <3>2. Len(f.recs) <= 2 * Capacity + FlushEvery + 1
        BY <2>2 DEF FileIsSound
      <3>3. QED
        BY <2>3, <3>1, <3>2
    <2>5. \A r \in ToSet(file'.recs) \ {Torn} : Genuine(r, file'.head)
      BY <2>2, <2>3 DEF FileIsSound
    <2>6. QED
      BY <1>5, <2>2, <2>4, <2>5
  <1>11. QED
    BY <1>4, <1>6, <1>7, <1>8, <1>9, <1>10
    DEF Next, Boot, Turn, Start, LoadRecord, LoadEnds, Sample, HoldBack, NotDue, AppendNothing,
        RewriteBegins, Reopen, RewriteFails, Kill, DiskChanges, vars

(* Memory from what it was, with at most the sample that was taken.        *)
LEMMA MemoryStaysSound ==
  ASSUME TypeOK, MemoryIsSound, pc' # "down", schema' = schema, now' \in {now, now + 1},
         kept' \in Nat, kept' < now',
         \A r \in ToSet(log') \union ToSet(journal'.pending) :
           r \in ToSet(log) \union ToSet(journal.pending) \/ (r.row = schema /\ r.t < now')
  PROVE  MemoryIsSound'
  <1>1. \A r \in ToSet(log) \union ToSet(journal.pending) : r.t \in Nat
    <2>1. log \in Seq(Records) /\ journal.pending \in Seq(Records)
      BY DEF TypeOK, Journals
    <2>2. ToSet(log) \subseteq Records /\ ToSet(journal.pending) \subseteq Records
      BY <2>1, RecordsAreStored
    <2>3. QED
      BY <2>2 DEF Records
  <1>2. \A r \in ToSet(log) \union ToSet(journal.pending) : r.row = schema /\ r.t < now'
    BY <1>1 DEF MemoryIsSound, Genuine, TypeOK
  <1>3. \A r \in ToSet(log') \union ToSet(journal'.pending) : r.row = schema' /\ r.t < now'
    BY <1>2
  <1>4. QED
    BY <1>3 DEF MemoryIsSound, Genuine

LEMMA NewestIsPast == ASSUME TypeOK, MemoryIsSound PROVE Newest(log) < now
  <1>1. Newest(log) \in Nat /\ (log # << >> => \E r \in ToSet(log) : Newest(log) = r.t)
    BY NewestIsTaken DEF TypeOK
  <1>2. CASE log = << >>
    BY <1>2 DEF Newest, TypeOK
  <1>3. CASE log # << >>
    BY <1>1, <1>3 DEF MemoryIsSound, Genuine
  <1>4. QED
    BY <1>2, <1>3

LEMMA FlushedIsSound ==
  ASSUME TypeOK, MemoryIsSound, NEW ok \in BOOLEAN, NEW j \in Journals, Flushed(ok, j),
         j.pending = << >> \/ j.pending = journal.pending
  PROVE  MemoryIsSound'
  <1>1. journal'.pending = << >> \/ journal'.pending = journal.pending
    BY DEF Flushed, Journals
  <1>2. ToSet(journal'.pending) \subseteq ToSet(journal.pending)
    BY <1>1 DEF ToSet
  <1>3. kept' \in Nat /\ kept' < now'
    BY NewestIsPast, NewestIsTaken DEF Flushed, MemoryIsSound, TypeOK
  <1>4. pc' # "down" /\ log' = log /\ schema' = schema /\ now' = now
    BY DEF Flushed
  <1>5. QED
    BY <1>2, <1>3, <1>4, MemoryStaysSound

LEMMA NextMemory ==
  ASSUME TypeOK, TypeOK', FilesAreSound, MemoryIsSound, [Next]_vars
  PROVE  MemoryIsSound'
  <1>0. journal \in Journals /\ now \in Nat /\ kept \in Nat /\ kept < now
    BY DEF TypeOK, MemoryIsSound
  <1>1. ASSUME log' = log, journal' = journal \/ journal' = [journal EXCEPT !.open = FALSE],
               schema' = schema, now' = now, kept' = kept \/ kept' = Newest(log), pc' # "down"
        PROVE  MemoryIsSound'
    <2>1. journal'.pending = journal.pending
      BY <1>0, <1>1 DEF Journals
    <2>2. kept' \in Nat /\ kept' < now'
      BY <1>0, <1>1, NewestIsPast, NewestIsTaken DEF TypeOK
    <2>3. QED
      BY <1>1, <2>1, <2>2, MemoryStaysSound
  <1>2. CASE Start
    <2>1. log = << >> /\ journal = ClosedJournal
      BY <1>2 DEF Start, MemoryIsSound
    <2>2. ToSet(log) = {} /\ ToSet(journal.pending) = {}
      BY <2>1 DEF ClosedJournal, ToSet
    <2>3. QED
      BY <1>0, <1>2, <2>2 DEF Start, MemoryIsSound
  <1>3. CASE LoadRecord
    <2> DEFINE r == file.recs[loading.read + 1]
    <2>1. r \in ToSet(file.recs) \ {Torn} /\ ToSet(log') \subseteq ToSet(log) \union {r}
      BY <1>3, LoadedRecord
    <2>2. Genuine(r, file.head) /\ file.head = schema
      BY <1>3, <2>1 DEF FilesAreSound, FileIsSound, LoadRecord, More, Fits
    <2>3. /\ journal' = journal /\ schema' = schema /\ now' = now /\ kept' = kept
          /\ pc' # "down"
      BY <1>3 DEF LoadRecord
    <2> HIDE DEF r
    <2>4. QED
      BY <1>0, <2>1, <2>2, <2>3, MemoryStaysSound DEF Genuine
  <1>4. CASE Sample
    <2> DEFINE r == [t |-> now, row |-> schema]
    <2>1. /\ ToSet(log') \subseteq ToSet(log) \union {r}
          /\ ToSet(journal'.pending) \subseteq ToSet(journal.pending) \union {r}
      BY <1>4, SampledRecord
    <2>2. schema' = schema /\ now' = now + 1 /\ kept' = kept /\ pc' # "down"
      BY <1>4 DEF Sample
    <2>3. r.row = schema /\ r.t < now' /\ kept' < now'
      BY <1>0, <2>2
    <2> HIDE DEF r
    <2>4. QED
      BY <1>0, <2>1, <2>2, <2>3, MemoryStaysSound
  <1>5. CASE LoadEnds \/ HoldBack \/ NotDue \/ RewriteBegins \/ Rename
    BY <1>1, <1>5 DEF LoadEnds, HoldBack, NotDue, RewriteBegins, Rename
  <1>6. CASE AppendNothing \/ AppendFails
    BY <1>0, <1>6, FlushedIsSound DEF AppendNothing, AppendFails
  <1>7. CASE AppendPending
    <2> DEFINE j == [journal EXCEPT !.inFile = @ + Len(journal.pending), !.pending = << >>]
    <2>1. j.pending = << >> /\ j \in Journals
      <3>1. journal.inFile + Len(journal.pending) \in Nat /\ << >> \in Seq(Records)
        BY <1>0 DEF Journals
      <3>2. QED
        BY <1>0, <3>1 DEF Journals
    <2>2. Flushed(TRUE, j)
      BY <1>7 DEF AppendPending
    <2> HIDE DEF j
    <2>3. QED
      BY <2>1, <2>2, FlushedIsSound
  <1>8. CASE Reopen
    <2> DEFINE j == [open |-> TRUE, pending |-> << >>, inFile |-> Len(log), needsRewrite |-> FALSE]
    <2>1. j.pending = << >> /\ j \in Journals
      <3>1. Len(log) \in Nat /\ << >> \in Seq(Records)
        BY DEF TypeOK
      <3>2. QED
        BY <3>1 DEF Journals
    <2>2. Flushed(TRUE, j)
      BY <1>8 DEF Reopen
    <2> HIDE DEF j
    <2>3. QED
      BY <2>1, <2>2, FlushedIsSound
  <1>9. ASSUME Ended PROVE MemoryIsSound'
    <2>1. log' = << >> /\ journal' = ClosedJournal /\ kept' = 0 /\ now' = now
      BY <1>9 DEF Ended
    <2>2. ToSet(log') = {} /\ ToSet(journal'.pending) = {}
      BY <2>1 DEF ClosedJournal, ToSet
    <2>3. kept' < now'
      BY <2>1 DEF TypeOK
    <2>4. QED
      BY <2>1, <2>2, <2>3 DEF MemoryIsSound
  <1>10. CASE RewriteFails
    <2>1. Ended \/ Flushed(FALSE, journal)
      BY <1>10 DEF RewriteFails
    <2>2. QED
      BY <1>0, <1>9, <2>1, FlushedIsSound
  <1>11. CASE Kill \/ KillWhileAppending \/ PowerCut
    BY <1>9, <1>11 DEF Kill, KillWhileAppending, PowerCut
  <1>12. CASE Writeback \/ DiskChanges \/ UNCHANGED vars
    BY <1>12 DEF Writeback, DiskChanges, vars, memory, MemoryIsSound, Genuine
  <1>13. QED
    BY <1>2, <1>3, <1>4, <1>5, <1>6, <1>7, <1>8, <1>10, <1>11, <1>12 DEF Next, Boot, Turn

-----------------------------------------------------------------------------
(* Files are read, and written, in order.                                  *)

LEMMA NextReads ==
  ASSUME TypeOK, FileIsRead, MemoryIsSound, [Next]_vars
  PROVE  FileIsRead'
  <1>1. ASSUME pc' \notin {"load", "renamed"} PROVE FileIsRead'
    BY <1>1 DEF FileIsRead
  <1>2. CASE Start
    <2>1. log' = << >> /\ loading'.read = 0 /\ pc' = "load"
      BY <1>2 DEF Start, MemoryIsSound
    <2>2. ToSet(log') = {}
      BY <2>1 DEF ToSet
    <2>3. QED
      BY <2>1, <2>2 DEF FileIsRead
  <1>3. CASE LoadRecord
    <2> DEFINE n == loading.read + 1
    <2>1. /\ n \in DOMAIN file.recs /\ file.recs[n] # Torn
          /\ ToSet(log') \subseteq ToSet(log) \union {file.recs[n]}
          /\ loading'.read = n
      BY <1>3, LoadedRecord
    <2>2. pc = "load" /\ pc' = "load" /\ file' = file
      BY <1>3 DEF LoadRecord, disk
    <2>3. loading.read \in Nat
      BY DEF TypeOK
    <2>4. \A m \in 1 .. n : file.recs[m] # Torn
      BY <2>1, <2>2, <2>3 DEF FileIsRead
    <2>5. file.recs[n] \in Found(file.recs)
      BY <2>1, <2>4 DEF Found
    <2> HIDE DEF n
    <2>6. QED
      BY <2>1, <2>2, <2>4, <2>5 DEF FileIsRead
  <1>4. CASE LoadEnds \/ Sample \/ HoldBack \/ NotDue \/ AppendNothing \/ AppendPending
             \/ AppendFails \/ RewriteBegins \/ Reopen
    BY <1>1, <1>4 DEF LoadEnds, Sample, HoldBack, NotDue, AppendNothing, AppendPending,
      AppendFails, RewriteBegins, Reopen, Flushed
  <1>5. CASE Rename
    BY <1>5 DEF Rename, FileIsRead
  <1>6. CASE RewriteFails \/ Kill \/ KillWhileAppending \/ PowerCut
    BY <1>1, <1>6 DEF RewriteFails, Kill, KillWhileAppending, PowerCut, Flushed, Ended
  <1>7. CASE Writeback
    <2>1. file'.recs = file.recs /\ file'.head = file.head
      BY <1>7 DEF Writeback, TypeOK, Files
    <2>2. QED
      BY <1>7, <2>1 DEF Writeback, memory, FileIsRead
  <1>8. CASE DiskChanges \/ UNCHANGED vars
    BY <1>8 DEF DiskChanges, vars, memory, disk, FileIsRead
  <1>9. QED
    BY <1>2, <1>3, <1>4, <1>5, <1>6, <1>7, <1>8 DEF Next, Boot, Turn

-----------------------------------------------------------------------------
(* The file goes on where it ended, and memory ends where it does.         *)

LEMMA LastOfShort == ASSUME TypeOK PROVE LastOf(log \o << >>, Capacity) = log
  <1>1. log \o << >> = log
    BY DEF TypeOK
  <1>2. QED
    BY <1>1 DEF LastOf, TypeOK

LEMMA SampleContinues ==
  ASSUME TypeOK, FileContinuesInMemory, Sample
  PROVE  FileContinuesInMemory'
  <1> DEFINE r == [t |-> now, row |-> schema]
  <1>1. SUFFICES ASSUME ~journal'.needsRewrite
                 PROVE  /\ journal'.open
                        /\ file'.head = schema' /\ journal'.inFile = Len(file'.recs)
                        /\ LastOf(file'.recs \o journal'.pending, Capacity) = log'
    BY DEF FileContinuesInMemory
  <1>2. /\ r \in Records /\ log' = Log!Added(log, r) /\ journal'.open = journal.open
        /\ journal'.inFile = journal.inFile /\ ~journal.needsRewrite
        /\ journal'.pending = Append(journal.pending, r)
    BY <1>1, SampledRecord
  <1>3. file' = file /\ schema' = schema /\ pc = "sample"
    BY DEF Sample, disk
  <1>4. /\ journal.open /\ file.head = schema /\ journal.inFile = Len(file.recs)
        /\ LastOf(file.recs \o journal.pending, Capacity) = log
    BY <1>2, <1>3 DEF FileContinuesInMemory
  <1> HIDE DEF r
  <1>5. r \in Stored /\ file.recs \in Seq(Stored) /\ journal.pending \in Seq(Stored)
    <2>1. r \in Stored
      BY <1>2 DEF Stored
    <2>2. file.recs \in Seq(Stored) /\ journal.pending \in Seq(Records)
      BY DEF TypeOK, Files, Journals
    <2>3. QED
      BY <2>1, <2>2, RecordsAreStored
  <1>6. file.recs \o Append(journal.pending, r) = Append(file.recs \o journal.pending, r)
    BY <1>5, ConcatAppend
  <1>7. file.recs \o journal.pending \in Seq(Stored)
    BY <1>5, ConcatHas
  <1>8. LastOf(Append(file.recs \o journal.pending, r), Capacity) = Log!Added(log, r)
    BY <1>4, <1>5, <1>7, LastOfAppend
  <1>9. QED
    BY <1>2, <1>3, <1>4, <1>6, <1>8

LEMMA AppendContinues ==
  ASSUME TypeOK, FileContinuesInMemory, AppendPending
  PROVE  FileContinuesInMemory'
  <1>1. pc = "flush" /\ ~journal.needsRewrite
    BY DEF AppendPending, Appending, Due, RewriteDue
  <1>2. /\ journal.open /\ file.head = schema /\ journal.inFile = Len(file.recs)
        /\ LastOf(file.recs \o journal.pending, Capacity) = log
    BY <1>1 DEF FileContinuesInMemory
  <1>3. /\ journal' = [journal EXCEPT !.inFile = @ + Len(journal.pending), !.pending = << >>]
        /\ log' = log /\ schema' = schema
    BY DEF AppendPending, Flushed
  <1>4. /\ journal'.open = journal.open /\ journal'.pending = << >>
        /\ journal'.inFile = journal.inFile + Len(journal.pending)
    BY <1>3 DEF TypeOK, Journals
  <1>5. /\ file'.head = file.head /\ file'.recs = file.recs \o journal.pending
        /\ Len(file'.recs) = Len(file.recs) + Len(journal.pending) /\ file'.recs \in Seq(Stored)
    BY AppendedWhole DEF Files
  <1>6. file'.recs \o << >> = file'.recs
    BY <1>5
  <1>7. QED
    BY <1>2, <1>3, <1>4, <1>5, <1>6 DEF FileContinuesInMemory

LEMMA ReopenContinues ==
  ASSUME TypeOK, FileIsRead, Reopen
  PROVE  FileContinuesInMemory'
  <1>1. file.head = schema /\ file.recs = log
    BY DEF Reopen, FileIsRead
  <1>2. journal' = [open |-> TRUE, pending |-> << >>, inFile |-> Len(log), needsRewrite |-> FALSE]
        /\ log' = log /\ schema' = schema /\ file' = file
    BY DEF Reopen, Flushed, disk
  <1>3. LastOf(log \o << >>, Capacity) = log
    BY LastOfShort
  <1>4. journal'.open /\ journal'.pending = << >> /\ journal'.inFile = Len(log)
    BY <1>2
  <1>5. QED
    BY <1>1, <1>2, <1>3, <1>4 DEF FileContinuesInMemory

LEMMA NextContinues ==
  ASSUME TypeOK, FileContinuesInMemory, FileIsRead, [Next]_vars
  PROVE  FileContinuesInMemory'
  <1>0. journal \in Journals
    BY DEF TypeOK
  <1>1. ASSUME pc' \notin {"sample", "flush"} \/ journal'.needsRewrite
        PROVE  FileContinuesInMemory'
    BY <1>1 DEF FileContinuesInMemory
  <1>2. CASE Start \/ LoadRecord \/ LoadEnds \/ RewriteBegins \/ Rename \/ Kill
             \/ KillWhileAppending \/ PowerCut
    BY <1>1, <1>2 DEF Start, LoadRecord, LoadEnds, RewriteBegins, Rename, Kill,
      KillWhileAppending, PowerCut, Ended
  <1>3. CASE Sample
    BY <1>3, SampleContinues
  <1>4. CASE HoldBack \/ NotDue
    BY <1>4 DEF HoldBack, NotDue, disk, FileContinuesInMemory
  <1>5. CASE AppendNothing
    <2>1. journal' = journal /\ log' = log /\ schema' = schema /\ file' = file /\ pc = "flush"
      BY <1>5 DEF AppendNothing, Due, Flushed, disk
    <2>2. QED
      BY <2>1 DEF FileContinuesInMemory
  <1>6. CASE AppendPending
    BY <1>6, AppendContinues
  <1>7. ASSUME Flushed(FALSE, journal) PROVE FileContinuesInMemory'
    <2>1. journal' = [journal EXCEPT !.needsRewrite = TRUE, !.pending = << >>]
      BY <1>7 DEF Flushed
    <2>2. journal'.needsRewrite
      BY <1>0, <2>1 DEF Journals
    <2>3. QED
      BY <1>1, <2>2
  <1>8. CASE AppendFails
    BY <1>7, <1>8 DEF AppendFails
  <1>9. CASE RewriteFails
    <2>1. Flushed(FALSE, journal) \/ pc' = "down"
      BY <1>9 DEF RewriteFails, Ended
    <2>2. QED
      BY <1>1, <1>7, <2>1
  <1>10. CASE Reopen
    BY <1>10, ReopenContinues
  <1>11. CASE Writeback
    <2>1. file'.recs = file.recs /\ file'.head = file.head
      BY <1>11 DEF Writeback, TypeOK, Files
    <2>2. QED
      BY <1>11, <2>1 DEF Writeback, memory, FileContinuesInMemory
  <1>12. CASE DiskChanges \/ UNCHANGED vars
    BY <1>12 DEF DiskChanges, vars, memory, disk, FileContinuesInMemory
  <1>13. QED
    BY <1>2, <1>3, <1>4, <1>5, <1>6, <1>8, <1>9, <1>10, <1>11, <1>12 DEF Next, Boot, Turn

LEMMA NextTrusted ==
  ASSUME TypeOK, TrustedIsWhole, FileIsRead, [Next]_vars
  PROVE  TrustedIsWhole'
  <1>0. journal \in Journals /\ journal.pending \in Seq(Records)
    BY DEF TypeOK, Journals
  <1>1. ASSUME pc' \notin {"sample", "flush"} \/ journal'.needsRewrite
        PROVE  TrustedIsWhole'
    BY <1>1 DEF TrustedIsWhole
  <1>2. CASE Start \/ LoadRecord \/ LoadEnds \/ RewriteBegins \/ Rename \/ Kill
             \/ KillWhileAppending \/ PowerCut
    BY <1>1, <1>2 DEF Start, LoadRecord, LoadEnds, RewriteBegins, Rename, Kill,
      KillWhileAppending, PowerCut, Ended
  <1>3. CASE Sample
    <2>1. journal'.needsRewrite = journal.needsRewrite
      BY <1>3, SampledRecord
    <2>2. QED
      BY <1>3, <2>1 DEF Sample, disk, TrustedIsWhole
  <1>4. CASE HoldBack \/ NotDue
    BY <1>4 DEF HoldBack, NotDue, disk, TrustedIsWhole
  <1>5. CASE AppendNothing
    BY <1>5 DEF AppendNothing, Due, Flushed, disk, TrustedIsWhole
  <1>6. CASE AppendPending
    <2>1. Torn \notin ToSet(journal.pending) /\ pc = "flush" /\ ~journal.needsRewrite
      BY <1>0, <1>6, RecordsAreStored DEF AppendPending, Appending, Due, RewriteDue
    <2>2. ToSet(file'.recs) = ToSet(file.recs) \union ToSet(journal.pending)
      BY <1>6, AppendedWhole
    <2>3. QED
      BY <2>1, <2>2 DEF TrustedIsWhole
  <1>7. ASSUME Flushed(FALSE, journal) PROVE TrustedIsWhole'
    <2>1. journal' = [journal EXCEPT !.needsRewrite = TRUE, !.pending = << >>]
      BY <1>7 DEF Flushed
    <2>2. journal'.needsRewrite
      BY <1>0, <2>1 DEF Journals
    <2>3. QED
      BY <1>1, <2>2
  <1>8. CASE AppendFails
    BY <1>7, <1>8 DEF AppendFails
  <1>9. CASE RewriteFails
    <2>1. Flushed(FALSE, journal) \/ pc' = "down"
      BY <1>9 DEF RewriteFails, Ended
    <2>2. QED
      BY <1>1, <1>7, <2>1
  <1>10. CASE Reopen
    <2>1. file'.recs = log
      BY <1>10 DEF Reopen, FileIsRead, disk
    <2>2. Torn \notin ToSet(log)
      BY RecordsAreStored DEF TypeOK
    <2>3. QED
      BY <2>1, <2>2 DEF TrustedIsWhole
  <1>11. CASE Writeback
    <2>1. file'.recs = file.recs
      BY <1>11 DEF Writeback, TypeOK, Files
    <2>2. QED
      BY <1>11, <2>1 DEF Writeback, memory, TrustedIsWhole
  <1>12. CASE DiskChanges \/ UNCHANGED vars
    BY <1>12 DEF DiskChanges, vars, memory, disk, TrustedIsWhole
  <1>13. QED
    BY <1>2, <1>3, <1>4, <1>5, <1>6, <1>8, <1>9, <1>10, <1>11, <1>12 DEF Next, Boot, Turn

-----------------------------------------------------------------------------
(* What was flushed is found.                                              *)

(* A file that is appended to has all of memory but what is waiting.       *)
LEMMA MemoryIsAtHand ==
  ASSUME TypeOK, FileContinuesInMemory, pc = "flush", ~journal.needsRewrite
  PROVE  ToSet(log) \subseteq ToSet(file.recs) \union ToSet(journal.pending)
  <1>1. LastOf(file.recs \o journal.pending, Capacity) = log
    BY DEF FileContinuesInMemory
  <1>2. file.recs \in Seq(Stored) /\ journal.pending \in Seq(Records)
    BY DEF TypeOK, Files, Journals
  <1>3. journal.pending \in Seq(Stored)
    BY <1>2, RecordsAreStored
  <1>4. /\ file.recs \o journal.pending \in Seq(Stored)
        /\ ToSet(file.recs \o journal.pending) = ToSet(file.recs) \union ToSet(journal.pending)
    BY <1>2, <1>3, ConcatHas
  <1>5. ToSet(LastOf(file.recs \o journal.pending, Capacity))
          \subseteq ToSet(file.recs \o journal.pending)
    BY <1>4, LastOfHas
  <1>6. QED
    BY <1>1, <1>4, <1>5

LEMMA NextKept ==
  ASSUME TypeOK, TypeOK', MemoryIsSound, FileIsRead, FileIsRead', TrustedIsWhole, TrustedIsWhole',
         FileContinuesInMemory, KillKeepsFlushed, [Next]_vars
  PROVE  KillKeepsFlushed'
  <1>0. file.recs \in Seq(Stored) /\ file'.recs \in Seq(Stored) /\ log \in Seq(Records)
    BY DEF TypeOK, Files
  <1>1. pc # "down" => \A r \in ToSet(log) : r.t <= kept => r \in Found(file.recs)
    BY DEF KillKeepsFlushed, ToSet
  <1>2. ASSUME pc' # "down" => \A r \in ToSet(log') : r.t <= kept' => r \in Found(file'.recs)
        PROVE  KillKeepsFlushed'
    BY <1>2 DEF KillKeepsFlushed, ToSet
  <1>3. ASSUME pc # "down", log' = log, kept' = kept, Found(file.recs) \subseteq Found(file'.recs)
        PROVE  KillKeepsFlushed'
    BY <1>1, <1>2, <1>3
  <1>4. ASSUME log' = log, ToSet(log) \subseteq Found(file'.recs)
        PROVE  KillKeepsFlushed'
    BY <1>2, <1>4
  <1>5. CASE Start
    <2>1. log' = << >>
      BY <1>5 DEF Start, MemoryIsSound
    <2>2. ToSet(log') = {}
      BY <2>1 DEF ToSet
    <2>3. QED
      BY <1>2, <2>2
  <1>6. CASE LoadRecord
    <2>1. pc' = "load"
      BY <1>6 DEF LoadRecord
    <2>2. ToSet(log') \subseteq Found(file'.recs)
      BY <2>1 DEF FileIsRead
    <2>3. QED
      BY <1>2, <2>2
  <1>7. CASE LoadEnds
    <2>1. log' = log /\ file' = file /\ ToSet(log) \subseteq Found(file.recs)
      BY <1>7 DEF LoadEnds, FileIsRead, disk
    <2>2. QED
      BY <1>4, <2>1
  <1>8. CASE Sample
    <2> DEFINE r == [t |-> now, row |-> schema]
    <2>1. ToSet(log') \subseteq ToSet(log) \union {r}
      BY <1>8, SampledRecord
    <2>2. kept' = kept /\ file' = file /\ pc # "down"
      BY <1>8 DEF Sample, disk
    <2>3. ~(r.t <= kept)
      BY DEF MemoryIsSound, TypeOK
    <2> HIDE DEF r
    <2>4. QED
      BY <1>1, <1>2, <2>1, <2>2, <2>3
  <1>9. CASE HoldBack \/ NotDue \/ RewriteBegins
    BY <1>3, <1>9 DEF HoldBack, NotDue, RewriteBegins, Due, disk
  <1>10. CASE AppendNothing
    <2>1. /\ pc = "flush" /\ ~journal.needsRewrite /\ journal.pending = << >>
          /\ log' = log /\ file' = file
      BY <1>10 DEF AppendNothing, Due, RewriteDue, Flushed, disk
    <2>2. ToSet(log) \subseteq ToSet(file.recs)
      BY <2>1, MemoryIsAtHand DEF ToSet
    <2>3. Torn \notin ToSet(file.recs)
      BY <2>1 DEF TrustedIsWhole
    <2>4. QED
      BY <1>0, <1>4, <2>1, <2>2, <2>3, FoundIs
  <1>11. CASE AppendPending
    <2>1. pc = "flush" /\ ~journal.needsRewrite /\ log' = log
      BY <1>11 DEF AppendPending, Appending, Due, RewriteDue, Flushed
    <2>2. ToSet(log) \subseteq ToSet(file'.recs)
      BY <1>11, <2>1, MemoryIsAtHand, AppendedWhole
    <2>3. Torn \notin ToSet(file'.recs)
      <3>1. Torn \notin ToSet(journal.pending) /\ Torn \notin ToSet(file.recs)
        BY <2>1, RecordsAreStored DEF TrustedIsWhole, TypeOK, Journals
      <3>2. QED
        BY <1>11, <3>1, AppendedWhole
    <2>4. QED
      BY <1>0, <1>4, <2>1, <2>2, <2>3, FoundIs
  <1>12. CASE AppendFails
    <2>1. /\ pc # "down" /\ log' = log /\ kept' = kept
          /\ Found(file.recs) \subseteq Found(file'.recs)
      BY <1>12, AppendedPartly DEF AppendFails, Appending, Due, Flushed
    <2>2. QED
      BY <1>3, <2>1
  <1>13. CASE Rename
    <2>1. log' = log /\ file'.recs = log /\ Torn \notin ToSet(log)
      BY <1>0, <1>13, RecordsAreStored DEF Rename
    <2>2. QED
      BY <1>0, <1>4, <2>1, FoundIs
  <1>14. CASE Reopen
    <2>1. log' = log /\ file' = file /\ file.recs = log /\ Torn \notin ToSet(log)
      BY <1>0, <1>14, RecordsAreStored DEF Reopen, Flushed, disk, FileIsRead
    <2>2. QED
      BY <1>0, <1>4, <2>1, FoundIs
  <1>15. ASSUME Ended PROVE KillKeepsFlushed'
    BY <1>2, <1>15 DEF Ended
  <1>16. CASE RewriteFails
    <2>1. CASE booting
      BY <1>15, <1>16, <2>1 DEF RewriteFails
    <2>2. CASE ~booting
      BY <1>3, <1>16, <2>2 DEF RewriteFails, Flushed, disk
    <2>3. QED
      BY <2>1, <2>2
  <1>17. CASE Kill \/ KillWhileAppending \/ PowerCut
    BY <1>15, <1>17 DEF Kill, KillWhileAppending, PowerCut
  <1>18. CASE Writeback
    <2>1. file'.recs = file.recs
      BY <1>18 DEF Writeback, TypeOK, Files
    <2>2. QED
      BY <1>1, <1>2, <1>18, <2>1 DEF Writeback, memory
  <1>19. CASE DiskChanges \/ UNCHANGED vars
    BY <1>1, <1>2, <1>19 DEF DiskChanges, vars, memory, disk
  <1>20. QED
    BY <1>5, <1>6, <1>7, <1>8, <1>9, <1>10, <1>11, <1>12, <1>13, <1>14, <1>16, <1>17, <1>18, <1>19
    DEF Next, Boot, Turn

-----------------------------------------------------------------------------
(* The invariant, and what follows from it.                                *)

IInv ==
  /\ TypeOK /\ WaitingIsRecent
  /\ FilesAreSound /\ MemoryIsSound
  /\ FileIsRead /\ TrustedIsWhole
  /\ FileContinuesInMemory /\ KillKeepsFlushed

LEMMA InitHolds == Init => IInv
  <1> SUFFICES ASSUME Init PROVE IInv
    OBVIOUS
  <1>1. TypeOK
    BY InitTypes
  <1>2. pc = "down" /\ log = << >> /\ journal = ClosedJournal /\ kept = 0 /\ now = 1 /\ older = {}
    BY DEF Init
  <1>3. WaitingIsRecent
    BY <1>2 DEF WaitingIsRecent, ClosedJournal
  <1>4. file.recs = << >>
    BY DEF Init, Missing
  <1>5. ToSet(file.recs) = {} /\ ToSet(log) = {} /\ ToSet(journal.pending) = {}
    BY <1>2, <1>4 DEF ToSet, ClosedJournal
  <1>6. FilesAreSound
    BY <1>2, <1>4, <1>5 DEF FilesAreSound, FileIsSound
  <1>7. MemoryIsSound
    BY <1>2, <1>5 DEF MemoryIsSound
  <1>8. FileIsRead /\ TrustedIsWhole /\ FileContinuesInMemory /\ KillKeepsFlushed
    BY <1>2 DEF FileIsRead, TrustedIsWhole, FileContinuesInMemory, KillKeepsFlushed
  <1>9. QED
    BY <1>1, <1>3, <1>6, <1>7, <1>8 DEF IInv

LEMMA NextHolds == IInv /\ [Next]_vars => IInv'
  <1> SUFFICES ASSUME IInv, [Next]_vars PROVE IInv'
    OBVIOUS
  <1> USE DEF IInv
  <1>1. TypeOK'
    BY NextTypes
  <1>2. WaitingIsRecent'
    BY NextRecent
  <1>3. FilesAreSound'
    BY <1>1, NextFiles
  <1>4. MemoryIsSound'
    BY <1>1, NextMemory
  <1>5. FileIsRead'
    BY NextReads
  <1>6. TrustedIsWhole'
    BY NextTrusted
  <1>7. FileContinuesInMemory'
    BY NextContinues
  <1>8. KillKeepsFlushed'
    BY <1>1, <1>5, <1>6, NextKept
  <1>9. QED
    BY <1>1, <1>2, <1>3, <1>4, <1>5, <1>6, <1>7, <1>8

LEMMA Invariance == Spec => []IInv
  BY InitHolds, NextHolds, PTL DEF Spec

(* However writes fail and heal, and however late flushes come, no more    *)
(* than a flush interval's records wait in memory to be written.           *)
THEOREM WaitingNeverPilesUp == Spec => []WaitingIsBounded
  <1>1. IInv => WaitingIsBounded
    BY DEF IInv, WaitingIsRecent, WaitingIsBounded
  <1>2. QED
    BY <1>1, Invariance, PTL

(* Whatever writes failed, and were caught up with, before: a journal that *)
(* appends to its file continues exactly what is in memory.                *)
THEOREM FileFollowsMemory == Spec => []FileContinuesInMemory
  <1>1. IInv => FileContinuesInMemory
    BY DEF IInv
  <1>2. QED
    BY <1>1, Invariance, PTL

(* A kill between any two steps, in the middle of a load, an append or a   *)
(* rewrite too, leaves in the file what an earlier flush has written.      *)
THEOREM KillsKeepFlushed == Spec => []KillKeepsFlushed
  <1>1. IInv => KillKeepsFlushed
    BY DEF IInv
  <1>2. QED
    BY <1>1, Invariance, PTL

(* However the set of metrics changes from run to run, and whatever torn   *)
(* or foreign file is found, memory has records of this run's metrics only. *)
THEOREM NothingMisread == Spec => []NeverMisread
  <1>1. ASSUME IInv PROVE NeverMisread
    <2>1. \A r \in ToSet(log) : r.row = schema
      BY <1>1 DEF IInv, MemoryIsSound, Genuine
    <2>2. QED
      BY <2>1 DEF NeverMisread, ToSet
  <1>2. QED
    BY <1>1, Invariance, PTL

(* The file never holds more than twice the capacity and the records of    *)
(* one flush more, after any power cut too.                                *)
THEOREM FileStaysShort == Spec => []FileIsBounded
  <1>1. IInv => FileIsBounded
    BY DEF IInv, FilesAreSound, FileIsSound, FileIsBounded
  <1>2. QED
    BY <1>1, Invariance, PTL

-----------------------------------------------------------------------------
(* Journal implements SavedHistory.  Beside the invariant above it takes that*)
(* every file the name may stand for is in time order, and that a load has,*)
(* record by record, the newest of what it has read.                       *)

-----------------------------------------------------------------------------
(* The newest of a set of records.                                         *)

LEMMA RecordsOfSequence ==
  ASSUME NEW S, NEW s \in Seq(S)
  PROVE  /\ IsFiniteSet(ToSet(s)) /\ Cardinality(ToSet(s)) <= Len(s)
         /\ (\A i, j \in DOMAIN s : i # j => s[i] # s[j]) => Cardinality(ToSet(s)) = Len(s)
  <1>1. Len(s) \in Nat /\ DOMAIN s = 1 .. Len(s) /\ s \in [1 .. Len(s) -> ToSet(s)]
    BY DEF ToSet
  <1>2. IsFiniteSet(1 .. Len(s)) /\ Cardinality(1 .. Len(s)) = Len(s)
    BY <1>1, FS_Interval
  <1>3. s \in Surjection(1 .. Len(s), ToSet(s))
    BY <1>1 DEF Surjection, ToSet
  <1>4. /\ IsFiniteSet(ToSet(s)) /\ Cardinality(ToSet(s)) <= Cardinality(1 .. Len(s))
        /\ Cardinality(ToSet(s)) = Cardinality(1 .. Len(s)) <=> s \in Injection(1 .. Len(s), ToSet(s))
    BY <1>2, <1>3, FS_Surjection
  <1>5. ASSUME \A i, j \in DOMAIN s : i # j => s[i] # s[j]
        PROVE  s \in Injection(1 .. Len(s), ToSet(s))
    BY <1>1, <1>5 DEF Injection, IsInjective
  <1>6. QED
    BY <1>2, <1>4, <1>5

(* What is newer than r, which is to be among the n newest if it is less   *)
(* than n.                                                                 *)
Newer(P, r) == {q \in P : q.t > r.t}

LEMMA SameCardinality == \A S : Saved!Cardinality(S) = Cardinality(S)
  BY DEF Saved!Cardinality, Cardinality

LEMMA NewestOfIs ==
  ASSUME NEW P, NEW n, NEW r
  PROVE  r \in Saved!NewestOf(P, n) <=> r \in P /\ Cardinality(Newer(P, r)) < n
  BY SameCardinality DEF Saved!NewestOf, Newer

(* Taking the newest before a newer one is added changes nothing.          *)
LEMMA NewestTwice ==
  ASSUME NEW P, IsFiniteSet(P), P \subseteq Records, NEW r \in Records,
         \A q \in P : q.t < r.t, NEW n \in Nat \ {0}
  PROVE  Saved!NewestOf(P \union {r}, n) = Saved!NewestOf(Saved!NewestOf(P, n) \union {r}, n)
  <1> DEFINE N == Saved!NewestOf(P, n)
  <1>1. N \subseteq P
    BY NewestOfIs
  <1>2. r \notin P /\ r.t \in Nat /\ \A q \in P : q.t \in Nat
    BY DEF Records
  <1>3. Cardinality(Newer(P \union {r}, r)) = 0 /\ Cardinality(Newer(N \union {r}, r)) = 0
    <2>1. Newer(P \union {r}, r) = {} /\ Newer(N \union {r}, r) = {}
      BY <1>1, <1>2 DEF Newer
    <2>2. QED
      BY <2>1, FS_EmptySet
  <1>4. ASSUME NEW q \in P
        PROVE  Cardinality(Newer(P \union {r}, q)) = Cardinality(Newer(P, q)) + 1
    <2>1. Newer(P \union {r}, q) = Newer(P, q) \union {r}
      BY <1>2 DEF Newer
    <2>2. IsFiniteSet(Newer(P, q)) /\ r \notin Newer(P, q)
      BY <1>2, FS_Subset DEF Newer
    <2>3. QED
      BY <2>1, <2>2, FS_AddElement
  <1>5. ASSUME NEW q \in N
        PROVE  Newer(N \union {r}, q) = Newer(P \union {r}, q)
    <2>1. q \in P /\ Cardinality(Newer(P, q)) < n
      BY NewestOfIs
    <2>2. ASSUME NEW x \in P, x.t > q.t PROVE x \in N
      <3>1. Newer(P, x) \subseteq Newer(P, q)
        BY <1>2, <2>1, <2>2 DEF Newer
      <3>2. IsFiniteSet(Newer(P, q))
        BY FS_Subset DEF Newer
      <3>3. Cardinality(Newer(P, x)) <= Cardinality(Newer(P, q))
            /\ Cardinality(Newer(P, x)) \in Nat /\ Cardinality(Newer(P, q)) \in Nat
        BY <3>1, <3>2, FS_Subset, FS_CardinalityType
      <3>4. QED
        BY <2>1, <3>3, NewestOfIs
    <2>3. QED
      BY <1>1, <2>2 DEF Newer
  <1>6. \A q \in P : Cardinality(Newer(P, q)) \in Nat
    BY FS_Subset, FS_CardinalityType DEF Newer
  <1>7. ASSUME NEW q \in P \ N
        PROVE  q \notin Saved!NewestOf(P \union {r}, n)
    <2>1. ~(Cardinality(Newer(P, q)) < n)
      BY NewestOfIs
    <2>2. Cardinality(Newer(P, q)) \in Nat
      BY <1>6
    <2>3. Cardinality(Newer(P \union {r}, q)) = Cardinality(Newer(P, q)) + 1
      BY <1>4
    <2>4. ~(Cardinality(Newer(P \union {r}, q)) < n)
      BY <2>1, <2>2, <2>3
    <2>5. QED
      BY <2>4, NewestOfIs
  <1> HIDE DEF N
  <1>8. \A q : q \in Saved!NewestOf(P \union {r}, n) <=> q \in Saved!NewestOf(N \union {r}, n)
    <2> TAKE q
    <2>1. CASE q = r
      <3>1. 0 < n /\ r \in P \union {r} /\ r \in N \union {r}
        OBVIOUS
      <3>2. Cardinality(Newer(P \union {r}, r)) < n /\ Cardinality(Newer(N \union {r}, r)) < n
        BY <1>3, <3>1
      <3>3. r \in Saved!NewestOf(P \union {r}, n) /\ r \in Saved!NewestOf(N \union {r}, n)
        BY <3>1, <3>2, NewestOfIs
      <3>4. QED
        BY <2>1, <3>3
    <2>2. CASE q \in N
      <3>1. q \in P \union {r} /\ q \in N \union {r}
        BY <1>1, <2>2
      <3>2. Newer(N \union {r}, q) = Newer(P \union {r}, q)
        BY <1>5, <2>2
      <3>3. QED
        BY <3>1, <3>2, NewestOfIs
    <2>3. CASE q \notin N /\ q # r
      <3>1. q \notin Saved!NewestOf(N \union {r}, n)
        BY <2>3, NewestOfIs
      <3>2. CASE q \in P
        BY <1>7, <2>3, <3>1, <3>2
      <3>3. CASE q \notin P
        <4>1. q \notin Saved!NewestOf(P \union {r}, n)
          BY <2>3, <3>3, NewestOfIs
        <4>2. QED
          BY <3>1, <4>1
      <3>4. QED
        BY <3>2, <3>3
    <2>4. QED
      BY <2>1, <2>2, <2>3
  <1>9. QED
    BY <1>8 DEF N

-----------------------------------------------------------------------------
(* Records in time order.                                                  *)

USE CapacityAssumption

InTimeOrder(s) ==
  \A i, j \in DOMAIN s : i < j /\ s[i] # Torn /\ s[j] # Torn => s[i].t < s[j].t

LEMMA OrderedRecords ==
  ASSUME NEW s \in Seq(Records)
  PROVE  InTimeOrder(s) <=> \A i, j \in DOMAIN s : i < j => s[i].t < s[j].t
  <1>1. \A i \in DOMAIN s : s[i] \in Records /\ s[i] # Torn
    BY TornIsNoRecord
  <1>2. QED
    BY <1>1 DEF InTimeOrder

LEMMA OrderedDiffer ==
  ASSUME NEW s \in Seq(Records), InTimeOrder(s)
  PROVE  \A i, j \in DOMAIN s : i # j => s[i] # s[j]
  <1>1. \A i \in DOMAIN s : s[i] \in Records /\ i \in Nat
    OBVIOUS
  <1>2. \A r \in Records : r.t \in Nat
    BY DEF Records
  <1>3. \A i, j \in DOMAIN s : i < j => s[i].t < s[j].t
    BY OrderedRecords
  <1>4. QED
    BY <1>1, <1>2, <1>3

(* Adding a newer record to the log keeps the newest of all.               *)
LEMMA AddedIsNewest ==
  ASSUME NEW s \in Seq(Records), InTimeOrder(s), Len(s) <= Capacity,
         NEW r \in Records, \A q \in ToSet(s) : q.t < r.t
  PROVE  ToSet(Log!Added(s, r)) = Saved!NewestOf(ToSet(s) \union {r}, Capacity)
  <1> DEFINE T == ToSet(s) \union {r}
  <1>1. /\ IsFiniteSet(ToSet(s)) /\ Cardinality(ToSet(s)) = Len(s) /\ Len(s) \in Nat
        /\ r \notin ToSet(s)
    <2>1. r.t \in Nat
      BY DEF Records
    <2>2. QED
      BY <2>1, RecordsOfSequence, OrderedDiffer
  <1>2. IsFiniteSet(T) /\ Cardinality(T) = Len(s) + 1
    BY <1>1, FS_AddElement
  <1>3. T \subseteq Records /\ \A x \in T : x.t \in Nat
    BY RecordsAreStored DEF Records
  <1> HIDE DEF T
  <1>4. ASSUME NEW x \in T
        PROVE  IsFiniteSet(T \ {x}) /\ Cardinality(T \ {x}) = Len(s) /\ Newer(T, x) \subseteq T \ {x}
    <2>1. IsFiniteSet(T \ {x}) /\ Cardinality(T \ {x}) = Cardinality(T) - 1
      BY <1>2, FS_RemoveElement
    <2>2. QED
      BY <1>1, <1>2, <1>3, <2>1 DEF Newer
  <1>5. CASE Len(s) < Capacity
    <2>1. ToSet(Log!Added(s, r)) = T
      <3>1. Log!Added(s, r) = Append(s, r)
        BY <1>5 DEF Log!Added
      <3>2. Len(Append(s, r)) = Len(s) + 1 /\ DOMAIN Append(s, r) = 1 .. Len(s) + 1
            /\ \A i \in 1 .. Len(s) + 1 : Append(s, r)[i] = IF i <= Len(s) THEN s[i] ELSE r
        OBVIOUS
      <3>3. QED
        BY <1>1, <3>1, <3>2 DEF ToSet, T
    <2>2. ASSUME NEW x \in T PROVE x \in Saved!NewestOf(T, Capacity)
      <3>1. Cardinality(Newer(T, x)) <= Len(s) /\ Cardinality(Newer(T, x)) \in Nat
        <4>1. IsFiniteSet(T \ {x}) /\ Newer(T, x) \subseteq T \ {x} /\ Cardinality(T \ {x}) = Len(s)
          BY <1>4
        <4>2. QED
          BY <4>1, FS_Subset, FS_CardinalityType
      <3>2. Cardinality(Newer(T, x)) < Capacity
        BY <1>1, <1>5, <3>1
      <3>3. QED
        BY <3>2, NewestOfIs
    <2>3. Saved!NewestOf(T, Capacity) \subseteq T
      BY NewestOfIs
    <2>4. QED
      BY <2>1, <2>2, <2>3 DEF T
  <1>6. CASE ~(Len(s) < Capacity)
    <2> DEFINE q == s[1]
    <2>1. Len(s) = Capacity /\ s # << >> /\ 1 \in DOMAIN s
      BY <1>6
    <2>2. q \in ToSet(s) /\ q \in T /\ q # r
      BY <1>1, <2>1 DEF ToSet, T
    <2>3. \A i \in DOMAIN s : i # 1 => q # s[i] /\ q.t < s[i].t
      <3>1. \A i \in DOMAIN s : i # 1 => 1 < i
        OBVIOUS
      <3>2. QED
        BY <2>1, <3>1, OrderedDiffer, OrderedRecords
    <2>4. \A x \in T \ {q} : q.t < x.t
      <3>1. \A x \in ToSet(s) : \E i \in DOMAIN s : x = s[i]
        BY DEF ToSet
      <3>2. q.t < r.t
        BY <2>2
      <3>3. QED
        BY <2>3, <3>1, <3>2 DEF T
    <2>5. ToSet(Log!Added(s, r)) = T \ {q}
      <3>1. Log!Added(s, r) = Append(Tail(s), r)
        BY <1>6 DEF Log!Added
      <3>2. /\ Tail(s) \in Seq(Records) /\ Len(Tail(s)) = Len(s) - 1
            /\ \A i \in 1 .. Len(s) - 1 : Tail(s)[i] = s[i + 1] /\ i + 1 \in DOMAIN s /\ i + 1 # 1
        BY <1>1, <2>1
      <3>3. /\ Len(Append(Tail(s), r)) = Len(s) /\ DOMAIN Append(Tail(s), r) = 1 .. Len(s)
            /\ \A i \in 1 .. Len(s) : Append(Tail(s), r)[i] = IF i <= Len(s) - 1 THEN s[i + 1] ELSE r
        BY <2>1, <3>2
      <3> DEFINE u == Append(Tail(s), r)
      <3>4. ASSUME NEW i \in 1 .. Len(s) PROVE u[i] \in T \ {q}
        <4>1. CASE i <= Len(s) - 1
          <5>1. u[i] = s[i + 1] /\ i + 1 \in DOMAIN s /\ i + 1 # 1
            BY <3>3, <4>1
          <5>2. QED
            BY <2>3, <5>1 DEF ToSet, T
        <4>2. CASE ~(i <= Len(s) - 1)
          BY <2>2, <3>3, <4>2 DEF T
        <4>3. QED
          BY <4>1, <4>2
      <3>5. ASSUME NEW x \in T \ {q} PROVE \E i \in 1 .. Len(s) : u[i] = x
        <4>1. CASE x = r
          BY <2>1, <3>3, <4>1
        <4>2. CASE x # r
          <5>1. PICK i \in DOMAIN s : x = s[i]
            BY <4>2 DEF ToSet, T
          <5>2. i - 1 \in 1 .. Len(s) /\ i - 1 <= Len(s) - 1 /\ (i - 1) + 1 = i
            BY <5>1
          <5>3. u[i - 1] = s[i]
            BY <3>3, <5>2
          <5>4. QED
            BY <5>1, <5>2, <5>3
        <4>3. QED
          BY <4>1, <4>2
      <3>6. ToSet(u) = {u[i] : i \in 1 .. Len(s)}
        BY <3>3 DEF ToSet
      <3> HIDE DEF u, q
      <3>7. ToSet(u) = T \ {q}
        BY <3>4, <3>5, <3>6
      <3>8. QED
        BY <3>1, <3>7 DEF u
    <2> HIDE DEF q
    <2>6. q \notin Saved!NewestOf(T, Capacity)
      <3>1. Newer(T, q) = T \ {q}
        BY <1>4, <2>2, <2>4 DEF Newer
      <3>2. Cardinality(Newer(T, q)) = Capacity
        BY <1>4, <2>1, <2>2, <3>1
      <3>3. QED
        BY <3>2, NewestOfIs
    <2>7. ASSUME NEW x \in T \ {q} PROVE x \in Saved!NewestOf(T, Capacity)
      <3>1. x \in T \ {q} /\ IsFiniteSet(T \ {q}) /\ Cardinality(T \ {q}) = Capacity
        BY <1>4, <2>1, <2>2
      <3>2. IsFiniteSet((T \ {q}) \ {x}) /\ Cardinality((T \ {q}) \ {x}) = Capacity - 1
        BY <3>1, FS_RemoveElement
      <3>3. Newer(T, x) \subseteq (T \ {q}) \ {x}
        BY <1>3, <2>2, <2>4 DEF Newer
      <3>4. Cardinality(Newer(T, x)) <= Capacity - 1 /\ Cardinality(Newer(T, x)) \in Nat
        BY <3>2, <3>3, FS_Subset, FS_CardinalityType
      <3>5. Cardinality(Newer(T, x)) < Capacity
        BY <3>4
      <3>6. QED
        BY <3>5, NewestOfIs
    <2>8. Saved!NewestOf(T, Capacity) \subseteq T
      BY NewestOfIs
    <2>9. QED
      BY <2>5, <2>6, <2>7, <2>8 DEF T
  <1>7. QED
    BY <1>5, <1>6

LEMMA ConcatAt ==
  ASSUME NEW s \in Seq(Stored), NEW u \in Seq(Stored)
  PROVE  /\ DOMAIN (s \o u) = 1 .. Len(s) + Len(u)
         /\ \A i \in 1 .. Len(s) + Len(u) : (s \o u)[i] = IF i <= Len(s) THEN s[i] ELSE u[i - Len(s)]
  OBVIOUS

LEMMA PrefixAt ==
  ASSUME NEW s \in Seq(Stored), NEW n \in 0 .. Len(s)
  PROVE  /\ SubSeq(s, 1, n) \in Seq(Stored) /\ DOMAIN SubSeq(s, 1, n) = 1 .. n
         /\ \A i \in 1 .. n : SubSeq(s, 1, n)[i] = s[i] /\ i \in DOMAIN s
  OBVIOUS

LEMMA ConcatTwice ==
  ASSUME NEW s \in Seq(Stored), NEW u \in Seq(Stored), NEW v \in Seq(Stored)
  PROVE  (s \o u) \o v = s \o (u \o v)
  OBVIOUS

LEMMA PrefixThrough ==
  ASSUME NEW s \in Seq(Stored), NEW u \in Seq(Stored), NEW k \in 0 .. Len(u)
  PROVE  /\ s \o u \in Seq(Stored) /\ Len(s) + k \in 0 .. Len(s \o u)
         /\ s \o SubSeq(u, 1, k) = SubSeq(s \o u, 1, Len(s) + k)
  <1> DEFINE n == Len(s)
             m == n + k
             q == SubSeq(u, 1, k)
             all == s \o u
             first == SubSeq(all, 1, m)
             both == s \o q
  <1>1. n \in Nat /\ Len(u) \in Nat /\ k \in Nat /\ k <= Len(u) /\ Len(s) = n
    OBVIOUS
  <1>2. q \in Seq(Stored) /\ Len(q) = k /\ \A i \in 1 .. k : q[i] = u[i]
    BY PrefixAt, <1>1
  <1>3. /\ all \in Seq(Stored) /\ Len(all) = n + Len(u)
        /\ \A i \in 1 .. n + Len(u) : all[i] = IF i <= n THEN s[i] ELSE u[i - n]
    BY ConcatProperties
  <1> HIDE DEF q, all, n
  <1>4. m \in Nat /\ m \in 0 .. Len(all) /\ \A i \in 1 .. m : i \in 1 .. n + Len(u)
    BY <1>1, <1>3
  <1>5. \A i \in 1 .. m : i <= n \/ i - n \in 1 .. k
    BY <1>1
  <1> HIDE DEF m
  <1>6. first \in Seq(Stored) /\ Len(first) = m /\ \A i \in 1 .. m : first[i] = all[i]
    BY <1>3, <1>4, PrefixAt
  <1>7. /\ both \in Seq(Stored) /\ Len(both) = m
        /\ \A i \in 1 .. m : both[i] = IF i <= n THEN s[i] ELSE q[i - n]
    <2>1. /\ both \in Seq(Stored) /\ Len(both) = Len(s) + Len(q)
          /\ \A i \in 1 .. Len(s) + Len(q) : both[i] = IF i <= Len(s) THEN s[i] ELSE q[i - Len(s)]
      BY <1>2, ConcatProperties
    <2>2. Len(s) + Len(q) = m
      BY <1>1, <1>2 DEF m
    <2> HIDE DEF both
    <2>3. QED
      BY <1>1, <2>1, <2>2
  <1> HIDE DEF first, both
  <1>8. \A i \in 1 .. m : both[i] = first[i]
    BY <1>2, <1>3, <1>4, <1>5, <1>6, <1>7
  <1>9. both = first
    BY <1>6, <1>7, <1>8, SeqEqual
  <1>10. QED
    BY <1>3, <1>4, <1>9 DEF q, all, n, m, first, both

LEMMA PrefixInOrder ==
  ASSUME NEW s \in Seq(Stored), NEW n \in 0 .. Len(s), InTimeOrder(s)
  PROVE  InTimeOrder(SubSeq(s, 1, n))
  <1> DEFINE q == SubSeq(s, 1, n)
  <1>1. DOMAIN q = 1 .. n /\ \A i \in 1 .. n : q[i] = s[i] /\ i \in DOMAIN s
    BY PrefixAt
  <1> HIDE DEF q
  <1>2. InTimeOrder(q)
    BY <1>1 DEF InTimeOrder
  <1>3. QED
    BY <1>2 DEF q

LEMMA FirstInOrder ==
  ASSUME NEW s \in Seq(Stored), NEW u \in Seq(Stored), InTimeOrder(s \o u)
  PROVE  InTimeOrder(s)
  <1>1. \A i \in DOMAIN s : i \in DOMAIN (s \o u) /\ (s \o u)[i] = s[i]
    OBVIOUS
  <1>2. QED
    BY <1>1 DEF InTimeOrder

LEMMA RestInOrder ==
  ASSUME NEW s \in Seq(Stored), NEW rest \in Rests, InTimeOrder(s)
  PROVE  InTimeOrder(s \o rest)
  <1>1. rest \in Seq(Stored) /\ Len(rest) \in 0 .. 1 /\ \A i \in DOMAIN rest : rest[i] = Torn
    BY RestHas DEF ToSet
  <1> DEFINE x == s \o rest
  <1>2. \A i \in DOMAIN x : x[i] # Torn => i \in DOMAIN s /\ x[i] = s[i]
    <2> SUFFICES ASSUME NEW i \in DOMAIN x, x[i] # Torn PROVE i \in DOMAIN s /\ x[i] = s[i]
      OBVIOUS
    <2>1. i \in 1 .. Len(s) + Len(rest) /\ x[i] = IF i <= Len(s) THEN s[i] ELSE rest[i - Len(s)]
      BY <1>1, ConcatAt
    <2>2. ~(i <= Len(s)) => i - Len(s) \in DOMAIN rest
      BY <1>1, <2>1
    <2>3. i <= Len(s)
      BY <1>1, <2>1, <2>2
    <2>4. QED
      BY <2>1, <2>3
  <1> HIDE DEF x
  <1>3. InTimeOrder(x)
    BY <1>2 DEF InTimeOrder
  <1>4. QED
    BY <1>3 DEF x

LEMMA AppendInOrder ==
  ASSUME NEW s \in Seq(Stored), NEW r \in Stored, InTimeOrder(s),
         \A q \in ToSet(s) \ {Torn} : q.t < r.t
  PROVE  InTimeOrder(Append(s, r))
  <1> DEFINE x == Append(s, r)
  <1>1. DOMAIN x = 1 .. Len(s) + 1 /\ \A i \in 1 .. Len(s) + 1 : x[i] = IF i <= Len(s) THEN s[i] ELSE r
    OBVIOUS
  <1>2. \A i \in DOMAIN s : s[i] \in ToSet(s)
    BY DEF ToSet
  <1> HIDE DEF x
  <1>3. ASSUME NEW i \in DOMAIN x, NEW j \in DOMAIN x, i < j, x[i] # Torn, x[j] # Torn
        PROVE  x[i].t < x[j].t
    <2>1. i \in DOMAIN s /\ x[i] = s[i]
      BY <1>1, <1>3
    <2>2. CASE j <= Len(s)
      BY <1>1, <1>3, <2>1, <2>2 DEF InTimeOrder
    <2>3. CASE ~(j <= Len(s))
      <3>1. x[j] = r
        BY <1>1, <2>3
      <3>2. QED
        BY <1>2, <1>3, <2>1, <3>1
    <2>4. QED
      BY <2>2, <2>3
  <1>4. InTimeOrder(x)
    BY <1>3 DEF InTimeOrder
  <1>5. QED
    BY <1>4 DEF x

LEMMA AddedInOrder ==
  ASSUME NEW s \in Seq(Records), InTimeOrder(s), Len(s) <= Capacity,
         NEW r \in Records, \A q \in ToSet(s) : q.t < r.t
  PROVE  InTimeOrder(Log!Added(s, r))
  <1>0. s \in Seq(Stored) /\ r \in Stored
    BY RecordsAreStored DEF Stored
  <1>1. CASE Len(s) < Capacity
    BY <1>0, <1>1, AppendInOrder DEF Log!Added
  <1>2. CASE ~(Len(s) < Capacity)
    <2>1. s # << >> /\ Log!Added(s, r) = Append(Tail(s), r)
      BY <1>2 DEF Log!Added
    <2>2. Tail(s) \in Seq(Stored) /\ DOMAIN Tail(s) = 1 .. Len(s) - 1
          /\ \A i \in 1 .. Len(s) - 1 : Tail(s)[i] = s[i + 1] /\ i + 1 \in DOMAIN s
      BY <1>0, <2>1
    <2>3. InTimeOrder(Tail(s))
      <3>1. ASSUME NEW i \in DOMAIN Tail(s), NEW j \in DOMAIN Tail(s), i < j
            PROVE  i + 1 \in DOMAIN s /\ j + 1 \in DOMAIN s /\ i + 1 < j + 1
                   /\ Tail(s)[i] = s[i + 1] /\ Tail(s)[j] = s[j + 1]
        BY <2>2, <3>1
      <3>2. QED
        BY <3>1 DEF InTimeOrder
    <2>4. ToSet(Tail(s)) \subseteq ToSet(s)
      BY <2>2 DEF ToSet
    <2>5. QED
      BY <1>0, <2>1, <2>2, <2>3, <2>4, AppendInOrder
  <1>3. QED
    BY <1>1, <1>2

-----------------------------------------------------------------------------
(* What is found of a file, and of what of it is on the disk.              *)

LEMMA FoundAt ==
  ASSUME NEW s \in Seq(Stored), NEW x
  PROVE  x \in Found(s) <=> \E i \in 1 .. Len(s) : x = s[i] /\ \A m \in 1 .. i : s[m] # Torn
  BY DEF Found

LEMMA FoundInPrefix ==
  ASSUME NEW s \in Seq(Stored), NEW n \in 0 .. Len(s), NEW x
  PROVE  x \in Found(SubSeq(s, 1, n)) <=> \E i \in 1 .. n : x = s[i] /\ \A m \in 1 .. i : s[m] # Torn
  <1> DEFINE u == SubSeq(s, 1, n)
  <1>1. u \in Seq(Stored) /\ DOMAIN u = 1 .. n /\ Len(u) = n /\ \A i \in 1 .. n : u[i] = s[i]
    OBVIOUS
  <1>2. \A i \in 1 .. n : \A m \in 1 .. i : u[m] = s[m]
    BY <1>1
  <1> HIDE DEF u
  <1>3. x \in Found(u) <=> \E i \in 1 .. n : x = u[i] /\ \A m \in 1 .. i : u[m] # Torn
    BY <1>1, FoundAt
  <1>4. QED
    BY <1>1, <1>2, <1>3 DEF u

LEMMA PrefixesGrow ==
  ASSUME NEW s \in Seq(Stored), NEW n \in 0 .. Len(s), NEW m \in n .. Len(s)
  PROVE  /\ Found(SubSeq(s, 1, n)) \subseteq Found(SubSeq(s, 1, m))
         /\ Found(SubSeq(s, 1, n)) \subseteq Found(s)
         /\ Found(SubSeq(s, 1, Len(s))) = Found(s)
  <1>1. m \in 0 .. Len(s) /\ Len(s) \in 0 .. Len(s) /\ 1 .. n \subseteq 1 .. m /\ 1 .. n \subseteq 1 .. Len(s)
    OBVIOUS
  <1>2. ASSUME NEW x \in Found(SubSeq(s, 1, n))
        PROVE  x \in Found(SubSeq(s, 1, m)) /\ x \in Found(s)
    <2>1. \E i \in 1 .. n : x = s[i] /\ \A k \in 1 .. i : s[k] # Torn
      BY FoundInPrefix
    <2>2. \E i \in 1 .. m : x = s[i] /\ \A k \in 1 .. i : s[k] # Torn
      BY <1>1, <2>1
    <2>3. \E i \in 1 .. Len(s) : x = s[i] /\ \A k \in 1 .. i : s[k] # Torn
      BY <1>1, <2>1
    <2>4. QED
      BY <1>1, <2>2, <2>3, FoundInPrefix, FoundAt
  <1>3. SubSeq(s, 1, Len(s)) = s
    OBVIOUS
  <1>4. QED
    BY <1>2, <1>3

(* What is appended to a file changes nothing of what is on the disk.      *)
LEMMA PrefixOfConcat ==
  ASSUME NEW s \in Seq(Stored), NEW u \in Seq(Stored), NEW n \in 0 .. Len(s)
  PROVE  SubSeq(s \o u, 1, n) = SubSeq(s, 1, n)
  OBVIOUS

(* The records on the disk whatever happens, of `f` and the others of `F`. *)
OnDisk(f, F) ==
  {r \in ToSet(f.recs) \ {Torn} : \A g \in F : r \in Found(SubSeq(g.recs, 1, g.synced))}

LEMMA OnDiskIs ==
  ASSUME NEW F, NEW f \in F, f.recs \in Seq(Stored), f.synced \in 0 .. Len(f.recs), NEW x
  PROVE  x \in OnDisk(f, F) <=> \A g \in F : x \in Found(SubSeq(g.recs, 1, g.synced))
  <1>1. Found(SubSeq(f.recs, 1, f.synced)) \subseteq Found(f.recs)
    <2>1. f.synced \in f.synced .. Len(f.recs)
      OBVIOUS
    <2>2. QED
      BY <2>1, PrefixesGrow
  <1>2. Found(f.recs) \subseteq ToSet(f.recs) \ {Torn}
    BY FoundIs
  <1>3. QED
    BY <1>1, <1>2 DEF OnDisk

LEMMA SafeIs == Safe = OnDisk(file, older \union {file})
  BY DEF Safe, OnDisk

-----------------------------------------------------------------------------
(* What the refinement needs beside IInv.                                  *)

(* Every file that the name may stand for is in time order, up to torn     *)
(* records, and no more of it is on the disk than there is.                *)
FileInOrder(f) == InTimeOrder(f.recs) /\ f.synced <= Len(f.recs)

FilesInOrder == \A f \in older \union {file} : FileInOrder(f)

MemoryInOrder ==
  /\ InTimeOrder(log)
  /\ pc \in {"sample", "flush"} /\ ~journal.needsRewrite =>
       InTimeOrder(file.recs \o journal.pending)
  /\ pc = "down" => schema = NoFile

(* The records that a load has read so far, but for those too old.         *)
ReadSince(recs, n, oldest) == {r \in {recs[m] : m \in 1 .. n} : r.t >= oldest}

(* A load has the newest of what it has read.                              *)
LoadIsNewest ==
  pc = "load" =>
    /\ loading.oldest \in Oldest /\ loading.read <= Len(file.recs)
    /\ loading.read > 0 => Fits(file)
    /\ ToSet(log) = Saved!NewestOf(ReadSince(file.recs, loading.read, loading.oldest), Capacity)

HInv == IInv /\ FilesInOrder /\ MemoryInOrder /\ LoadIsNewest

LEMMA FileTypes ==
  ASSUME NEW f \in Files
  PROVE  f.recs \in Seq(Stored) /\ f.synced \in Nat /\ Len(f.recs) \in Nat
  BY DEF Files

(* What is left after a power cut is in order, all of it on the disk, and  *)
(* has what was on the disk before.                                        *)
LEMMA RemainsInOrder ==
  ASSUME NEW f \in Files, FileInOrder(f), Remains(f)
  PROVE  /\ InTimeOrder(file'.recs) /\ file'.synced = Len(file'.recs)
         /\ Found(SubSeq(f.recs, 1, f.synced)) \subseteq Found(file'.recs)
  <1>1. f.recs \in Seq(Stored) /\ f.synced \in 0 .. Len(f.recs) /\ InTimeOrder(f.recs)
    BY FileTypes DEF FileInOrder
  <1>2. CASE file' = [f EXCEPT !.synced = Len(f.recs)]
    <2>1. file'.recs = f.recs /\ file'.synced = Len(f.recs)
      BY <1>2 DEF Files
    <2>2. f.synced \in f.synced .. Len(f.recs)
      BY <1>1
    <2>3. Found(SubSeq(f.recs, 1, f.synced)) \subseteq Found(f.recs)
      BY <1>1, <2>2, PrefixesGrow
    <2>4. QED
      BY <1>1, <2>1, <2>3
  <1>3. CASE \E n \in f.synced .. Len(f.recs) - 1, rest \in Rests :
               file' = [head |-> f.head, recs |-> SubSeq(f.recs, 1, n) \o rest, synced |-> n + Len(rest)]
    <2>1. PICK n \in f.synced .. Len(f.recs) - 1, rest \in Rests :
            file' = [head |-> f.head, recs |-> SubSeq(f.recs, 1, n) \o rest, synced |-> n + Len(rest)]
      BY <1>3
    <2> DEFINE q == SubSeq(f.recs, 1, n)
    <2>2. file'.recs = q \o rest /\ file'.synced = n + Len(rest)
      BY <2>1
    <2>3. n \in 0 .. Len(f.recs) /\ n \in f.synced .. Len(f.recs)
      BY <1>1
    <2>4. q \in Seq(Stored) /\ Len(q) = n /\ InTimeOrder(q)
      BY <1>1, <2>3, PrefixHas, PrefixInOrder
    <2>5. Found(SubSeq(f.recs, 1, f.synced)) \subseteq Found(q)
      BY <1>1, <2>3, PrefixesGrow
    <2>6. rest \in Seq(Stored)
      BY RestHas
    <2> HIDE DEF q
    <2>7. InTimeOrder(q \o rest) /\ Len(q \o rest) = n + Len(rest) /\ Found(q) \subseteq Found(q \o rest)
      BY <2>4, <2>6, RestInOrder, ConcatHas, FoundGrows
    <2>8. QED
      BY <2>2, <2>5, <2>7
  <1>4. QED
    BY <1>2, <1>3 DEF Remains

(* What an append leaves, whole or in part.                                *)
LEMMA AppendedInOrder ==
  ASSUME TypeOK, FileInOrder(file), InTimeOrder(file.recs \o journal.pending),
         PartlyAppended \/ AppendPending
  PROVE  /\ FileInOrder(file') /\ file'.synced = file.synced /\ older' = older
         /\ SubSeq(file'.recs, 1, file.synced) = SubSeq(file.recs, 1, file.synced)
         /\ Found(file.recs) \subseteq Found(file'.recs)
  <1>1. /\ file \in Files /\ file.recs \in Seq(Stored) /\ journal.pending \in Seq(Stored)
        /\ file.synced \in 0 .. Len(file.recs)
    BY FileTypes, RecordsAreStored DEF TypeOK, Journals, FileInOrder
  <1>2. ASSUME NEW x \in Seq(Stored), file' = [file EXCEPT !.recs = file.recs \o x],
               InTimeOrder(file.recs \o x)
        PROVE  /\ FileInOrder(file') /\ file'.synced = file.synced
               /\ SubSeq(file'.recs, 1, file.synced) = SubSeq(file.recs, 1, file.synced)
               /\ Found(file.recs) \subseteq Found(file'.recs)
    <2>1. file'.recs = file.recs \o x /\ file'.synced = file.synced
      BY <1>1, <1>2 DEF Files
    <2>2. Len(file.recs \o x) = Len(file.recs) + Len(x) /\ Len(x) \in Nat
      BY <1>1
    <2>3. file'.synced <= Len(file'.recs)
      BY <1>1, <2>1, <2>2
    <2>4. QED
      BY <1>1, <1>2, <2>1, <2>3, PrefixOfConcat, FoundGrows DEF FileInOrder
  <1>3. CASE AppendPending
    BY <1>1, <1>2, <1>3 DEF AppendPending
  <1>4. CASE PartlyAppended
    <2>1. PICK k \in 0 .. Len(journal.pending) - 1, rest \in Rests :
            /\ file' = [file EXCEPT !.recs = @ \o SubSeq(journal.pending, 1, k) \o rest]
            /\ older' = older
      BY <1>4 DEF PartlyAppended
    <2> DEFINE q == SubSeq(journal.pending, 1, k)
               all == file.recs \o journal.pending
    <2>2. rest \in Seq(Stored) /\ k \in 0 .. Len(journal.pending)
      BY RestHas
    <2>3. q \in Seq(Stored) /\ q \o rest \in Seq(Stored)
      BY <1>1, <2>2, PrefixHas, ConcatHas
    <2>4. /\ all \in Seq(Stored) /\ Len(file.recs) + k \in 0 .. Len(all)
          /\ file.recs \o q = SubSeq(all, 1, Len(file.recs) + k)
      BY <1>1, <2>2, PrefixThrough
    <2> HIDE DEF all
    <2>5. InTimeOrder(file.recs \o q)
      BY <2>4, PrefixInOrder DEF all
    <2>6. file' = [file EXCEPT !.recs = (file.recs \o q) \o rest]
      BY <2>1
    <2> HIDE DEF q
    <2>7. file.recs \o q \in Seq(Stored)
      BY <1>1, <2>3, ConcatHas
    <2>8. InTimeOrder((file.recs \o q) \o rest)
      BY <2>5, <2>7, RestInOrder
    <2> DEFINE old == file.recs
    <2>9. (old \o q) \o rest = old \o (q \o rest)
      <3>1. old \in Seq(Stored) /\ q \in Seq(Stored) /\ rest \in Seq(Stored)
        BY <1>1, <2>2, <2>3
      <3> HIDE DEF old
      <3>2. QED
        BY <3>1, ConcatTwice
    <2> DEFINE x == q \o rest
    <2>10. x \in Seq(Stored) /\ file' = [file EXCEPT !.recs = file.recs \o x]
           /\ InTimeOrder(file.recs \o x)
      BY <2>3, <2>6, <2>8, <2>9
    <2> HIDE DEF x
    <2>11. older' = older
      BY <2>1
    <2>12. QED
      BY <1>2, <2>10, <2>11
  <1>5. older' = older
    BY DEF AppendPending, PartlyAppended
  <1>6. QED
    BY <1>2, <1>3, <1>4, <1>5

LEMMA NextFilesInOrder ==
  ASSUME TypeOK, TypeOK', FilesInOrder, MemoryInOrder, [Next]_vars
  PROVE  FilesInOrder'
  <1>1. FileInOrder(file) /\ \A f \in older : FileInOrder(f)
    BY DEF FilesInOrder
  <1>2. ASSUME FileInOrder(file'), \A f \in older' : f \in older \/ f = file
        PROVE  FilesInOrder'
    BY <1>1, <1>2 DEF FilesInOrder
  <1>3. CASE UNCHANGED disk
    BY <1>1, <1>2, <1>3 DEF disk
  <1>4. CASE AppendPending \/ AppendFails \/ KillWhileAppending
    <2>1. Appending /\ (PartlyAppended \/ AppendPending)
      BY <1>4 DEF AppendPending, AppendFails, KillWhileAppending
    <2>2. InTimeOrder(file.recs \o journal.pending)
      BY <2>1 DEF Appending, Due, RewriteDue, MemoryInOrder
    <2>3. FileInOrder(file') /\ older' = older
      BY <1>1, <2>1, <2>2, AppendedInOrder
    <2>4. QED
      BY <1>2, <2>3
  <1>5. CASE Rename
    <2>1. file'.recs = log /\ file'.synced = Len(log) /\ \A f \in older' : f \in older \/ f = file
      BY <1>5 DEF Rename
    <2>2. InTimeOrder(log) /\ Len(log) <= Len(log)
      BY DEF MemoryInOrder, TypeOK
    <2>3. QED
      BY <1>2, <2>1, <2>2 DEF FileInOrder
  <1>6. CASE Writeback
    <2>1. file'.recs = file.recs /\ file'.synced = Len(file.recs) /\ older' = {}
      BY <1>6 DEF Writeback, TypeOK, Files
    <2>2. Len(file.recs) <= Len(file.recs)
      BY FileTypes DEF TypeOK
    <2>3. QED
      BY <1>1, <1>2, <2>1, <2>2 DEF FileInOrder
  <1>7. CASE PowerCut
    <2>1. PICK f \in older \union {file} : Remains(f)
      BY <1>7 DEF PowerCut
    <2>2. InTimeOrder(file'.recs) /\ file'.synced = Len(file'.recs)
      BY <1>1, <2>1, RemainsInOrder DEF TypeOK
    <2>3. Len(file'.recs) <= Len(file'.recs) /\ older' = {}
      BY <1>7, FileTypes DEF PowerCut, TypeOK
    <2>4. QED
      BY <1>2, <2>2, <2>3 DEF FileInOrder
  <1>8. QED
    BY <1>3, <1>4, <1>5, <1>6, <1>7
    DEF Next, Boot, Turn, Start, LoadRecord, LoadEnds, Sample, HoldBack, NotDue, AppendNothing,
        RewriteBegins, Reopen, RewriteFails, Kill, DiskChanges, vars

(* The rule by which a load takes a record.                                *)
LEMMA NewerThanAll ==
  ASSUME NEW s \in Seq(Records), InTimeOrder(s), NEW r \in Records, Log!InOrder(s, r)
  PROVE  \A q \in ToSet(s) : q.t < r.t
  <1> SUFFICES ASSUME NEW i \in DOMAIN s PROVE s[i].t < r.t
    BY DEF ToSet
  <1>1. s # << >> /\ Len(s) \in DOMAIN s /\ (i < Len(s) \/ i = Len(s))
    OBVIOUS
  <1>2. s[Len(s)].t < r.t
    BY <1>1 DEF Log!InOrder
  <1>3. i < Len(s) => s[i].t < s[Len(s)].t
    BY <1>1, OrderedRecords
  <1>4. s[i] \in Records /\ s[Len(s)] \in Records
    BY <1>1
  <1>5. s[i].t \in Nat /\ s[Len(s)].t \in Nat /\ r.t \in Nat
    BY <1>4 DEF Records
  <1>6. QED
    BY <1>1, <1>2, <1>3, <1>5

(* A sample is newer than all of memory, of the file and of what waits.    *)
LEMMA SampleIsNewest ==
  ASSUME TypeOK, MemoryIsSound
  PROVE  \A q \in ToSet(log) : q.t < now
  BY DEF MemoryIsSound, Genuine

LEMMA LogStaysInOrder ==
  ASSUME TypeOK, MemoryIsSound, MemoryInOrder, [Next]_vars
  PROVE  InTimeOrder(log')
  <1>1. log \in Seq(Records) /\ Len(log) <= Capacity /\ InTimeOrder(log)
    BY DEF TypeOK, MemoryInOrder
  <1>2. CASE LoadRecord
    <2> DEFINE r == file.recs[loading.read + 1]
    <2>1. r \in Records
      BY <1>2, LoadedRecord
    <2>2. log' = IF r.t >= loading.oldest /\ Log!InOrder(log, r) THEN Log!Added(log, r) ELSE log
      BY <1>2 DEF LoadRecord
    <2> HIDE DEF r
    <2>3. CASE Log!InOrder(log, r)
      <3>1. \A q \in ToSet(log) : q.t < r.t
        BY <1>1, <2>1, <2>3, NewerThanAll
      <3>2. InTimeOrder(Log!Added(log, r))
        BY <1>1, <2>1, <3>1, AddedInOrder
      <3>3. QED
        BY <1>1, <2>2, <3>2
    <2>4. QED
      BY <1>1, <2>2, <2>3
  <1>3. CASE Sample
    <2> DEFINE r == [t |-> now, row |-> schema]
    <2>1. r \in Records /\ log' = Log!Added(log, r)
      BY <1>3, SampledRecord
    <2>2. r.t = now
      OBVIOUS
    <2> HIDE DEF r
    <2>3. QED
      BY <1>1, <2>1, <2>2, SampleIsNewest, AddedInOrder
  <1>4. CASE log' = << >>
    <2>1. InTimeOrder(<< >>)
      BY DEF InTimeOrder
    <2>2. QED
      BY <1>4, <2>1
  <1>5. CASE log' = log
    BY <1>1, <1>5
  <1>6. QED
    BY <1>2, <1>3, <1>4, <1>5
    DEF Next, Boot, Turn, Start, LoadEnds, HoldBack, NotDue,
      AppendNothing, AppendPending, AppendFails, RewriteBegins, Rename, Reopen, RewriteFails,
      Kill, KillWhileAppending, Writeback, PowerCut, DiskChanges, Flushed, Ended, vars, memory

LEMMA SampleStaysInOrder ==
  ASSUME TypeOK, FilesAreSound, MemoryIsSound, MemoryInOrder, Sample, ~journal'.needsRewrite
  PROVE  InTimeOrder(file'.recs \o journal'.pending)
  <1> DEFINE r == [t |-> now, row |-> schema]
  <1>1. /\ r \in Records /\ ~journal.needsRewrite
        /\ journal'.pending = Append(journal.pending, r)
    BY SampledRecord
  <1>2. r.t = now
    OBVIOUS
  <1> HIDE DEF r
  <1>3. pc = "sample" /\ file' = file
    BY DEF Sample, disk
  <1>4. InTimeOrder(file.recs \o journal.pending)
    BY <1>1, <1>3 DEF MemoryInOrder
  <1>5. file.recs \in Seq(Stored) /\ journal.pending \in Seq(Stored) /\ r \in Stored
    BY <1>1, RecordsAreStored DEF TypeOK, Files, Journals, Stored
  <1>6. \A q \in ToSet(file.recs) \union ToSet(journal.pending) : q # Torn => q.t < now
    BY DEF FilesAreSound, FileIsSound, MemoryIsSound, Genuine
  <1>7. /\ file.recs \o journal.pending \in Seq(Stored)
        /\ ToSet(file.recs \o journal.pending) = ToSet(file.recs) \union ToSet(journal.pending)
    BY <1>5, ConcatHas
  <1>8. InTimeOrder(Append(file.recs \o journal.pending, r))
    <2>1. \A q \in ToSet(file.recs \o journal.pending) \ {Torn} : q.t < r.t
      BY <1>2, <1>6, <1>7
    <2>2. QED
      BY <1>4, <1>5, <1>7, <2>1, AppendInOrder
  <1>9. file.recs \o Append(journal.pending, r) = Append(file.recs \o journal.pending, r)
    BY <1>5, ConcatAppend
  <1>10. file'.recs \o journal'.pending = Append(file.recs \o journal.pending, r)
    BY <1>1, <1>3, <1>9
  <1>11. QED
    BY <1>8, <1>10

LEMMA EmptyEnd == ASSUME NEW s \in Seq(Stored) PROVE s \o << >> = s
  OBVIOUS

LEMMA NextMemoryInOrder ==
  ASSUME IInv, FilesInOrder, FilesInOrder', MemoryInOrder, [Next]_vars
  PROVE  MemoryInOrder'
  <1>0. TypeOK /\ FilesAreSound /\ MemoryIsSound /\ FileIsRead /\ journal \in Journals
    BY DEF IInv, TypeOK
  <1>1. InTimeOrder(log')
    BY <1>0, LogStaysInOrder
  <1>2. ASSUME pc' \notin {"sample", "flush"} \/ journal'.needsRewrite,
               pc' = "down" => schema' = NoFile
        PROVE  MemoryInOrder'
    BY <1>1, <1>2 DEF MemoryInOrder
  <1>3. CASE Start \/ LoadRecord \/ LoadEnds \/ RewriteBegins \/ Rename \/ Kill
             \/ KillWhileAppending \/ PowerCut
    BY <1>2, <1>3 DEF Start, LoadRecord, LoadEnds, RewriteBegins, Rename, Kill,
      KillWhileAppending, PowerCut, Ended
  <1>4. CASE Sample
    BY <1>0, <1>1, <1>4, SampleStaysInOrder DEF Sample, MemoryInOrder
  <1>5. CASE HoldBack \/ NotDue
    BY <1>1, <1>5 DEF HoldBack, NotDue, disk, MemoryInOrder
  <1>6. CASE AppendNothing
    <2>1. journal' = journal /\ file' = file /\ pc = "flush" /\ pc' = "sample"
      BY <1>6 DEF AppendNothing, Due, Flushed, disk
    <2>2. QED
      BY <1>1, <2>1 DEF MemoryInOrder
  <1>7. CASE AppendPending
    <2>1. journal' = [journal EXCEPT !.inFile = @ + Len(journal.pending), !.pending = << >>]
          /\ pc' = "sample"
      BY <1>7 DEF AppendPending, Flushed
    <2>2. journal'.pending = << >>
      BY <1>0, <2>1 DEF Journals
    <2>3. file'.recs \in Seq(Stored) /\ InTimeOrder(file'.recs)
      BY <1>0, <1>7, AppendedWhole, FileTypes DEF FilesInOrder, FileInOrder
    <2>4. QED
      BY <1>1, <2>1, <2>2, <2>3, EmptyEnd DEF MemoryInOrder
  <1>8. ASSUME Flushed(FALSE, journal) PROVE MemoryInOrder'
    <2>1. journal' = [journal EXCEPT !.needsRewrite = TRUE, !.pending = << >>] /\ pc' = "sample"
      BY <1>8 DEF Flushed
    <2>2. journal'.needsRewrite
      BY <1>0, <2>1 DEF Journals
    <2>3. QED
      BY <1>2, <2>1, <2>2
  <1>9. CASE AppendFails
    BY <1>8, <1>9 DEF AppendFails
  <1>10. CASE RewriteFails
    <2>1. Flushed(FALSE, journal) \/ (pc' = "down" /\ schema' = NoFile)
      BY <1>10 DEF RewriteFails, Ended
    <2>2. QED
      BY <1>2, <1>8, <2>1
  <1>11. CASE Reopen
    <2>1. file'.recs = log /\ pc' = "sample"
      BY <1>0, <1>11 DEF Reopen, FileIsRead, Flushed, disk
    <2>2. journal' = [open |-> TRUE, pending |-> << >>, inFile |-> Len(log), needsRewrite |-> FALSE]
      BY <1>11 DEF Reopen, Flushed
    <2>3. journal'.pending = << >> /\ log \in Seq(Stored) /\ InTimeOrder(log)
      BY <1>0, <2>2, RecordsAreStored DEF TypeOK, MemoryInOrder
    <2>4. QED
      BY <1>1, <2>1, <2>3, EmptyEnd DEF MemoryInOrder
  <1>12. CASE Writeback
    <2>1. file'.recs = file.recs
      BY <1>0, <1>12 DEF Writeback, TypeOK, Files
    <2>2. QED
      BY <1>1, <1>12, <2>1 DEF Writeback, memory, MemoryInOrder
  <1>13. CASE DiskChanges \/ UNCHANGED vars
    BY <1>1, <1>13 DEF DiskChanges, vars, memory, disk, MemoryInOrder
  <1>14. QED
    BY <1>3, <1>4, <1>5, <1>6, <1>7, <1>9, <1>10, <1>11, <1>12, <1>13 DEF Next, Boot, Turn

LEMMA ReadIsFinite ==
  ASSUME NEW s \in Seq(Stored), NEW n \in 0 .. Len(s), NEW oldest
  PROVE  IsFiniteSet(ReadSince(s, n, oldest))
  <1> DEFINE u == SubSeq(s, 1, n)
  <1>0. u \in Seq(Stored) /\ DOMAIN u = 1 .. n /\ \A m \in 1 .. n : u[m] = s[m]
    BY PrefixAt
  <1> HIDE DEF u
  <1>1. ToSet(u) = {s[m] : m \in 1 .. n}
    BY <1>0 DEF ToSet
  <1>2. IsFiniteSet({s[m] : m \in 1 .. n})
    BY <1>0, <1>1, RecordsOfSequence
  <1>3. ReadSince(s, n, oldest) \subseteq {s[m] : m \in 1 .. n}
    BY DEF ReadSince
  <1>4. QED
    BY <1>2, <1>3, FS_Subset

LEMMA ReadOneMore ==
  ASSUME NEW s, NEW n \in Nat, NEW oldest
  PROVE  ReadSince(s, n + 1, oldest) =
           ReadSince(s, n, oldest) \union (IF s[n + 1].t >= oldest THEN {s[n + 1]} ELSE {})
  <1>1. 1 .. n + 1 = (1 .. n) \union {n + 1}
    OBVIOUS
  <1>2. QED
    BY <1>1 DEF ReadSince

LEMMA NewestOfNone ==
  ASSUME NEW n
  PROVE  Saved!NewestOf({}, n) = {}
  BY NewestOfIs

LEMMA LoadStaysNewest ==
  ASSUME TypeOK, FileIsRead, FilesInOrder, MemoryInOrder, LoadIsNewest, LoadRecord
  PROVE  ToSet(log') =
           Saved!NewestOf(ReadSince(file.recs, loading.read + 1, loading.oldest), Capacity)
  <1> DEFINE r == file.recs[loading.read + 1]
             P == ReadSince(file.recs, loading.read, loading.oldest)
             Q == ReadSince(file.recs, loading.read + 1, loading.oldest)
  <1>1. /\ r \in Records /\ r # Torn /\ loading.read + 1 \in DOMAIN file.recs
        /\ log' = IF r.t >= loading.oldest /\ Log!InOrder(log, r) THEN Log!Added(log, r) ELSE log
    BY LoadedRecord DEF LoadRecord
  <1>2. /\ pc = "load" /\ ToSet(log) = Saved!NewestOf(P, Capacity)
        /\ \A m \in 1 .. loading.read : file.recs[m] # Torn
    BY DEF LoadRecord, LoadIsNewest, FileIsRead
  <1>3. loading.read \in Nat /\ file.recs \in Seq(Stored) /\ InTimeOrder(file.recs)
    BY DEF TypeOK, Files, FilesInOrder, FileInOrder
  <1>4. log \in Seq(Records) /\ Len(log) <= Capacity /\ InTimeOrder(log)
    BY DEF TypeOK, MemoryInOrder
  <1>5. loading.read \in 0 .. Len(file.recs)
    BY <1>1, <1>3
  <1>6. IsFiniteSet(P)
    BY <1>3, <1>5, ReadIsFinite
  <1>7. \A m \in 1 .. loading.read : file.recs[m] \in Records /\ file.recs[m].t < r.t
    <2> SUFFICES ASSUME NEW m \in 1 .. loading.read
                 PROVE  file.recs[m] \in Records /\ file.recs[m].t < r.t
      OBVIOUS
    <2>1. m \in DOMAIN file.recs /\ m < loading.read + 1 /\ file.recs[m] # Torn
      BY <1>2, <1>3, <1>5
    <2>2. file.recs[m] \in Stored
      BY <1>3, <2>1
    <2>3. QED
      BY <1>1, <1>3, <2>1, <2>2 DEF Stored, InTimeOrder
  <1>8. \A q \in P : \E m \in 1 .. loading.read : q = file.recs[m]
    BY DEF ReadSince
  <1>9. Q = P \union (IF r.t >= loading.oldest THEN {r} ELSE {})
    BY <1>3, ReadOneMore
  <1> HIDE DEF r, P, Q
  <1>10. P \subseteq Records /\ \A q \in P : q.t < r.t
    BY <1>7, <1>8
  <1>11. ToSet(log) \subseteq P
    BY <1>2, NewestOfIs
  <1>12. Log!InOrder(log, r)
    <2>1. CASE log = << >>
      BY <2>1 DEF Log!InOrder
    <2>2. CASE log # << >>
      <3>1. Len(log) \in DOMAIN log
        BY <1>4, <2>2
      <3>2. log[Len(log)] \in ToSet(log)
        BY <1>4, <3>1, ToSetHas
      <3>3. QED
        BY <1>10, <1>11, <3>2 DEF Log!InOrder
    <2>3. QED
      BY <2>1, <2>2
  <1>13. CASE r.t >= loading.oldest
    <2>1. log' = Log!Added(log, r) /\ Q = P \union {r}
      BY <1>1, <1>9, <1>12, <1>13
    <2>2. \A q \in ToSet(log) : q.t < r.t
      BY <1>10, <1>11
    <2>3. ToSet(Log!Added(log, r)) = Saved!NewestOf(ToSet(log) \union {r}, Capacity)
      BY <1>1, <1>4, <2>2, AddedIsNewest
    <2>4. Saved!NewestOf(P \union {r}, Capacity) =
            Saved!NewestOf(Saved!NewestOf(P, Capacity) \union {r}, Capacity)
      BY <1>1, <1>6, <1>10, NewestTwice
    <2>5. QED
      BY <1>2, <2>1, <2>3, <2>4 DEF Q
  <1>14. CASE ~(r.t >= loading.oldest)
    BY <1>1, <1>2, <1>9, <1>14 DEF Q
  <1>15. QED
    BY <1>13, <1>14

LEMMA NextLoad ==
  ASSUME IInv, FilesInOrder, MemoryInOrder, LoadIsNewest, [Next]_vars
  PROVE  LoadIsNewest'
  <1>0. TypeOK /\ MemoryIsSound /\ FileIsRead
    BY DEF IInv
  <1>1. CASE Start
    <2>1. log' = << >> /\ file' = file /\ now' = now
      BY <1>0, <1>1 DEF Start, MemoryIsSound, disk
    <2>2. PICK oldest \in Oldest : loading' = [read |-> 0, oldest |-> oldest]
      BY <1>1 DEF Start
    <2>3. loading'.read = 0 /\ loading'.oldest = oldest /\ Oldest' = Oldest
      BY <2>1, <2>2 DEF Oldest
    <2>4. ToSet(log') = {} /\ ReadSince(file'.recs, 0, oldest) = {}
      BY <2>1 DEF ToSet, ReadSince
    <2>5. Len(file'.recs) \in Nat
      BY <1>0, <2>1, FileTypes DEF TypeOK
    <2>6. ToSet(log') = Saved!NewestOf(ReadSince(file'.recs, 0, oldest), Capacity)
      BY <2>4, NewestOfNone
    <2>7. QED
      BY <2>3, <2>5, <2>6 DEF LoadIsNewest
  <1>2. CASE LoadRecord
    <2>1. /\ loading' = [loading EXCEPT !.read = @ + 1] /\ loading \in [read : Nat, oldest : Nat]
          /\ file' = file /\ now' = now /\ schema' = schema /\ pc = "load" /\ Fits(file)
      BY <1>0, <1>2 DEF LoadRecord, More, TypeOK, disk
    <2>2. loading'.read = loading.read + 1 /\ loading'.oldest = loading.oldest
      BY <2>1
    <2>3. loading.read + 1 \in DOMAIN file.recs
      BY <1>0, <1>2, LoadedRecord
    <2>4. loading'.read <= Len(file'.recs)
      BY <1>0, <2>1, <2>2, <2>3, FileTypes DEF TypeOK
    <2>5. loading'.oldest \in Oldest' /\ Fits(file)'
      BY <2>1, <2>2 DEF LoadIsNewest, Oldest, Fits
    <2>6. ToSet(log') = Saved!NewestOf(ReadSince(file'.recs, loading'.read, loading'.oldest), Capacity)
      BY <1>0, <1>2, <2>1, <2>2, LoadStaysNewest
    <2>7. QED
      BY <2>4, <2>5, <2>6 DEF LoadIsNewest
  <1>3. CASE Writeback
    <2>1. file'.recs = file.recs /\ file'.head = file.head
      BY <1>0, <1>3 DEF Writeback, TypeOK, Files
    <2>2. QED
      BY <1>3, <2>1 DEF Writeback, memory, LoadIsNewest, Oldest, Fits
  <1>4. CASE DiskChanges \/ UNCHANGED vars
    BY <1>4 DEF DiskChanges, vars, memory, disk, LoadIsNewest, Oldest, Fits
  <1>5. CASE pc' # "load"
    BY <1>5 DEF LoadIsNewest
  <1>6. QED
    BY <1>1, <1>2, <1>3, <1>4, <1>5
    DEF Next, Boot, Turn, LoadEnds, Sample, HoldBack, NotDue,
      AppendNothing, AppendPending, AppendFails, RewriteBegins, Rename, Reopen, RewriteFails,
      Kill, KillWhileAppending, PowerCut, Flushed, Ended

LEMMA HoldsAtFirst == Init => HInv
  <1> SUFFICES ASSUME Init PROVE HInv
    OBVIOUS
  <1>1. pc = "down" /\ log = << >> /\ schema = NoFile /\ older = {}
    BY DEF Init
  <1>2. file.recs = << >> /\ file.synced = 0
    BY DEF Init, Missing
  <1>3. InTimeOrder(<< >>) /\ Len(<< >>) = 0
    BY DEF InTimeOrder
  <1>4. FilesInOrder /\ MemoryInOrder /\ LoadIsNewest
    BY <1>1, <1>2, <1>3 DEF FilesInOrder, FileInOrder, MemoryInOrder, LoadIsNewest
  <1>5. QED
    BY <1>4, InitHolds DEF HInv

LEMMA HoldsOn == HInv /\ [Next]_vars => HInv'
  <1> SUFFICES ASSUME HInv, [Next]_vars PROVE HInv'
    OBVIOUS
  <1>1. IInv /\ IInv' /\ FilesInOrder /\ MemoryInOrder /\ LoadIsNewest
    BY NextHolds DEF HInv
  <1>2. FilesInOrder'
    BY <1>1, NextFilesInOrder DEF IInv
  <1>3. MemoryInOrder'
    BY <1>1, <1>2, NextMemoryInOrder
  <1>4. LoadIsNewest'
    BY <1>1, NextLoad
  <1>5. QED
    BY <1>1, <1>2, <1>3, <1>4 DEF HInv

LEMMA HInvariance == Spec => []HInv
  BY HoldsAtFirst, HoldsOn, PTL DEF Spec

-----------------------------------------------------------------------------
(* Every step is one of SavedHistory, or changes nothing that it sees.     *)

Recorded == IF pc = "load" THEN NoFile ELSE schema

InMemory == IF pc = "load" THEN {} ELSE ToSet(log)

Seen == <<Recorded, now, InMemory, Found(file.recs), Safe>>

LEMMA SafeHas ==
  ASSUME TypeOK, FilesInOrder, NEW x
  PROVE  x \in Safe <=> /\ \A f \in older : x \in Found(SubSeq(f.recs, 1, f.synced))
                        /\ x \in Found(SubSeq(file.recs, 1, file.synced))
  <1>1. file \in older \union {file} /\ file.recs \in Seq(Stored) /\ file.synced \in 0 .. Len(file.recs)
    BY FileTypes DEF TypeOK, FilesInOrder, FileInOrder
  <1>2. x \in OnDisk(file, older \union {file}) <=>
          \A f \in older \union {file} : x \in Found(SubSeq(f.recs, 1, f.synced))
    BY <1>1, OnDiskIs
  <1>3. QED
    BY <1>2, SafeIs

LEMMA SafeHasNext ==
  ASSUME TypeOK', FilesInOrder', NEW x
  PROVE  x \in Safe' <=> /\ \A f \in older' : x \in Found(SubSeq(f.recs, 1, f.synced))
                         /\ x \in Found(SubSeq(file'.recs, 1, file'.synced))
  <1>1. /\ file' \in older' \union {file'} /\ file'.recs \in Seq(Stored)
        /\ file'.synced \in 0 .. Len(file'.recs)
    BY FileTypes DEF TypeOK, FilesInOrder, FileInOrder
  <1>2. x \in OnDisk(file', older' \union {file'}) <=>
          \A f \in older' \union {file'} : x \in Found(SubSeq(f.recs, 1, f.synced))
    BY <1>1, OnDiskIs
  <1>3. Safe' = OnDisk(file', older' \union {file'})
    BY DEF Safe, OnDisk
  <1>4. QED
    BY <1>2, <1>3

(* No file has a record of a sample that is yet to be taken.               *)
LEMMA FoundIsTaken ==
  ASSUME TypeOK', FilesAreSound', now' = now
  PROVE  \A r \in Found(file'.recs) : r.t < now
  <1>1. Found(file'.recs) \subseteq ToSet(file'.recs) \ {Torn}
    BY FoundIs, FileTypes DEF TypeOK
  <1>2. QED
    BY <1>1 DEF FilesAreSound, FileIsSound, Genuine

(* What the disk has when all of a file is on it, and no other is there.   *)
LEMMA AllIsSafe ==
  ASSUME TypeOK', FilesInOrder', older' = {}, file'.synced = Len(file'.recs)
  PROVE  Safe' = Found(file'.recs)
  <1>1. file'.recs \in Seq(Stored)
    BY FileTypes DEF TypeOK
  <1>2. SubSeq(file'.recs, 1, Len(file'.recs)) = file'.recs
    BY <1>1
  <1>3. \A x : x \in Safe' <=> x \in Found(file'.recs)
    BY <1>2, SafeHasNext
  <1>4. QED
    BY <1>3

(* What is appended is not surely on the disk, and what was there still is. *)
LEMMA AppendedSavesNothing ==
  ASSUME TypeOK, TypeOK', FilesInOrder, FilesInOrder', FileInOrder(file),
         InTimeOrder(file.recs \o journal.pending), PartlyAppended \/ AppendPending
  PROVE  Safe' = Safe /\ Found(file.recs) \subseteq Found(file'.recs)
  <1>1. /\ file'.synced = file.synced /\ older' = older
        /\ SubSeq(file'.recs, 1, file.synced) = SubSeq(file.recs, 1, file.synced)
        /\ Found(file.recs) \subseteq Found(file'.recs)
    BY AppendedInOrder
  <1>2. \A x : x \in Safe' <=> x \in Safe
    BY <1>1, SafeHas, SafeHasNext
  <1>3. QED
    BY <1>1, <1>2

LEMMA StartMaps == ASSUME HInv, LoadEnds PROVE Saved!Start
  <1>0. TypeOK /\ FilesAreSound /\ FileIsRead /\ LoadIsNewest /\ pc = "load" /\ schema \in Schemas
    BY DEF HInv, IInv, LoadEnds, TypeOK
  <1> DEFINE n == loading.read  oldest == loading.oldest  recs == file.recs
  <1>1. /\ oldest \in Oldest /\ n \in 0 .. Len(recs) /\ recs \in Seq(Stored) /\ n \in Nat
        /\ (n > 0 => Fits(file)) /\ ToSet(log) = Saved!NewestOf(ReadSince(recs, n, oldest), Capacity)
        /\ \A m \in 1 .. n : recs[m] # Torn
    BY <1>0, FileTypes DEF LoadIsNewest, FileIsRead, TypeOK
  <1>2. Fits(file) => n = Len(recs) \/ recs[n + 1] = Torn
    BY <1>1 DEF LoadEnds, More
  <1>3. oldest \in {0, now - Retention}
    BY <1>1 DEF Oldest
  <1>4. \A r \in Found(recs) : r.row = file.head
    <2>1. Found(recs) \subseteq ToSet(recs) \ {Torn}
      BY <1>1, FoundIs
    <2>2. QED
      BY <1>0, <2>1 DEF FilesAreSound, FileIsSound, Genuine
  <1> HIDE DEF n, oldest, recs
  <1>5. Fits(file) => \A x : x \in Found(recs) <=> \E m \in 1 .. n : x = recs[m]
    <2> SUFFICES ASSUME Fits(file), NEW x
                 PROVE  x \in Found(recs) <=> \E m \in 1 .. n : x = recs[m]
      OBVIOUS
    <2>1. ASSUME NEW i \in 1 .. Len(recs), \A m \in 1 .. i : recs[m] # Torn
          PROVE  i \in 1 .. n
      <3>1. ~(i > n)
        BY <1>1, <1>2, <2>1
      <3>2. QED
        BY <1>1, <3>1
    <2>2. \A m \in 1 .. n : m \in 1 .. Len(recs) /\ \A k \in 1 .. m : recs[k] # Torn
      BY <1>1
    <2>3. x \in Found(recs) <=> \E i \in 1 .. Len(recs) : x = recs[i] /\ \A m \in 1 .. i : recs[m] # Torn
      BY <1>1, FoundAt
    <2>4. QED
      BY <2>1, <2>2, <2>3
  <1>6. {r \in Found(recs) : r.row = schema /\ r.t >= oldest} = ReadSince(recs, n, oldest)
    <2>1. CASE Fits(file)
      <3>1. Found(recs) = {recs[m] : m \in 1 .. n}
        BY <1>5, <2>1
      <3>2. \A r \in Found(recs) : r.row = schema
        BY <1>4, <2>1 DEF Fits
      <3>3. QED
        BY <3>1, <3>2 DEF ReadSince
    <2>2. CASE ~Fits(file)
      <3>1. n = 0 /\ \A r \in Found(recs) : r.row # schema
        BY <1>1, <1>4, <2>2 DEF Fits
      <3>2. QED
        BY <3>1 DEF ReadSince
    <2>3. QED
      BY <2>1, <2>2
  <1>7. /\ log' = log /\ schema' = schema /\ now' = now /\ pc' = "rewrite"
        /\ file' = file /\ older' = older
    BY DEF LoadEnds, disk
  <1>8. Found(file'.recs) = Found(file.recs) /\ Safe' = Safe
    BY <1>7 DEF Safe
  <1>9. ToSet(log') = Saved!NewestOf({r \in Found(file.recs) : r.row = schema /\ r.t >= oldest}, Capacity)
    BY <1>1, <1>6, <1>7 DEF recs
  <1>10. QED
    BY <1>0, <1>3, <1>7, <1>8, <1>9 DEF Saved!Start

LEMMA SampleMaps == ASSUME HInv, Sample PROVE Saved!Sample
  <1>0. TypeOK /\ MemoryIsSound /\ MemoryInOrder
    BY DEF HInv, IInv
  <1> DEFINE r == [t |-> now, row |-> schema]
  <1>1. r \in Records /\ log' = Log!Added(log, r)
    BY <1>0, SampledRecord
  <1>2. r.t = now
    OBVIOUS
  <1>3. log \in Seq(Records) /\ Len(log) <= Capacity /\ InTimeOrder(log)
    BY <1>0 DEF TypeOK, MemoryInOrder
  <1> HIDE DEF r
  <1>4. ToSet(log') = Saved!NewestOf(ToSet(log) \union {r}, Capacity)
    BY <1>0, <1>1, <1>2, <1>3, AddedIsNewest, SampleIsNewest
  <1>5. /\ pc = "sample" /\ pc' = "flush" /\ schema \in Schemas /\ schema' = schema
        /\ now' = now + 1 /\ file' = file /\ older' = older
    BY <1>0 DEF Sample, TypeOK, disk
  <1>6. Found(file'.recs) = Found(file.recs) /\ Safe' = Safe
    BY <1>5 DEF Safe
  <1>7. QED
    BY <1>4, <1>5, <1>6, NamesAssumption DEF Saved!Sample, r

(* The daemon runs, and records get onto the file.                         *)
LEMMA SaveMaps ==
  ASSUME HInv, HInv', AppendPending \/ AppendFails PROVE Saved!Save
  <1>0. /\ TypeOK /\ TypeOK' /\ FilesInOrder /\ FilesInOrder' /\ MemoryInOrder /\ FilesAreSound'
    BY DEF HInv, IInv
  <1>1. /\ Appending /\ (PartlyAppended \/ AppendPending) /\ pc = "flush" /\ pc' = "sample"
        /\ log' = log /\ schema' = schema /\ now' = now
    BY DEF AppendPending, AppendFails, Appending, Due, Flushed
  <1>2. FileInOrder(file) /\ InTimeOrder(file.recs \o journal.pending)
    BY <1>0, <1>1 DEF FilesInOrder, MemoryInOrder, Appending, RewriteDue
  <1>3. Safe' = Safe /\ Found(file.recs) \subseteq Found(file'.recs)
    BY <1>0, <1>1, <1>2, AppendedSavesNothing
  <1>4. \A r \in Found(file'.recs) : r.t < now
    BY <1>0, <1>1, FoundIsTaken
  <1>5. schema # NoFile
    BY <1>0, <1>1, NamesAssumption DEF TypeOK
  <1>6. QED
    BY <1>1, <1>3, <1>4, <1>5 DEF Saved!Save, Saved!Saving, Saved!Taken

LEMMA CompactMaps == ASSUME HInv, HInv', Rename PROVE Saved!Compact
  <1>0. TypeOK /\ TypeOK' /\ FilesInOrder /\ FilesInOrder' /\ log \in Seq(Records) /\ log \in Seq(Stored)
    BY RecordsAreStored DEF HInv, IInv, TypeOK
  <1>1. /\ pc = "rewrite" /\ pc' = "renamed" /\ log' = log /\ schema' = schema /\ now' = now
        /\ file'.recs = log /\ file'.synced = Len(log)
    BY DEF Rename
  <1>2. PICK f \in older \union {file} : older' = {f}
    BY DEF Rename
  <1>3. Found(log) = ToSet(log) /\ SubSeq(log, 1, Len(log)) = log
    BY <1>0, RecordsAreStored, FoundIs
  <1>4. \A x : x \in Safe' <=> x \in Found(SubSeq(f.recs, 1, f.synced)) /\ x \in ToSet(log)
    BY <1>0, <1>1, <1>2, <1>3, SafeHasNext
  <1>5. \A x : x \in Safe => x \in Found(SubSeq(f.recs, 1, f.synced))
    BY <1>0, <1>2, SafeHas
  <1>6. schema # NoFile
    BY <1>0, <1>1, NamesAssumption DEF TypeOK
  <1>7. Found(file'.recs) = ToSet(log)
    BY <1>1, <1>3
  <1>8. Safe \intersect ToSet(log) \subseteq Safe' /\ Safe' \subseteq ToSet(log)
    BY <1>4, <1>5
  <1>9. QED
    BY <1>1, <1>6, <1>7, <1>8 DEF Saved!Compact

LEMMA WritebackMaps == ASSUME HInv, HInv', Writeback PROVE Saved!Writeback
  <1>0. TypeOK /\ TypeOK' /\ FilesInOrder'
    BY DEF HInv, IInv
  <1>1. file'.recs = file.recs /\ file'.synced = Len(file.recs) /\ older' = {}
    BY <1>0 DEF Writeback, TypeOK, Files
  <1>2. Safe' = Found(file.recs) /\ Found(file'.recs) = Found(file.recs)
    BY <1>0, <1>1, AllIsSafe
  <1>3. log' = log /\ pc' = pc /\ schema' = schema /\ now' = now
    BY DEF Writeback, memory
  <1>4. QED
    BY <1>2, <1>3 DEF Saved!Writeback

LEMMA PowerCutMaps == ASSUME HInv, HInv', PowerCut PROVE Saved!PowerCut
  <1>0. TypeOK /\ TypeOK' /\ FilesInOrder /\ FilesInOrder' /\ FilesAreSound'
    BY DEF HInv, IInv
  <1>1. PICK f \in older \union {file} : Remains(f)
    BY DEF PowerCut
  <1>2. /\ log' = << >> /\ pc' = "down" /\ schema' = NoFile /\ now' = now /\ older' = {}
    BY DEF PowerCut, Ended
  <1>3. /\ file'.synced = Len(file'.recs)
        /\ Found(SubSeq(f.recs, 1, f.synced)) \subseteq Found(file'.recs)
    BY <1>0, <1>1, RemainsInOrder DEF TypeOK, FilesInOrder
  <1>4. Safe' = Found(file'.recs)
    BY <1>0, <1>2, <1>3, AllIsSafe
  <1>5. \A x \in Safe : x \in Found(SubSeq(f.recs, 1, f.synced))
    BY <1>0, <1>1, SafeHas
  <1>6. \A r \in Found(file'.recs) : r.t < now
    BY <1>0, <1>2, FoundIsTaken
  <1>7. ToSet(<< >>) = {}
    BY DEF ToSet
  <1>8. Safe \subseteq Found(file'.recs)
    BY <1>3, <1>5
  <1>9. QED
    BY <1>2, <1>4, <1>6, <1>7, <1>8 DEF Saved!PowerCut, Saved!Ends, Saved!Taken

(* The process ends: a kill, or a rewrite that fails at startup.           *)
LEMMA KillMaps ==
  ASSUME HInv, HInv', Kill \/ KillWhileAppending \/ (RewriteFails /\ booting)
  PROVE  Saved!Kill \/ UNCHANGED Seen
  <1>0. /\ TypeOK /\ TypeOK' /\ FilesInOrder /\ FilesInOrder' /\ MemoryInOrder /\ FilesAreSound'
    BY DEF HInv, IInv
  <1>1. Ended /\ pc # "down"
    BY DEF Kill, KillWhileAppending, RewriteFails, Appending, Due
  <1>2. log' = << >> /\ pc' = "down" /\ schema' = NoFile /\ now' = now /\ ToSet(log') = {}
    BY <1>1 DEF Ended, ToSet
  <1>3. Safe' = Safe /\ Found(file.recs) \subseteq Found(file'.recs)
        /\ (pc = "load" => Found(file'.recs) = Found(file.recs))
    <2>1. CASE UNCHANGED disk
      BY <2>1 DEF disk, Safe
    <2>2. CASE KillWhileAppending
      <3>1. Appending /\ PartlyAppended /\ pc = "flush"
        BY <2>2 DEF KillWhileAppending, Appending, Due
      <3>2. FileInOrder(file) /\ InTimeOrder(file.recs \o journal.pending)
        BY <1>0, <3>1 DEF FilesInOrder, MemoryInOrder, Appending, RewriteDue
      <3>3. QED
        BY <1>0, <3>1, <3>2, AppendedSavesNothing
    <2>3. QED
      BY <2>1, <2>2 DEF Kill, RewriteFails
  <1>4. \A r \in Found(file'.recs) : r.t < now
    BY <1>0, <1>2, FoundIsTaken
  <1>5. CASE pc = "load"
    BY <1>2, <1>3, <1>5 DEF Seen, Recorded, InMemory
  <1>6. CASE pc # "load"
    <2>1. schema # NoFile
      BY <1>0, <1>1, NamesAssumption DEF TypeOK
    <2>2. QED
      BY <1>2, <1>3, <1>4, <1>6, <2>1 DEF Saved!Kill, Saved!Ends, Saved!Saving, Saved!Taken
  <1>7. QED
    BY <1>5, <1>6

LEMMA QuietSteps ==
  ASSUME HInv, Start \/ LoadRecord \/ HoldBack \/ NotDue \/ AppendNothing \/ RewriteBegins
               \/ Reopen \/ (RewriteFails /\ ~booting) \/ DiskChanges \/ UNCHANGED vars
  PROVE  UNCHANGED Seen
  <1>1. file' = file /\ older' = older /\ now' = now
    BY DEF Start, LoadRecord, HoldBack, NotDue, AppendNothing, RewriteBegins, Reopen, RewriteFails,
      DiskChanges, Flushed, vars, disk
  <1>2. Found(file'.recs) = Found(file.recs) /\ Safe' = Safe
    BY <1>1 DEF Safe
  <1>3. Recorded' = Recorded /\ InMemory' = InMemory
    <2>1. CASE Start
      <3>1. pc = "down" /\ log = << >> /\ schema = NoFile /\ pc' = "load"
        BY <2>1 DEF Start, HInv, IInv, MemoryIsSound, MemoryInOrder
      <3>2. ToSet(<< >>) = {}
        BY DEF ToSet
      <3>3. QED
        BY <3>1, <3>2 DEF Recorded, InMemory
    <2>2. CASE LoadRecord
      BY <2>2 DEF LoadRecord, Recorded, InMemory
    <2>3. CASE ~Start /\ ~LoadRecord
      <3>1. log' = log /\ schema' = schema /\ (pc = "load" <=> pc' = "load")
        BY <2>3 DEF HoldBack, NotDue, AppendNothing, RewriteBegins, Reopen, RewriteFails,
          DiskChanges, Flushed, Due, vars, memory
      <3>2. QED
        BY <3>1 DEF Recorded, InMemory
    <2>4. QED
      BY <2>1, <2>2, <2>3
  <1>4. QED
    BY <1>1, <1>2, <1>3 DEF Seen

LEMMA StepMaps == HInv /\ HInv' /\ [Next]_vars => Saved!Next \/ UNCHANGED Seen
  <1> SUFFICES ASSUME HInv, HInv', [Next]_vars PROVE Saved!Next \/ UNCHANGED Seen
    OBVIOUS
  <1>1. CASE LoadEnds
    BY <1>1, StartMaps DEF Saved!Next
  <1>2. CASE Sample
    BY <1>2, SampleMaps DEF Saved!Next
  <1>3. CASE AppendPending \/ AppendFails
    BY <1>3, SaveMaps DEF Saved!Next
  <1>4. CASE Rename
    BY <1>4, CompactMaps DEF Saved!Next
  <1>5. CASE Writeback
    BY <1>5, WritebackMaps DEF Saved!Next
  <1>6. CASE PowerCut
    BY <1>6, PowerCutMaps DEF Saved!Next
  <1>7. CASE Kill \/ KillWhileAppending \/ (RewriteFails /\ booting)
    BY <1>7, KillMaps DEF Saved!Next
  <1>8. CASE Start \/ LoadRecord \/ HoldBack \/ NotDue \/ AppendNothing \/ RewriteBegins
             \/ Reopen \/ (RewriteFails /\ ~booting) \/ DiskChanges \/ UNCHANGED vars
    BY <1>8, QuietSteps
  <1>9. QED
    BY <1>1, <1>2, <1>3, <1>4, <1>5, <1>6, <1>7, <1>8 DEF Next, Boot, Turn

LEMMA FirstMaps == Init => Saved!Init
  <1> SUFFICES ASSUME Init PROVE Saved!Init
    OBVIOUS
  <1>1. pc = "down" /\ log = << >> /\ schema = NoFile /\ now = 1
    BY DEF Init
  <1>2. file.recs = << >>
    BY DEF Init, Missing
  <1>3. ToSet(<< >>) = {} /\ Found(<< >>) = {}
    BY DEF ToSet, Found
  <1>4. Safe = {}
    BY <1>2, <1>3 DEF Safe
  <1>5. QED
    BY <1>1, <1>2, <1>3, <1>4 DEF Saved!Init

(* Whatever writes, rewrites, failures, kills, power cuts and changes of   *)
(* the metrics come, in whatever order: no record that reached the disk    *)
(* leaves it but by a rewrite that leaves out what memory has discarded,   *)
(* and a start takes back exactly the newest of what is found.             *)
THEOREM HistoryIsSaved == Spec => ImplementsSavedHistory
  <1>1. HInv /\ HInv' /\ [Next]_vars =>
          [Saved!Next]_<<IF pc = "load" THEN NoFile ELSE schema, now,
                         IF pc = "load" THEN {} ELSE ToSet(log), Found(file.recs), Safe>>
    BY StepMaps DEF Seen, Recorded, InMemory
  <1>2. QED
    BY <1>1, FirstMaps, HInvariance, PTL DEF Spec, ImplementsSavedHistory, Saved!Spec
=============================================================================
