---------------------------- MODULE RatesProofs ----------------------------
(***************************************************************************)
(* Proofs about Rates.tla, for any number of interfaces, any load of the   *)
(* machine, and any files missing or odd at any turn: the rates and the    *)
(* busy share of a row are of what happened between the two turns they come*)
(* from, gaps have a cause, and each value is in its place.                *)
(*                                                                         *)
(* What the parsers of Proc.tla give of the files of the machine is worked *)
(* out first, the sum over the eight fields of /proc/stat among it.        *)
(***************************************************************************)
EXTENDS Rates, FiniteSetTheorems, SequenceTheorems, TLAPS

-----------------------------------------------------------------------------
(* Sums of the eight fields.                                               *)

(* The greatest and the least of a set, where one is known.                *)
LEMMA MaxIs ==
  ASSUME NEW S, NEW m \in S, S \subseteq Int, \A x \in S : x <= m
  PROVE  Max(S) = m
  <1>1. \E x \in S : \A y \in S : x >= y OBVIOUS
  <1>2. Max(S) \in S /\ \A y \in S : Max(S) >= y BY <1>1 DEF Max
  <1> DEFINE top == Max(S)
  <1>3. top \in Int /\ m \in Int /\ top <= m /\ top >= m BY <1>2
  <1> HIDE DEF top
  <1>4. top = m BY <1>3
  <1>5. QED BY <1>4 DEF top

LEMMA MinIs ==
  ASSUME NEW S, NEW m \in S, S \subseteq Int, \A x \in S : m <= x
  PROVE  Min(S) = m
  <1>1. \E x \in S : \A y \in S : x <= y OBVIOUS
  <1>2. Min(S) \in S /\ \A y \in S : Min(S) <= y BY <1>1 DEF Min
  <1> DEFINE least == Min(S)
  <1>3. least \in Int /\ m \in Int /\ least <= m /\ least >= m BY <1>2
  <1> HIDE DEF least
  <1>4. least = m BY <1>3
  <1>5. QED BY <1>4 DEF least

(* What FoldLeft is the solution of, over eight fields.                    *)
SumEquation(iter, s) ==
  iter = [T \in SUBSET (1 .. 8) |->
           IF T = {} THEN 0 ELSE iter[T \ {Max(T)}] + s[Max(T)]]

(* FoldLeft is of the fields taken from the last to the first.             *)
LEMMA SumUnfolds ==
  ASSUME NEW s, DOMAIN s = 1 .. 8, \A k \in 1 .. 8 : s[k] \in Int
  PROVE  FoldLeft(+, 0, s) = (CHOOSE iter : SumEquation(iter, s))[1 .. 8]
  BY DEF FoldLeft, MapThenFoldSet, SumEquation

(* A set of places has a greatest, or none up to 8, to 7, and so on.       *)
LEMMA GreatestOfEight ==
  ASSUME NEW T \in SUBSET (1 .. 8), T # {}
  PROVE  Max(T) \in T /\ \A x \in T : x <= Max(T)
  <1>1. \E m \in T : \A x \in T : x <= m
    <2> DEFINE upTo(k) == \A x \in T : x <= k
    <2>1. SUFFICES ASSUME \A m \in T : ~upTo(m) PROVE FALSE OBVIOUS
    <2>2. ASSUME NEW k \in 1 .. 8, NEW j \in 0 .. 7, k = j + 1, upTo(k) PROVE upTo(j)
      <3>1. k \notin T BY <2>1, <2>2
      <3>2. \A x \in T : x \in Int /\ x <= k /\ x # k BY <2>2, <3>1
      <3>3. QED BY <2>2, <3>2
    <2>3. upTo(8) OBVIOUS
    <2> HIDE DEF upTo
    <2>4. 8 \in 1 .. 8 /\ 7 \in 0 .. 7 /\ 8 = 7 + 1 OBVIOUS
    <2>5. upTo(7) BY <2>2, <2>3, <2>4
    <2>6. upTo(6) BY <2>2, <2>5
    <2>7. upTo(5) BY <2>2, <2>6
    <2>8. upTo(4) BY <2>2, <2>7
    <2>9. upTo(3) BY <2>2, <2>8
    <2>10. upTo(2) BY <2>2, <2>9
    <2>11. upTo(1) BY <2>2, <2>10
    <2>12. upTo(0) BY <2>2, <2>11
    <2>13. PICK x \in T : x \in 1 .. 8 OBVIOUS
    <2>14. x <= 0 BY <2>12 DEF upTo
    <2>15. QED BY <2>13, <2>14
  <1>2. PICK m \in T : \A x \in T : x <= m BY <1>1
  <1>3. T \subseteq Int OBVIOUS
  <1>4. Max(T) = m BY <1>2, <1>3, MaxIs
  <1>5. QED BY <1>2, <1>4

(* The sum of the fields that are in a set is such a solution.             *)
LEMMA SumHasSolution ==
  ASSUME NEW s, DOMAIN s = 1 .. 8, \A k \in 1 .. 8 : s[k] \in Int
  PROVE  \E iter : SumEquation(iter, s)
  <1> DEFINE part(k, T) == IF k \in T THEN s[k] ELSE 0
             sum(T) == part(1, T) + (part(2, T) + (part(3, T) + (part(4, T)
                         + (part(5, T) + (part(6, T) + (part(7, T) + part(8, T)))))))
             iter == [T \in SUBSET (1 .. 8) |-> sum(T)]
  <1>1. ASSUME NEW T \in SUBSET (1 .. 8), T # {}
        PROVE  sum(T) = sum(T \ {Max(T)}) + s[Max(T)]
    <2> DEFINE m == Max(T)
    <2>1. m \in T /\ m \in 1 .. 8 BY <1>1, GreatestOfEight
    <2> HIDE DEF m
    <2>2. \A k \in 1 .. 8 : k # m => part(k, T \ {m}) = part(k, T) OBVIOUS
    <2>3. part(m, T \ {m}) = 0 /\ part(m, T) = s[m] BY <2>1
    <2>4. \A k \in 1 .. 8 : part(k, T) \in Int OBVIOUS
    <2> HIDE DEF part
    <2>5. sum(T) = sum(T \ {m}) + s[m] BY <2>1, <2>2, <2>3, <2>4
    <2>6. QED BY <2>5 DEF m
  <1>2. sum({}) = 0 OBVIOUS
  <1> HIDE DEF sum
  <1>3. SumEquation(iter, s) BY <1>1, <1>2 DEF SumEquation
  <1>4. QED BY <1>3

(* Any solution is the sum, field by field.                                *)
LEMMA SumOfEight ==
  ASSUME NEW s, DOMAIN s = 1 .. 8, \A k \in 1 .. 8 : s[k] \in Int
  PROVE  FoldLeft(+, 0, s)
           = s[1] + (s[2] + (s[3] + (s[4] + (s[5] + (s[6] + (s[7] + s[8]))))))
  <1> DEFINE it == CHOOSE iter : SumEquation(iter, s)
  <1>1. SumEquation(it, s) BY SumHasSolution
  <1>2. FoldLeft(+, 0, s) = it[1 .. 8] BY SumUnfolds
  <1> HIDE DEF it
  <1>3. ASSUME NEW k \in 1 .. 8 PROVE it[1 .. k] = it[1 .. k - 1] + s[k]
    <2>1. Max(1 .. k) = k
      <3>1. k \in 1 .. k /\ 1 .. k \subseteq Int /\ \A x \in 1 .. k : x <= k OBVIOUS
      <3>2. QED BY <3>1, MaxIs
    <2>2. (1 .. k) \ {k} = 1 .. k - 1 /\ 1 .. k # {} /\ 1 .. k \in SUBSET (1 .. 8) OBVIOUS
    <2>3. QED BY <1>1, <2>1, <2>2 DEF SumEquation
  <1>4. it[1 .. 0] = 0
    <2>1. 1 .. 0 = {} OBVIOUS
    <2>2. QED BY <1>1, <2>1 DEF SumEquation
  <1> DEFINE sum(k) == it[1 .. k]
  <1>5. /\ sum(1) = sum(0) + s[1] /\ sum(2) = sum(1) + s[2] /\ sum(3) = sum(2) + s[3]
        /\ sum(4) = sum(3) + s[4] /\ sum(5) = sum(4) + s[5] /\ sum(6) = sum(5) + s[6]
        /\ sum(7) = sum(6) + s[7] /\ sum(8) = sum(7) + s[8]
    BY <1>3
  <1>6. sum(0) = 0 BY <1>4
  <1> HIDE DEF sum
  <1>7. sum(8) = s[1] + (s[2] + (s[3] + (s[4] + (s[5] + (s[6] + (s[7] + s[8]))))))
    BY <1>5, <1>6
  <1>8. QED BY <1>2, <1>7 DEF sum

-----------------------------------------------------------------------------
(* Sequences.                                                              *)

(* What is where in two sequences, one after the other.                    *)
LEMMA Concatenated ==
  ASSUME NEW S, NEW m \in Nat, NEW n \in Nat, NEW s \in [1 .. m -> S], NEW u \in [1 .. n -> S]
  PROVE  /\ DOMAIN (s \o u) = 1 .. m + n /\ Len(s \o u) = m + n
         /\ \A k \in 1 .. m : (s \o u)[k] = s[k]
         /\ \A k \in 1 .. n : (s \o u)[m + k] = u[k]
  <1>1. s \in Seq(S) /\ Len(s) = m /\ u \in Seq(S) /\ Len(u) = n OBVIOUS
  <1>2. QED BY <1>1

(* A part of a sequence, from after i and n long.                          *)
LEMMA PartOf ==
  ASSUME NEW S, NEW s \in Seq(S), NEW i \in Nat, NEW n \in Nat, i + n <= Len(s),
         NEW from, from = i + 1, NEW to, to = i + n
  PROVE  /\ SubSeq(s, from, to) \in [1 .. n -> S]
         /\ \A k \in 1 .. n : SubSeq(s, from, to)[k] = s[i + k]
  <1>1. /\ SubSeq(s, from, to) \in Seq(S) /\ Len(SubSeq(s, from, to)) = n
        /\ \A k \in 1 .. n : SubSeq(s, from, to)[k] = s[from + k - 1]
    <2>1. from \in 1 .. Len(s) + 1 /\ to \in from - 1 .. Len(s) /\ to - from + 1 = n OBVIOUS
    <2>2. QED BY <2>1, SubSeqProperties
  <1>2. \A k \in 1 .. n : from + k - 1 = i + k OBVIOUS
  <1> DEFINE part == SubSeq(s, from, to)
  <1>3. part \in Seq(S) /\ Len(part) = n /\ \A k \in 1 .. n : part[k] = s[i + k]
    BY <1>1, <1>2
  <1> HIDE DEF part
  <1>4. part \in [1 .. n -> S] BY <1>3
  <1>5. QED BY <1>3, <1>4 DEF part

(* The first line that begins with a word, where it is the only one.       *)
LEMMA FirstOfIs ==
  ASSUME NEW S, NEW s \in Seq(S), NEW word, NEW i \in DOMAIN s,
         \A j \in DOMAIN s : s[j].word = word <=> j = i
  PROVE  FirstOf(s, word) = i
  <1> DEFINE I == {j \in 1 .. Len(s) : s[j].word = word}
  <1>1. DOMAIN s = 1 .. Len(s) /\ i \in 1 .. Len(s) /\ i \in Int OBVIOUS
  <1>2. \A j \in DOMAIN s : s[j].word = word => j = i OBVIOUS
  <1>3. i \in I BY <1>1
  <1>4. \A j \in I : j = i BY <1>1, <1>2
  <1> HIDE DEF I
  <1>5. I \subseteq Int /\ \A j \in I : i <= j BY <1>1, <1>4
  <1>6. Min(I) = i BY <1>3, <1>5, MinIs
  <1>7. I # {} BY <1>3
  <1>8. FirstOf(s, word) = Min(I) BY <1>7 DEF FirstOf, SelectInSeq, I
  <1>9. QED BY <1>6, <1>8

LEMMA FirstOfNone ==
  ASSUME NEW s, NEW word, \A j \in 1 .. Len(s) : s[j].word # word
  PROVE  FirstOf(s, word) = 0
  BY DEF FirstOf, SelectInSeq

-----------------------------------------------------------------------------
(* /proc/stat.                                                             *)

MachineOK ==
  /\ net \in [Ports -> Nat \cup {None}]
  /\ cpu \in [busy : Nat, guest : Nat, idle : Nat, iowait : Nat]

(* ParseCpuTimes, from the fields of the line it has found.                *)
Total(fields) == FoldLeft(+, 0, fields)

TimesOf(at, fields) ==
  IF at = 0 THEN None
  ELSE IF Contains(fields, Odd) \/ Len(fields) < 4 THEN None
  ELSE LET total == Total(fields)
           iowait == IF Len(fields) > 4 THEN fields[5] ELSE 0
       IN  [busy |-> SaturatingSub(SaturatingSub(total, fields[4]), iowait), total |-> total]

(* ParseCpuTimes looks for the line and sums what it has.                  *)
LEMMA TimesAreOf ==
  ASSUME NEW stat
  PROVE  ParseCpuTimes(stat)
           = LET at == FirstOf(stat, "cpu")
             IN  TimesOf(at, SubSeq(stat[at].fields, 1, Min({8, Len(stat[at].fields)})))
  BY DEF ParseCpuTimes, TimesOf, Total

(* A file that is fine gives the ticks, guests not counted twice.          *)
LEMMA StatIs ==
  ASSUME MachineOK
  PROVE  ParseCpuTimes(Stat) = [busy |-> cpu.busy, total |-> cpu.busy + cpu.idle + cpu.iowait]
  <1> DEFINE all == <<cpu.busy, 0, 0, cpu.idle, cpu.iowait, 0, 0, 0, cpu.guest, 0>>
             fields == SubSeq(all, 1, 8)
  <1>1. cpu.busy \in Nat /\ cpu.idle \in Nat /\ cpu.iowait \in Nat /\ cpu.guest \in Nat
    BY DEF MachineOK
  <1>2. FirstOf(Stat, "cpu") = 1
    <2> DEFINE S == {Stat[1], Stat[2]}
    <2>1. Stat \in Seq(S) /\ DOMAIN Stat = 1 .. 2 BY DEF Stat
    <2>2. \A j \in DOMAIN Stat : Stat[j].word = "cpu" <=> j = 1 BY <2>1 DEF Stat
    <2> HIDE DEF S
    <2>3. QED BY <2>1, <2>2, FirstOfIs
  <1>3. Stat[1].fields = all BY DEF Stat
  <1>4. all \in Seq(Int) /\ Len(all) = 10 BY <1>1
  <1>5. Min({8, Len(all)}) = 8
    <2> DEFINE Both == {8, 10}
               m == 8
    <2>1. m \in Both /\ Both \subseteq Int /\ \A x \in Both : m <= x OBVIOUS
    <2>2. Both = {8, Len(all)} BY <1>4
    <2>3. m = 8 OBVIOUS
    <2> HIDE DEF Both, m
    <2>4. Min(Both) = m BY <2>1, MinIs
    <2>5. QED BY <2>2, <2>3, <2>4
  <1>6. /\ fields \in Seq(Int) /\ Len(fields) = 8 /\ DOMAIN fields = 1 .. 8
        /\ \A k \in 1 .. 8 : fields[k] = all[k] /\ fields[k] \in Int
    BY <1>4
  <1>7. /\ fields[1] = cpu.busy /\ fields[2] = 0 /\ fields[3] = 0 /\ fields[4] = cpu.idle
        /\ fields[5] = cpu.iowait /\ fields[6] = 0 /\ fields[7] = 0 /\ fields[8] = 0
    BY <1>6
  <1> HIDE DEF all, fields
  <1>8. Total(fields) = cpu.busy + cpu.idle + cpu.iowait
    <2>1. Total(fields)
            = fields[1] + (fields[2] + (fields[3] + (fields[4]
                + (fields[5] + (fields[6] + (fields[7] + fields[8]))))))
      BY <1>6, SumOfEight DEF Total
    <2>2. ASSUME NEW b \in Int, NEW i \in Int, NEW w \in Int
          PROVE  b + (0 + (0 + (i + (w + (0 + (0 + 0)))))) = b + i + w
      OBVIOUS
    <2>3. Total(fields)
            = cpu.busy + (0 + (0 + (cpu.idle + (cpu.iowait + (0 + (0 + 0))))))
      BY <2>1, <1>7
    <2>4. QED BY <2>2, <2>3, <1>1
  <1>9. ~Contains(fields, Odd) BY <1>6, OddAssumption DEF Contains
  <1>10. SubSeq(Stat[1].fields, 1, Min({8, Len(Stat[1].fields)})) = fields
    BY <1>3, <1>5 DEF fields
  <1>11. ParseCpuTimes(Stat) = TimesOf(1, fields) BY <1>2, <1>10, TimesAreOf
  <1> DEFINE total == Total(fields)
  <1>12. TimesOf(1, fields)
           = [busy |-> SaturatingSub(SaturatingSub(total, fields[4]), fields[5]), total |-> total]
    BY <1>6, <1>9 DEF TimesOf
  <1> HIDE DEF total
  <1>13. SaturatingSub(SaturatingSub(total, fields[4]), fields[5]) = cpu.busy
    <2>1. total - fields[4] = cpu.busy + cpu.iowait /\ ~(total < fields[4])
      BY <1>1, <1>7, <1>8 DEF total
    <2>2. SaturatingSub(total, fields[4]) = cpu.busy + cpu.iowait BY <2>1 DEF SaturatingSub
    <2>3. SaturatingSub(cpu.busy + cpu.iowait, cpu.iowait) = cpu.busy
      BY <1>1 DEF SaturatingSub
    <2>4. QED BY <2>2, <2>3, <1>7
  <1>14. total = cpu.busy + cpu.idle + cpu.iowait BY <1>8 DEF total
  <1>15. QED BY <1>11, <1>12, <1>13, <1>14

(* One without the line, with too few fields or an odd one gives none.     *)
LEMMA OddStatsAreNone ==
  ASSUME MachineOK, NEW stat \in OddStats
  PROVE  ParseCpuTimes(stat) = None
  <1>1. CASE stat = <<Stat[2]>>
    <2>1. \A j \in 1 .. Len(stat) : stat[j].word # "cpu" BY <1>1 DEF Stat
    <2>2. FirstOf(stat, "cpu") = 0 BY <2>1, FirstOfNone
    <2>3. QED BY <2>2 DEF ParseCpuTimes
  <1> DEFINE all == <<cpu.busy, 0, 0, cpu.idle, cpu.iowait, 0, 0, 0, cpu.guest, 0>>
             odd(f) == <<[word |-> "cpu", fields |-> f]>>
  <1>2. ASSUME NEW f, stat = odd(f) PROVE FirstOf(stat, "cpu") = 1 /\ stat[1].fields = f
    <2> DEFINE S == {stat[1]}
    <2>1. /\ stat \in Seq(S) /\ DOMAIN stat = {1}
          /\ stat[1].word = "cpu" /\ stat[1].fields = f
      BY <1>2
    <2>2. 1 \in DOMAIN stat /\ \A j \in DOMAIN stat : stat[j].word = "cpu" <=> j = 1 BY <2>1
    <2> HIDE DEF odd, S
    <2>3. FirstOf(stat, "cpu") = 1 BY <2>1, <2>2, FirstOfIs
    <2>4. QED BY <2>1, <2>3
  <1>3. CASE stat = odd(SubSeq(all, 1, 3))
    <2> DEFINE f == SubSeq(all, 1, 3)
    <2>1. Len(f) = 3 OBVIOUS
    <2>2. FirstOf(stat, "cpu") = 1 /\ stat[1].fields = f BY <1>2, <1>3
    <2> HIDE DEF f
    <2>3. Min({8, Len(f)}) = 3
      <3>1. 3 \in {8, 3} /\ {8, 3} \subseteq Int /\ \A x \in {8, 3} : 3 <= x OBVIOUS
      <3>2. Min({8, 3}) = 3 BY <3>1, MinIs
      <3>3. QED BY <3>2, <2>1
    <2>4. Len(SubSeq(f, 1, 3)) < 4 OBVIOUS
    <2>5. QED BY <2>2, <2>3, <2>4, TimesAreOf DEF TimesOf
  <1>4. CASE stat = odd([all EXCEPT ![2] = Odd])
    <2> DEFINE f == [all EXCEPT ![2] = Odd]
    <2>1. f \in Seq({f[k] : k \in 1 .. 10}) /\ Len(f) = 10 /\ f[2] = Odd OBVIOUS
    <2>2. FirstOf(stat, "cpu") = 1 /\ stat[1].fields = f BY <1>2, <1>4
    <2> HIDE DEF f
    <2>3. Min({8, Len(f)}) = 8
      <3>1. 8 \in {8, 10} /\ {8, 10} \subseteq Int /\ \A x \in {8, 10} : 8 <= x OBVIOUS
      <3>2. Min({8, 10}) = 8 BY <3>1, MinIs
      <3>3. QED BY <3>2, <2>1
    <2>4. SubSeq(f, 1, 8)[2] = Odd /\ Len(SubSeq(f, 1, 8)) = 8 BY <2>1
    <2>5. Contains(SubSeq(f, 1, 8), Odd) BY <2>4 DEF Contains
    <2>6. QED BY <2>2, <2>3, <2>5, TimesAreOf DEF TimesOf
  <1>5. Stat[1] = [word |-> "cpu", fields |-> all] BY DEF Stat
  <1>6. QED
    <2>1. <<[Stat[1] EXCEPT !.fields = SubSeq(@, 1, 3)]>> = odd(SubSeq(all, 1, 3)) BY <1>5
    <2>2. <<[Stat[1] EXCEPT !.fields[2] = Odd]>> = odd([all EXCEPT ![2] = Odd]) BY <1>5
    <2>3. QED BY <1>1, <1>3, <1>4, <2>1, <2>2 DEF OddStats

-----------------------------------------------------------------------------
(* /proc/net/dev.                                                          *)

Present == {p \in Ports : net[p] # None}

LineOf(p) ==
  [word |-> p, fields |-> <<net[p], 9, 9, 9, 9, 9, 9, 9, 2 * net[p], 9>>]

(* The interfaces in the order of their lines.                             *)
LEMMA PortsInOrder ==
  \E n \in Nat :
    /\ SetToSeq(Present) \in [1 .. n -> Present]
    /\ \A k, l \in 1 .. n : SetToSeq(Present)[k] = SetToSeq(Present)[l] => k = l
    /\ \A p \in Present : \E k \in 1 .. n : SetToSeq(Present)[k] = p
  <1> DEFINE n == Cardinality(Present)
             ports == SetToSeq(Present)
  <1>1. IsFiniteSet(Present) /\ n \in Nat
    BY PortsAssumption, FS_Subset, FS_CardinalityType DEF Present
  <1>2. IsFiniteSet(1 .. n) /\ Cardinality(1 .. n) = n BY <1>1, FS_Interval
  <1>3. PICK m \in Nat : ExistsBijection(1 .. m, Present) BY <1>1, FS_NatBijection
  <1>4. m = n BY <1>3, FS_CountingElements
  <1>5. PICK f \in Bijection(1 .. n, Present) : TRUE BY <1>3, <1>4 DEF ExistsBijection
  <1>6. \E g \in [1 .. n -> Present] : IsInjective(g)
    BY <1>5 DEF Bijection, Injection, IsInjective
  <1>7. ports \in [1 .. n -> Present] /\ IsInjective(ports) BY <1>6 DEF SetToSeq
  <1> HIDE DEF n, ports
  <1>8. ports \in Injection(1 .. n, Present) BY <1>7 DEF Injection
  <1>9. ports \in Surjection(1 .. n, Present)
    BY <1>1, <1>2, <1>8, FS_Injection DEF n
  <1>10. QED BY <1>1, <1>7, <1>9 DEF ports, IsInjective, Surjection

NetDevHas(n, ports) ==
  /\ DOMAIN NetDev = 1 .. 2 + n
  /\ Len(NetDev[1].fields) \in 0 .. 8 /\ Len(NetDev[2].fields) \in 0 .. 8
  /\ \A k \in 1 .. n : NetDev[2 + k] = LineOf(ports[k])
  /\ \A k, l \in 1 .. n : ports[k] = ports[l] => k = l
  /\ \A p \in Present : \E k \in 1 .. n : ports[k] = p
  /\ DOMAIN SubSeq(NetDev, 1, 2) = 1 .. 2
  /\ \A k \in 1 .. 2 : SubSeq(NetDev, 1, 2)[k] = NetDev[k]

(* Two lines that are not of interfaces, then one for each.                *)
LEMMA LinesOfNetDev ==
  ASSUME MachineOK
  PROVE  \E n \in Nat : \E ports \in [1 .. n -> Present] : NetDevHas(n, ports)
  <1> DEFINE ports == SetToSeq(Present)
  <1>1. PICK n \in Nat :
          /\ ports \in [1 .. n -> Present]
          /\ \A k, l \in 1 .. n : ports[k] = ports[l] => k = l
          /\ \A p \in Present : \E k \in 1 .. n : ports[k] = p
    BY PortsInOrder
  <1> DEFINE top == <<[word |-> "face", fields |-> <<Odd, Odd>>],
                      [word |-> "lo", fields |-> <<1, 2, 3>>]>>
             rest == [k \in 1 .. n |-> LineOf(ports[k])]
             S == {top[1], top[2]} \cup {rest[k] : k \in 1 .. n}
  <1>2. NetDev = top \o rest
    <2>1. DOMAIN ports = 1 .. n BY <1>1
    <2>2. NetDev = top \o [i \in DOMAIN ports |-> LineOf(ports[i])]
      BY DEF NetDev, LineOf, Present
    <2>3. QED BY <2>1, <2>2
  <1>3. /\ top \in [1 .. 2 -> S] /\ rest \in [1 .. n -> S]
        /\ top \in Seq(S) /\ rest \in Seq(S)
    OBVIOUS
  <1>4. Len(top[1].fields) = 2 /\ Len(top[2].fields) = 3 OBVIOUS
  <1>5. \A k \in 1 .. n : rest[k] = LineOf(ports[k]) OBVIOUS
  <1> HIDE DEF top, rest, ports, S
  <1>6. /\ DOMAIN NetDev = 1 .. 2 + n /\ Len(NetDev) = 2 + n
        /\ \A k \in 1 .. 2 : NetDev[k] = top[k]
        /\ \A k \in 1 .. n : NetDev[2 + k] = rest[k]
    <2> DEFINE all == top \o rest
               two == 2
    <2>1. two \in Nat /\ top \in [1 .. two -> S] BY <1>3
    <2> HIDE DEF two
    <2>2. /\ DOMAIN all = 1 .. two + n /\ Len(all) = two + n
          /\ \A k \in 1 .. two : all[k] = top[k]
          /\ \A k \in 1 .. n : all[two + k] = rest[k]
      BY <2>1, <1>3, Concatenated
    <2> HIDE DEF all
    <2>3. NetDev = all BY <1>2 DEF all
    <2>4. QED BY <2>2, <2>3 DEF two
  <1>7. /\ DOMAIN SubSeq(NetDev, 1, 2) = 1 .. 2
        /\ \A k \in 1 .. 2 : SubSeq(NetDev, 1, 2)[k] = NetDev[k]
    <2>1. NetDev \in Seq(S) BY <1>2, <1>3
    <2>2. QED BY <2>1, <1>6
  <1>8. Len(NetDev[1].fields) \in 0 .. 8 /\ Len(NetDev[2].fields) \in 0 .. 8 BY <1>4, <1>6
  <1>9. \A k \in 1 .. n : NetDev[2 + k] = LineOf(ports[k]) BY <1>5, <1>6
  <1>10. NetDevHas(n, ports) BY <1>1, <1>6, <1>7, <1>8, <1>9 DEF NetDevHas
  <1>11. QED BY <1>1, <1>10

Fits(line) == ~Contains(line.fields, Odd) /\ Len(line.fields) >= 9

(* The counters from lines of which no two that fit are of one interface.  *)
LEMMA ParsedLines ==
  ASSUME NEW dev, DOMAIN dev \subseteq Int,
         \A i, j \in DOMAIN dev : Fits(dev[i]) /\ Fits(dev[j]) /\ dev[i].word = dev[j].word => i = j
  PROVE  /\ DOMAIN ParseNetDev(dev) = {dev[i].word : i \in {j \in DOMAIN dev : Fits(dev[j])}}
         /\ \A i \in DOMAIN dev : Fits(dev[i]) =>
              ParseNetDev(dev)[dev[i].word]
                = [rx |-> dev[i].fields[1], tx |-> dev[i].fields[9]]
  <1> DEFINE lines == {i \in DOMAIN dev : Fits(dev[i])}
             at(name) == Max({i \in lines : dev[i].word = name})
  <1>1. ParseNetDev(dev)
          = [name \in {dev[i].word : i \in lines} |->
              [rx |-> dev[at(name)].fields[1], tx |-> dev[at(name)].fields[9]]]
    BY DEF ParseNetDev, Fits
  <1>2. ASSUME NEW i \in DOMAIN dev, Fits(dev[i]) PROVE at(dev[i].word) = i
    <2> DEFINE S == {j \in lines : dev[j].word = dev[i].word}
    <2>1. i \in S /\ S \subseteq Int /\ \A j \in S : j = i BY <1>2
    <2> HIDE DEF S
    <2>2. \A j \in S : j <= i BY <2>1
    <2>3. Max(S) = i BY <2>1, <2>2, MaxIs
    <2>4. QED BY <2>3 DEF S
  <1>3. \A i \in DOMAIN dev : Fits(dev[i]) => dev[i].word \in {dev[j].word : j \in lines} OBVIOUS
  <1> HIDE DEF at
  <1>4. QED BY <1>1, <1>2, <1>3

(* A file that is fine gives the counters of each interface that is there. *)
LEMMA NetDevIs ==
  ASSUME MachineOK
  PROVE  /\ DOMAIN ParseNetDev(NetDev) = Present
         /\ \A p \in Present : ParseNetDev(NetDev)[p] = [rx |-> net[p], tx |-> 2 * net[p]]
         /\ DOMAIN ParseNetDev(SubSeq(NetDev, 1, 2)) = {}
  <1>1. PICK n \in Nat : \E ports \in [1 .. n -> Present] : NetDevHas(n, ports)
    BY LinesOfNetDev
  <1>2. PICK ports \in [1 .. n -> Present] : NetDevHas(n, ports) BY <1>1
  <1>3. /\ DOMAIN NetDev = 1 .. 2 + n
        /\ Len(NetDev[1].fields) \in 0 .. 8 /\ Len(NetDev[2].fields) \in 0 .. 8
        /\ \A k \in 1 .. n : NetDev[2 + k] = LineOf(ports[k])
        /\ \A k, l \in 1 .. n : ports[k] = ports[l] => k = l
        /\ \A p \in Present : \E k \in 1 .. n : ports[k] = p
        /\ DOMAIN SubSeq(NetDev, 1, 2) = 1 .. 2
        /\ \A k \in 1 .. 2 : SubSeq(NetDev, 1, 2)[k] = NetDev[k]
    BY <1>2 DEF NetDevHas
  <1>4. ~Fits(NetDev[1]) /\ ~Fits(NetDev[2])
    <2>1. \A l \in 0 .. 8 : ~(l >= 9) OBVIOUS
    <2>2. ~(Len(NetDev[1].fields) >= 9) /\ ~(Len(NetDev[2].fields) >= 9) BY <1>3, <2>1
    <2>3. QED BY <2>2 DEF Fits
  <1>5. ASSUME NEW p \in Present
        PROVE  /\ Fits(LineOf(p)) /\ LineOf(p).word = p
               /\ LineOf(p).fields[1] = net[p] /\ LineOf(p).fields[9] = 2 * net[p]
    <2> DEFINE f == <<net[p], 9, 9, 9, 9, 9, 9, 9, 2 * net[p], 9>>
    <2>1. net[p] \in Int /\ 2 * net[p] \in Int BY <1>5 DEF MachineOK, Present
    <2>2. Len(f) = 10 /\ \A k \in 1 .. 10 : f[k] \in Int BY <2>1
    <2>3. f[1] = net[p] /\ f[9] = 2 * net[p] OBVIOUS
    <2> HIDE DEF f
    <2>4. ~Contains(f, Odd) /\ Len(f) >= 9
      <3>1. Len(f) >= 9 BY <2>2
      <3>2. Len(f) = 10 BY <2>2
      <3>3. \A k \in 1 .. 10 : f[k] # Odd BY <2>2, OddAssumption
      <3>4. ~Contains(f, Odd) BY <3>2, <3>3 DEF Contains
      <3>5. QED BY <3>1, <3>4
    <2>5. LineOf(p).fields = f /\ LineOf(p).word = p BY DEF LineOf, f
    <2>6. QED BY <2>3, <2>4, <2>5 DEF Fits
  <1>6. \A i \in DOMAIN NetDev : Fits(NetDev[i]) => \E k \in 1 .. n : i = 2 + k
    <2>1. ASSUME NEW i \in DOMAIN NetDev, i # 1, i # 2
          PROVE  i - 2 \in 1 .. n /\ i = 2 + (i - 2)
      BY <1>3, <2>1
    <2>2. ASSUME NEW i \in DOMAIN NetDev, Fits(NetDev[i]) PROVE \E k \in 1 .. n : i = 2 + k
      <3>1. i # 1 /\ i # 2 BY <1>4, <2>2
      <3>2. i - 2 \in 1 .. n /\ i = 2 + (i - 2) BY <2>1, <3>1
      <3>3. QED BY <3>2
    <2>3. QED BY <2>2
  <1>7. \A k \in 1 .. n : Fits(NetDev[2 + k]) /\ NetDev[2 + k].word = ports[k]
    BY <1>3, <1>5
  <1>8. \A i, j \in DOMAIN NetDev :
           Fits(NetDev[i]) /\ Fits(NetDev[j]) /\ NetDev[i].word = NetDev[j].word => i = j
    <2> SUFFICES ASSUME NEW i \in DOMAIN NetDev, NEW j \in DOMAIN NetDev,
                        Fits(NetDev[i]), Fits(NetDev[j]), NetDev[i].word = NetDev[j].word
                 PROVE  i = j
      OBVIOUS
    <2>1. PICK k \in 1 .. n : i = 2 + k BY <1>6
    <2>2. PICK l \in 1 .. n : j = 2 + l BY <1>6
    <2>3. NetDev[i].word = ports[k] /\ NetDev[j].word = ports[l] BY <1>7, <2>1, <2>2
    <2>4. k = l BY <2>3, <1>3
    <2>5. QED BY <2>1, <2>2, <2>4
  <1>9. DOMAIN NetDev \subseteq Int BY <1>3
  <1>10. {NetDev[i].word : i \in {j \in DOMAIN NetDev : Fits(NetDev[j])}} = Present
    <2>1. ASSUME NEW i \in DOMAIN NetDev, Fits(NetDev[i]) PROVE NetDev[i].word \in Present
      BY <2>1, <1>6, <1>7
    <2>2. ASSUME NEW p \in Present
          PROVE  \E i \in {j \in DOMAIN NetDev : Fits(NetDev[j])} : NetDev[i].word = p
      <3>1. PICK k \in 1 .. n : ports[k] = p BY <1>3
      <3>2. 2 + k \in DOMAIN NetDev BY <1>3
      <3>3. QED BY <3>1, <3>2, <1>7
    <2>3. QED BY <2>1, <2>2
  <1>11. ASSUME NEW p \in Present
        PROVE  ParseNetDev(NetDev)[p] = [rx |-> net[p], tx |-> 2 * net[p]]
    <2>1. PICK k \in 1 .. n : ports[k] = p BY <1>3
    <2>2. 2 + k \in DOMAIN NetDev /\ NetDev[2 + k] = LineOf(p) BY <1>3, <2>1
    <2> DEFINE i == 2 + k
    <2>3. i \in DOMAIN NetDev /\ NetDev[i] = LineOf(p) /\ Fits(NetDev[i]) BY <2>2, <1>5
    <2> HIDE DEF i
    <2>4. ParseNetDev(NetDev)[NetDev[i].word]
            = [rx |-> NetDev[i].fields[1], tx |-> NetDev[i].fields[9]]
      BY <2>3, <1>8, <1>9, ParsedLines
    <2>5. ParseNetDev(NetDev)[LineOf(p).word]
            = [rx |-> LineOf(p).fields[1], tx |-> LineOf(p).fields[9]]
      BY <2>3, <2>4
    <2>6. QED BY <2>5, <1>5
  <1>12. DOMAIN ParseNetDev(SubSeq(NetDev, 1, 2)) = {}
    <2> DEFINE dev == SubSeq(NetDev, 1, 2)
    <2>1. DOMAIN dev = 1 .. 2 /\ dev[1] = NetDev[1] /\ dev[2] = NetDev[2] BY <1>3
    <2> HIDE DEF dev
    <2>2. \A i \in DOMAIN dev : ~Fits(dev[i]) BY <2>1, <1>4
    <2>3. DOMAIN ParseNetDev(dev) = {dev[i].word : i \in {j \in DOMAIN dev : Fits(dev[j])}}
      <3>1. DOMAIN dev \subseteq Int BY <2>1
      <3>2. QED BY <2>2, <3>1, ParsedLines
    <2>4. DOMAIN ParseNetDev(dev) = {} BY <2>2, <2>3
    <2>5. QED BY <2>4 DEF dev
  <1>13. QED BY <1>8, <1>9, <1>10, <1>11, <1>12, ParsedLines

-----------------------------------------------------------------------------
(* /proc/meminfo and the files of one line.                                *)

MemoryKeys == {"MemTotal", "MemAvailable", "SwapTotal", "SwapFree"}

(* Each key has its line.                                                  *)
LEMMA LinesOfMemInfo ==
  /\ MemInfo \in Seq([word : MemoryKeys, fields : Seq(Int) \ {<< >>}])
  /\ \A key \in MemoryKeys : \E i \in DOMAIN MemInfo :
       \A j \in DOMAIN MemInfo : MemInfo[j].word = key <=> j = i
  BY MemInfoAssumption DEF MemoryKeys

(* The number after a key, as in ParseMemory.                              *)
Kib(meminfo, key) ==
  IF FirstOf(meminfo, key) = 0 THEN None ELSE ParseFirst(meminfo[FirstOf(meminfo, key)].fields)

(* ParseMemory, key by key.                                                *)
LEMMA MemoryIs ==
  ASSUME NEW meminfo
  PROVE  ParseMemory(meminfo) =
           IF None \in {Kib(meminfo, key) : key \in MemoryKeys} THEN None
           ELSE [used |->
                   SaturatingSub(Kib(meminfo, "MemTotal"), Kib(meminfo, "MemAvailable")) * 1024,
                 swap_used |->
                   SaturatingSub(Kib(meminfo, "SwapTotal"), Kib(meminfo, "SwapFree")) * 1024]
  <1>1. {Kib(meminfo, key) : key \in MemoryKeys}
          = {Kib(meminfo, "MemTotal"), Kib(meminfo, "MemAvailable"),
             Kib(meminfo, "SwapTotal"), Kib(meminfo, "SwapFree")}
    BY DEF MemoryKeys
  <1>2. QED BY <1>1 DEF ParseMemory, Kib

LEMMA NumberIsFirst ==
  ASSUME NEW n \in Int, NEW s, s # << >>, s[1] = n
  PROVE  ParseFirst(s) = n
  BY OddAssumption DEF ParseFirst

(* In a file that is fine, each key has a number.                          *)
LEMMA KibIsNumber ==
  ASSUME NEW key \in MemoryKeys
  PROVE  Kib(MemInfo, key) \in Int
  <1> DEFINE S == [word : MemoryKeys, fields : Seq(Int) \ {<< >>}]
  <1>1. PICK i \in DOMAIN MemInfo : \A j \in DOMAIN MemInfo : MemInfo[j].word = key <=> j = i
    BY LinesOfMemInfo
  <1>2. MemInfo \in Seq(S) BY LinesOfMemInfo
  <1>3. MemInfo[i] \in S /\ i \in Nat \ {0}
    <2> HIDE DEF S
    <2>1. QED BY <1>2
  <1>4. MemInfo[i].fields \in Seq(Int) /\ MemInfo[i].fields # << >> BY <1>3
  <1> HIDE DEF S
  <1>5. FirstOf(MemInfo, key) = i BY <1>1, <1>2, FirstOfIs
  <1>6. MemInfo[i].fields[1] \in Int BY <1>4
  <1>7. ParseFirst(MemInfo[i].fields) \in Int BY <1>4, <1>6, NumberIsFirst
  <1>8. QED BY <1>3, <1>5, <1>7 DEF Kib

(* A file that is fine has a reading.                                      *)
LEMMA MemoryIsRead ==
  ParseMemory(MemInfo) \in [used : Int, swap_used : Int] /\ ParseMemory(MemInfo) # None
  <1>1. ASSUME NEW a \in MemoryKeys, NEW b \in MemoryKeys
        PROVE  SaturatingSub(Kib(MemInfo, a), Kib(MemInfo, b)) * 1024 \in Int
    <2>1. Kib(MemInfo, a) \in Int /\ Kib(MemInfo, b) \in Int BY KibIsNumber
    <2>2. SaturatingSub(Kib(MemInfo, a), Kib(MemInfo, b)) \in Int BY <2>1 DEF SaturatingSub
    <2>3. QED BY <2>2
  <1>2. None \notin {Kib(MemInfo, key) : key \in MemoryKeys} BY KibIsNumber, NoneAssumption
  <1>3. /\ "MemTotal" \in MemoryKeys /\ "MemAvailable" \in MemoryKeys
        /\ "SwapTotal" \in MemoryKeys /\ "SwapFree" \in MemoryKeys
    BY DEF MemoryKeys
  <1>4. ParseMemory(MemInfo) \in [used : Int, swap_used : Int]
    BY <1>1, <1>2, <1>3, MemoryIs
  <1>5. QED BY <1>4, NoneAssumption

(* A file that a line of is missing has no number after its key.           *)
LEMMA MemoryIsNone ==
  ASSUME NEW i \in DOMAIN MemInfo
  PROVE  ParseMemory(RemoveAt(MemInfo, i)) = None
  <1> DEFINE S == [word : MemoryKeys, fields : Seq(Int) \ {<< >>}]
             n == Len(MemInfo)
             before == SubSeq(MemInfo, 1, i - 1)
             after == SubSeq(MemInfo, i + 1, n)
             key == MemInfo[i].word
  <1>1. MemInfo \in Seq(S) BY LinesOfMemInfo
  <1>2. DOMAIN MemInfo = 1 .. n /\ n \in Nat /\ i \in 1 .. n /\ MemInfo[i] \in S
    <2> HIDE DEF S
    <2>1. QED BY <1>1
  <1>3. key \in MemoryKeys BY <1>2
  <1>4. \A j \in DOMAIN MemInfo : MemInfo[j].word = key => j = i BY <1>3, LinesOfMemInfo
  <1> HIDE DEF S, key
  <1> DEFINE a == i - 1
             b == n - i
  <1>5. a \in Nat /\ b \in Nat BY <1>2
  <1>6. before \in [1 .. a -> S] /\ \A k \in 1 .. a : before[k] = MemInfo[k]
    <2> DEFINE zero == 0
    <2>1. /\ zero \in Nat /\ zero + a <= Len(MemInfo) /\ 1 = zero + 1 /\ i - 1 = zero + a
          /\ \A k \in 1 .. a : zero + k = k
      BY <1>2, <1>5
    <2>2. \A k \in 1 .. a : MemInfo[zero + k] = MemInfo[k] BY <2>1
    <2> DEFINE one == 1
               to == i - 1
    <2>3. one = zero + 1 /\ to = zero + a BY <2>1
    <2> HIDE DEF zero, a, one, to
    <2>4. /\ SubSeq(MemInfo, one, to) \in [1 .. a -> S]
          /\ \A k \in 1 .. a : SubSeq(MemInfo, one, to)[k] = MemInfo[zero + k]
      BY <1>1, <1>5, <2>1, <2>3, PartOf
    <2>5. before = SubSeq(MemInfo, one, to) BY DEF one, to
    <2>6. QED BY <2>2, <2>4, <2>5
  <1>7. after \in [1 .. b -> S] /\ \A k \in 1 .. b : after[k] = MemInfo[i + k]
    <2> DEFINE from == i + 1
               to == n
    <2>1. /\ from \in 1 .. Len(MemInfo) + 1 /\ to \in from - 1 .. Len(MemInfo)
          /\ to - from + 1 = b
      BY <1>2
    <2>2. \A k \in 1 .. b : from + k - 1 = i + k BY <1>2, <1>5
    <2> HIDE DEF b, from, to
    <2>3. /\ SubSeq(MemInfo, from, to) \in Seq(S) /\ Len(SubSeq(MemInfo, from, to)) = b
          /\ \A k \in 1 .. b : SubSeq(MemInfo, from, to)[k] = MemInfo[from + k - 1]
      BY <1>1, <2>1, SubSeqProperties
    <2>4. after = SubSeq(MemInfo, from, to) BY DEF from, to
    <2> HIDE DEF after
    <2>5. after \in Seq(S) /\ Len(after) = b /\ \A k \in 1 .. b : after[k] = MemInfo[i + k]
      BY <2>2, <2>3, <2>4
    <2>6. QED BY <2>5
  <1>8. \A k \in 1 .. a : before[k].word # key
    <2>1. \A k \in 1 .. a : k \in 1 .. n /\ k # i BY <1>2
    <2>2. QED BY <2>1, <1>2, <1>4, <1>6
  <1>9. \A k \in 1 .. b : after[k].word # key
    <2>1. \A k \in 1 .. b : i + k \in 1 .. n /\ i + k # i BY <1>2
    <2>2. QED BY <2>1, <1>2, <1>4, <1>7
  <1> DEFINE rest == RemoveAt(MemInfo, i)
  <1>10. rest = before \o after BY DEF RemoveAt
  <1> HIDE DEF before, after, a, b, rest
  <1>11. /\ Len(rest) = a + b
         /\ \A k \in 1 .. a : rest[k] = before[k]
         /\ \A k \in 1 .. b : rest[a + k] = after[k]
    <2> DEFINE all == before \o after
    <2>1. /\ Len(all) = a + b
          /\ \A k \in 1 .. a : all[k] = before[k]
          /\ \A k \in 1 .. b : all[a + k] = after[k]
      BY <1>5, <1>6, <1>7, Concatenated
    <2> HIDE DEF all
    <2>2. rest = all BY <1>10 DEF all
    <2>3. QED BY <2>1, <2>2
  <1>12. ASSUME NEW j \in 1 .. Len(rest) PROVE rest[j].word # key
    <2>1. j \in 1 .. a \/ (j - a \in 1 .. b /\ j = a + (j - a)) BY <1>5, <1>11
    <2>2. QED BY <2>1, <1>8, <1>9, <1>11
  <1>13. FirstOf(rest, key) = 0 BY <1>12, FirstOfNone
  <1>14. Kib(rest, key) = None BY <1>13 DEF Kib
  <1>15. ParseMemory(rest) = None BY <1>3, <1>14, MemoryIs DEF key
  <1>16. QED BY <1>15 DEF rest

-----------------------------------------------------------------------------
(* What a turn reads, when the files in `fine` are fine.                   *)
LEMMA ReadingsAre ==
  ASSUME MachineOK, NEW fine, NEW now \in Readings(fine)
  PROVE  /\ now.cpu = IF "stat" \in fine
                      THEN [busy |-> cpu.busy, total |-> cpu.busy + cpu.idle + cpu.iowait]
                      ELSE None
         /\ now.load1 = IF "loadavg" \in fine THEN Load ELSE None
         /\ now.memory = IF "meminfo" \in fine THEN ParseMemory(MemInfo) ELSE None
         /\ now.temperature = IF "temp" \in fine THEN Temperature ELSE None
         /\ DOMAIN now.net = IF "net" \in fine THEN Present ELSE {}
         /\ \A p \in DOMAIN now.net : now.net[p] = [rx |-> net[p], tx |-> 2 * net[p]]
  <1>1. now.cpu = IF "stat" \in fine
                  THEN [busy |-> cpu.busy, total |-> cpu.busy + cpu.idle + cpu.iowait]
                  ELSE None
    BY StatIs, OddStatsAreNone DEF Readings
  <1>2. ParseFirst(<<Odd>>) = None /\ ParseFirst(<< >>) = None BY DEF ParseFirst
  <1>3. ParseFirst(<<Load, 0>>) = Load /\ ParseFirst(<<Temperature>>) = Temperature
    <2>1. <<Load, 0>> # << >> /\ <<Load, 0>>[1] = Load OBVIOUS
    <2>2. <<Temperature>> # << >> /\ <<Temperature>>[1] = Temperature OBVIOUS
    <2>3. QED BY <2>1, <2>2, GaugesAssumption, NumberIsFirst
  <1>4. now.load1 = IF "loadavg" \in fine THEN Load ELSE None BY <1>2, <1>3 DEF Readings
  <1>5. now.temperature = IF "temp" \in fine THEN Temperature ELSE None
    BY <1>2, <1>3 DEF Readings
  <1>6. now.memory = IF "meminfo" \in fine THEN ParseMemory(MemInfo) ELSE None
    BY MemoryIsNone DEF Readings
  <1>7. /\ DOMAIN now.net = IF "net" \in fine THEN Present ELSE {}
        /\ \A p \in DOMAIN now.net : now.net[p] = [rx |-> net[p], tx |-> 2 * net[p]]
    <2>1. CASE "net" \in fine
      <3>1. now.net = ParseNetDev(NetDev) BY <2>1 DEF Readings
      <3>2. QED BY <2>1, <3>1, NetDevIs
    <2>2. CASE "net" \notin fine
      <3>1. now.net = ParseNetDev(SubSeq(NetDev, 1, 2)) \/ now.net = << >>
        BY <2>2 DEF Readings
      <3>2. DOMAIN << >> = {} OBVIOUS
      <3>3. DOMAIN now.net = {} BY <3>1, <3>2, NetDevIs
      <3>4. QED BY <2>2, <3>3
    <2>3. QED BY <2>1, <2>2
  <1>8. QED BY <1>1, <1>4, <1>5, <1>6, <1>7

-----------------------------------------------------------------------------
(* Places in a row.                                                        *)

Width == 5 + 2 * Len(Interfaces)

Five == 1 .. 5

Pairs == 1 .. 2 * Len(Interfaces)

(* What is twice as long as the interfaces, after five others.             *)
Placed(all, five, u) ==
  /\ DOMAIN all = 1 .. Width /\ Len(all) = Width
  /\ \A k \in Five : all[k] = five[k]
  /\ \A j \in DOMAIN Interfaces :
       /\ 4 + 2 * j \in 1 .. Width /\ 5 + 2 * j \in 1 .. Width
       /\ 2 * j - 1 \in Pairs /\ 2 * j \in Pairs
       /\ all[4 + 2 * j] = u[2 * j - 1]
       /\ all[5 + 2 * j] = u[2 * j]

LEMMA TwoForEach ==
  ASSUME NEW S, NEW five \in [Five -> S], NEW u \in [Pairs -> S]
  PROVE  Placed(five \o u, five, u)
  <1> DEFINE n == Len(Interfaces)
             m == 5
             w == 2 * n
             all == five \o u
  <1>1. n \in Nat /\ DOMAIN Interfaces = 1 .. n BY NamesAssumption
  <1>2. m \in Nat /\ w \in Nat /\ m + w = Width BY <1>1 DEF Width
  <1>3. five \in [1 .. m -> S] /\ u \in [1 .. w -> S] BY DEF Five, Pairs
  <1>4. ASSUME NEW j \in 1 .. n
        PROVE  /\ 4 + 2 * j = m + (2 * j - 1) /\ 5 + 2 * j = m + 2 * j
               /\ 2 * j - 1 \in 1 .. w /\ 2 * j \in 1 .. w
               /\ 4 + 2 * j \in 1 .. Width /\ 5 + 2 * j \in 1 .. Width
    BY <1>1 DEF Width
  <1>5. \A k \in Five : k \in 1 .. m BY DEF Five
  <1> HIDE DEF m, w
  <1>6. /\ DOMAIN all = 1 .. m + w /\ Len(all) = m + w
        /\ \A k \in 1 .. m : all[k] = five[k]
        /\ \A k \in 1 .. w : all[m + k] = u[k]
    BY <1>2, <1>3, Concatenated
  <1> HIDE DEF all
  <1>7. ASSUME NEW j \in 1 .. n
        PROVE  all[4 + 2 * j] = u[2 * j - 1] /\ all[5 + 2 * j] = u[2 * j]
    BY <1>4, <1>6
  <1>8. \A k \in Five : all[k] = five[k] BY <1>5, <1>6
  <1>9. DOMAIN all = 1 .. Width /\ Len(all) = Width BY <1>2, <1>6
  <1>10. Placed(all, five, u) BY <1>1, <1>4, <1>7, <1>8, <1>9 DEF Placed, w, Pairs
  <1>11. QED BY <1>10 DEF all

(* Half of an odd or even place.                                           *)
LEMMA Halves ==
  ASSUME NEW j \in Nat
  PROVE  /\ ((2 * j - 1) + 1) \div 2 = j /\ (2 * j - 1) % 2 = 1
         /\ (2 * j + 1) \div 2 = j /\ (2 * j) % 2 = 0
  OBVIOUS

(* Where the schema has its names.                                         *)
LEMMA SchemaPlaces ==
  /\ DOMAIN Schema = 1 .. Width /\ Len(Schema) = Width
  /\ \A k \in Five : Schema[k] = Fixed[k]
  /\ \A j \in DOMAIN Interfaces :
       /\ 4 + 2 * j \in 1 .. Width /\ 5 + 2 * j \in 1 .. Width
       /\ Schema[4 + 2 * j] = RxName(Interfaces[j])
       /\ Schema[5 + 2 * j] = TxName(Interfaces[j])
  <1> DEFINE names == [k \in Pairs |->
                        LET interface == Interfaces[(k + 1) \div 2]
                        IN  IF k % 2 = 1 THEN RxName(interface) ELSE TxName(interface)]
             S == {Fixed[k] : k \in Five} \cup {names[k] : k \in Pairs}
  <1>1. Fixed \in [Five -> S] BY DEF Fixed, Five
  <1>2. names \in [Pairs -> S]
    <2>1. names = [k \in Pairs |-> names[k]] BY DEF Pairs
    <2>2. ASSUME NEW k \in Pairs PROVE names[k] \in S
      <3> HIDE DEF names
      <3>1. QED OBVIOUS
    <2> HIDE DEF names, S
    <2>3. QED BY <2>1, <2>2
  <1>3. Schema = Fixed \o names BY DEF Schema, SchemaOf, Pairs
  <1>4. ASSUME NEW j \in DOMAIN Interfaces,
               2 * j - 1 \in Pairs, 2 * j \in Pairs
        PROVE  names[2 * j - 1] = RxName(Interfaces[j]) /\ names[2 * j] = TxName(Interfaces[j])
    <2>1. j \in Nat BY NamesAssumption
    <2>2. ASSUME NEW k \in Pairs, (k + 1) \div 2 = j
          PROVE  /\ k % 2 = 1 => names[k] = RxName(Interfaces[j])
                 /\ k % 2 = 0 => names[k] = TxName(Interfaces[j])
      BY <2>2 DEF Pairs
    <2> HIDE DEF names
    <2>3. QED BY <2>1, <2>2, <1>4, Halves
  <1> HIDE DEF names, S
  <1>5. Placed(Schema, Fixed, names) BY <1>1, <1>2, <1>3, TwoForEach
  <1>6. QED BY <1>4, <1>5 DEF Placed

PlaceOf(name) == CHOOSE i \in DOMAIN Schema : Schema[i] = name

LEMMA PlaceIs ==
  ASSUME NEW k \in 1 .. Width
  PROVE  PlaceOf(Schema[k]) = k
  <1>1. k \in DOMAIN Schema BY SchemaPlaces
  <1>2. \A i \in DOMAIN Schema : Schema[i] = Schema[k] => i = k
    BY <1>1, NamesAssumption DEF Schema
  <1>3. QED BY <1>1, <1>2 DEF PlaceOf

(* The names of the schema stand for the places that a row is made by.     *)
LEMMA NamesStandFor ==
  /\ PlaceOf("cpu_percent") = 1 /\ PlaceOf("load1") = 2 /\ PlaceOf("mem_used_bytes") = 3
  /\ PlaceOf("swap_used_bytes") = 4 /\ PlaceOf("cpu_temp_celsius") = 5
  /\ \A j \in DOMAIN Interfaces :
       /\ PlaceOf(RxName(Interfaces[j])) = 4 + 2 * j
       /\ PlaceOf(TxName(Interfaces[j])) = 5 + 2 * j
  <1>1. \A k \in Five : k \in 1 .. Width
    <2>1. Len(Interfaces) \in Nat BY NamesAssumption
    <2>2. QED BY <2>1 DEF Width, Five
  <1>2. 1 \in Five /\ 2 \in Five /\ 3 \in Five /\ 4 \in Five /\ 5 \in Five BY DEF Five
  <1>3. /\ Schema[1] = "cpu_percent" /\ Schema[2] = "load1" /\ Schema[3] = "mem_used_bytes"
        /\ Schema[4] = "swap_used_bytes" /\ Schema[5] = "cpu_temp_celsius"
    <2>1. /\ Schema[1] = Fixed[1] /\ Schema[2] = Fixed[2] /\ Schema[3] = Fixed[3]
          /\ Schema[4] = Fixed[4] /\ Schema[5] = Fixed[5]
      BY <1>2, SchemaPlaces
    <2>2. QED BY <2>1 DEF Fixed
  <1>4. /\ PlaceOf(Schema[1]) = 1 /\ PlaceOf(Schema[2]) = 2 /\ PlaceOf(Schema[3]) = 3
        /\ PlaceOf(Schema[4]) = 4 /\ PlaceOf(Schema[5]) = 5
    BY <1>1, <1>2, PlaceIs
  <1>5. ASSUME NEW j \in DOMAIN Interfaces
        PROVE  /\ PlaceOf(RxName(Interfaces[j])) = 4 + 2 * j
               /\ PlaceOf(TxName(Interfaces[j])) = 5 + 2 * j
    <2> DEFINE rx == 4 + 2 * j
               tx == 5 + 2 * j
    <2>1. /\ rx \in 1 .. Width /\ tx \in 1 .. Width
          /\ Schema[rx] = RxName(Interfaces[j]) /\ Schema[tx] = TxName(Interfaces[j])
      BY SchemaPlaces
    <2> HIDE DEF rx, tx
    <2>2. PlaceOf(Schema[rx]) = rx /\ PlaceOf(Schema[tx]) = tx BY <2>1, PlaceIs
    <2>3. QED BY <2>1, <2>2 DEF rx, tx
  <1>6. QED BY <1>3, <1>4, <1>5

RateOf(now, interface, direction) ==
  Rate(Counter(previous, interface, direction), Counter(now, interface, direction))

(* A row has its values in the same places.                                *)
LEMMA RowPlaces ==
  ASSUME NEW now
  PROVE  /\ DOMAIN RowOf(now) = 1 .. Width /\ Len(RowOf(now)) = Width
         /\ RowOf(now)[1] = CpuPercent(previous.cpu, now.cpu)
         /\ RowOf(now)[2] = now.load1
         /\ RowOf(now)[3] = IF now.memory = None THEN None ELSE now.memory.used
         /\ RowOf(now)[4] = IF now.memory = None THEN None ELSE now.memory.swap_used
         /\ RowOf(now)[5] = now.temperature
         /\ \A j \in DOMAIN Interfaces :
              /\ RowOf(now)[4 + 2 * j] = RateOf(now, Interfaces[j], "rx")
              /\ RowOf(now)[5 + 2 * j] = RateOf(now, Interfaces[j], "tx")
  <1> DEFINE first == <<CpuPercent(previous.cpu, now.cpu), now.load1,
                        IF now.memory = None THEN None ELSE now.memory.used,
                        IF now.memory = None THEN None ELSE now.memory.swap_used,
                        now.temperature>>
             rates == RatesOf(now)
             S == {first[k] : k \in Five} \cup {rates[k] : k \in Pairs}
  <1>1. /\ first[1] = CpuPercent(previous.cpu, now.cpu)
        /\ first[2] = now.load1
        /\ first[3] = IF now.memory = None THEN None ELSE now.memory.used
        /\ first[4] = IF now.memory = None THEN None ELSE now.memory.swap_used
        /\ first[5] = now.temperature
    OBVIOUS
  <1>2. RowOf(now) = first \o rates BY DEF RowOf
  <1>3. DOMAIN first = Five BY DEF Five
  <1>4. rates = [k \in Pairs |->
                  RateOf(now, Interfaces[(k + 1) \div 2], IF k % 2 = 1 THEN "rx" ELSE "tx")]
    BY DEF RatesOf, RateOf, Pairs
  <1>5. ASSUME NEW j \in DOMAIN Interfaces,
               2 * j - 1 \in Pairs, 2 * j \in Pairs
        PROVE  /\ rates[2 * j - 1] = RateOf(now, Interfaces[j], "rx")
               /\ rates[2 * j] = RateOf(now, Interfaces[j], "tx")
    <2>1. j \in Nat BY NamesAssumption
    <2> HIDE DEF rates
    <2>2. ASSUME NEW k \in Pairs, (k + 1) \div 2 = j
          PROVE  /\ k % 2 = 1 => rates[k] = RateOf(now, Interfaces[j], "rx")
                 /\ k % 2 = 0 => rates[k] = RateOf(now, Interfaces[j], "tx")
      BY <2>2, <1>4 DEF Pairs
    <2>3. QED BY <2>1, <2>2, <1>5, Halves
  <1>6. first \in [Five -> S]
    <2> HIDE DEF rates
    <2>1. QED BY <1>3
  <1>7. rates \in [Pairs -> S]
    <2> HIDE DEF rates, first
    <2>1. QED BY <1>4 DEF Pairs
  <1> HIDE DEF first, rates, S
  <1>8. 1 \in Five /\ 2 \in Five /\ 3 \in Five /\ 4 \in Five /\ 5 \in Five BY DEF Five
  <1> DEFINE all == first \o rates
  <1>9. Placed(all, first, rates) BY <1>6, <1>7, TwoForEach
  <1> HIDE DEF all
  <1>10. RowOf(now) = all BY <1>2 DEF all
  <1>11. /\ DOMAIN all = 1 .. Width /\ Len(all) = Width
         /\ all[1] = first[1] /\ all[2] = first[2] /\ all[3] = first[3]
         /\ all[4] = first[4] /\ all[5] = first[5]
    BY <1>8, <1>9 DEF Placed
  <1>12. \A j \in DOMAIN Interfaces :
           /\ all[4 + 2 * j] = RateOf(now, Interfaces[j], "rx")
           /\ all[5 + 2 * j] = RateOf(now, Interfaces[j], "tx")
    BY <1>5, <1>9 DEF Placed
  <1>13. QED BY <1>1, <1>10, <1>11, <1>12

-----------------------------------------------------------------------------
(* The invariant: what was read at the last turn is what is there now but  *)
(* for what has happened since.                                            *)

TypeOK ==
  /\ MachineOK /\ elapsed \in Nat
  /\ since \in [bytes : [Ports -> Nat], gone : SUBSET Ports, busy : Nat, idle : Nat,
                back : BOOLEAN, over : Nat,
                read : SUBSET UNION Readable, before : SUBSET UNION Readable]

TicksSince ==
  previous.cpu # None =>
    /\ previous.cpu \in [busy : Nat, total : Nat]
    /\ cpu.busy = previous.cpu.busy + since.busy
    /\ ~since.back => cpu.busy + cpu.idle + cpu.iowait
                        = previous.cpu.total + since.busy + since.idle

(* A counter that came back from 0 has no more than what came since.       *)
BytesSince ==
  /\ DOMAIN previous.net \subseteq Ports
  /\ \A i \in DOMAIN previous.net :
       /\ previous.net[i].rx \in Nat /\ previous.net[i].tx = 2 * previous.net[i].rx
       /\ i \notin since.gone => net[i] # None /\ net[i] = previous.net[i].rx + since.bytes[i]
       /\ i \in since.gone /\ net[i] # None => net[i] <= since.bytes[i]

(* What the last turn could read and did not is not there.                 *)
ReadUnlessGone ==
  \A i \in Ports \ since.gone :
    /\ "net" \in since.before /\ net[i] # None => i \in DOMAIN previous.net
    /\ since.bytes[i] > 0 => net[i] # None

IInv == TypeOK /\ elapsed = since.over /\ TicksSince /\ BytesSince /\ ReadUnlessGone

Properties == RatesAreTrue /\ GapsHaveACause /\ CpuIsTheBusyShare /\ RowFitsSchema

(* It holds at first, as nothing has been read.                            *)
LEMMA InitIInv == Init => IInv /\ Properties
  <1> SUFFICES ASSUME Init PROVE IInv /\ Properties OBVIOUS
  <1> USE DEF Init
  <1>1. TypeOK
    <2>1. 0 \in Nat /\ net \in [Ports -> Nat \cup {None}] OBVIOUS
    <2>2. QED BY <2>1 DEF TypeOK, MachineOK, Quiet
  <1>2. TicksSince /\ elapsed = since.over BY DEF TicksSince, Unread, Quiet
  <1>3. BytesSince
    <2>1. DOMAIN previous.net = {} BY DEF Unread
    <2>2. QED BY <2>1 DEF BytesSince
  <1>4. ReadUnlessGone BY DEF ReadUnlessGone, Quiet
  <1>5. Properties
    BY DEF Properties, Made, RatesAreTrue, GapsHaveACause, CpuIsTheBusyShare, RowFitsSchema
  <1>6. QED BY <1>1, <1>2, <1>3, <1>4, <1>5 DEF IInv

(* Nothing is said until a row is made.                                    *)
LEMMA NoRow ==
  ASSUME row' = << >>
  PROVE  Properties'
  BY DEF Properties, Made, RatesAreTrue, GapsHaveACause, CpuIsTheBusyShare, RowFitsSchema

-----------------------------------------------------------------------------
(* What happens to the machine.                                            *)

(* A byte is added to the counter and to what came since.                  *)
LEMMA TrafficKeeps ==
  ASSUME IInv, NEW i \in Ports, Traffic(i)
  PROVE  IInv' /\ row' = << >>
  <1> USE DEF IInv, Traffic, Happens
  <1>1. net[i] \in Nat /\ net[i] # None BY DEF TypeOK, MachineOK
  <1>2. since.bytes[i] \in Nat BY DEF TypeOK
  <1>3. net' = [net EXCEPT ![i] = net[i] + 1] /\ net' \in [Ports -> Nat \cup {None}]
    BY <1>1 DEF TypeOK, MachineOK
  <1>4. /\ since' = [since EXCEPT !.bytes = [since.bytes EXCEPT ![i] = since.bytes[i] + 1]]
        /\ [since.bytes EXCEPT ![i] = since.bytes[i] + 1] \in [Ports -> Nat]
    BY <1>2 DEF TypeOK
  <1>5. TypeOK' BY <1>3, <1>4 DEF TypeOK, MachineOK
  <1>6. /\ since'.busy = since.busy /\ since'.idle = since.idle /\ since'.back = since.back
        /\ since'.over = since.over /\ since'.gone = since.gone /\ since'.before = since.before
        /\ since'.bytes = [since.bytes EXCEPT ![i] = since.bytes[i] + 1]
    BY <1>4 DEF TypeOK
  <1>7. TicksSince' /\ elapsed' = since'.over BY <1>6 DEF TicksSince
  <1>8. /\ net[i] + 1 \in Nat /\ net[i] + 1 # None
        /\ \A p \in Ports \ {i} : net'[p] = net[p] /\ since'.bytes[p] = since.bytes[p]
        /\ net'[i] = net[i] + 1 /\ since'.bytes[i] = since.bytes[i] + 1
    BY <1>1, <1>3, <1>6, NoneAssumption DEF TypeOK, MachineOK
  <1>9. BytesSince'
    <2> SUFFICES ASSUME NEW p \in DOMAIN previous.net
                 PROVE  /\ p \notin since.gone =>
                             net'[p] # None /\ net'[p] = previous.net[p].rx + since'.bytes[p]
                        /\ p \in since.gone /\ net'[p] # None => net'[p] <= since'.bytes[p]
      BY <1>6 DEF BytesSince
    <2>1. CASE p # i BY <2>1, <1>8 DEF BytesSince
    <2>2. CASE p = i
      <3> DEFINE rx == previous.net[i].rx
      <3>1. /\ rx \in Nat
            /\ i \notin since.gone => net[i] = rx + since.bytes[i]
            /\ i \in since.gone => net[i] <= since.bytes[i]
        BY <2>2, <1>1 DEF BytesSince
      <3> HIDE DEF rx
      <3>2. i \notin since.gone => net[i] + 1 = rx + (since.bytes[i] + 1)
        BY <3>1, <1>1, <1>2
      <3>3. i \in since.gone => net[i] + 1 <= since.bytes[i] + 1
        BY <3>1, <1>1, <1>2
      <3>4. QED BY <2>2, <3>2, <3>3, <1>8 DEF rx
    <2>3. QED BY <2>1, <2>2
  <1>10. ReadUnlessGone'
    <2> SUFFICES ASSUME NEW p \in Ports \ since.gone
                 PROVE  /\ "net" \in since.before /\ net'[p] # None => p \in DOMAIN previous.net
                        /\ since'.bytes[p] > 0 => net'[p] # None
      BY <1>6 DEF ReadUnlessGone
    <2>1. CASE p # i BY <2>1, <1>8 DEF ReadUnlessGone
    <2>2. CASE p = i BY <2>2, <1>1, <1>8 DEF ReadUnlessGone
    <2>3. QED BY <2>1, <2>2
  <1>11. QED BY <1>5, <1>7, <1>9, <1>10

(* An interface that goes or comes is among those that did.                *)
LEMMA MovesKeep ==
  ASSUME IInv, NEW i \in Ports, GoesAway(i) \/ ComesBack(i)
  PROVE  IInv' /\ row' = << >>
  <1> USE DEF IInv, GoesAway, ComesBack, Happens
  <1>1. PICK to \in {0, None} : net' = [net EXCEPT ![i] = to] OBVIOUS
  <1>2. 0 \in Nat /\ net' \in [Ports -> Nat \cup {None}] BY <1>1 DEF TypeOK, MachineOK
  <1>3. since' = [since EXCEPT !.gone = since.gone \union {i}] OBVIOUS
  <1>4. TypeOK' BY <1>2, <1>3 DEF TypeOK, MachineOK
  <1>5. /\ since'.busy = since.busy /\ since'.idle = since.idle /\ since'.back = since.back
        /\ since'.over = since.over /\ since'.gone = since.gone \union {i}
        /\ since'.before = since.before /\ since'.bytes = since.bytes
    BY <1>3 DEF TypeOK
  <1>6. TicksSince' /\ elapsed' = since'.over BY <1>5 DEF TicksSince
  <1>7. /\ \A p \in Ports \ {i} : net'[p] = net[p]
        /\ net'[i] = to
    BY <1>1 DEF TypeOK, MachineOK
  <1>8. BytesSince'
    <2> SUFFICES ASSUME NEW p \in DOMAIN previous.net
                 PROVE  /\ p \notin since'.gone =>
                             net'[p] # None /\ net'[p] = previous.net[p].rx + since.bytes[p]
                        /\ p \in since'.gone /\ net'[p] # None => net'[p] <= since.bytes[p]
      BY <1>5 DEF BytesSince
    <2>1. CASE p # i BY <2>1, <1>5, <1>7 DEF BytesSince
    <2>2. CASE p = i
      <3>1. p \in since'.gone BY <2>2, <1>5
      <3>2. since.bytes[p] \in Nat BY <2>2 DEF TypeOK
      <3>3. net'[p] # None => net'[p] = 0 BY <2>2, <1>7
      <3>4. QED BY <3>1, <3>2, <3>3
    <2>3. QED BY <2>1, <2>2
  <1>9. ReadUnlessGone' BY <1>5, <1>7 DEF ReadUnlessGone
  <1>10. QED BY <1>4, <1>6, <1>8, <1>9

(* A tick is added to the processor's and to those since.                  *)
LEMMA TicksKeep ==
  ASSUME IInv,
         Works(0) \/ Works(1) \/ Idles("idle") \/ Idles("iowait") \/ IowaitGoesBack
  PROVE  IInv' /\ row' = << >>
  <1> USE DEF IInv, Happens
  <1>1. /\ cpu.busy \in Nat /\ cpu.guest \in Nat /\ cpu.idle \in Nat /\ cpu.iowait \in Nat
        /\ since.busy \in Nat /\ since.idle \in Nat
    BY DEF TypeOK, MachineOK
  <1>2. UNCHANGED <<net, elapsed, previous>> /\ row' = << >>
    BY DEF Works, Idles, IowaitGoesBack
  <1>3. /\ TypeOK' /\ TicksSince'
        /\ since'.bytes = since.bytes /\ since'.gone = since.gone
        /\ since'.over = since.over /\ since'.before = since.before
    <2>1. CASE Works(0) \/ Works(1)
      <3>1. PICK guests \in {0, 1} :
              /\ cpu' = [cpu EXCEPT !.busy = cpu.busy + 1, !.guest = cpu.guest + guests]
              /\ since' = [since EXCEPT !.busy = since.busy + 1]
        BY <2>1 DEF Works
      <3>2. cpu.busy + 1 \in Nat /\ cpu.guest + guests \in Nat /\ since.busy + 1 \in Nat
        BY <1>1
      <3>3. TypeOK' BY <1>2, <3>1, <3>2 DEF TypeOK, MachineOK
      <3>4. /\ cpu'.busy = cpu.busy + 1 /\ cpu'.idle = cpu.idle /\ cpu'.iowait = cpu.iowait
            /\ since'.busy = since.busy + 1 /\ since'.idle = since.idle /\ since'.back = since.back
            /\ since'.bytes = since.bytes /\ since'.gone = since.gone
            /\ since'.over = since.over /\ since'.before = since.before
        BY <3>1 DEF TypeOK, MachineOK
      <3>5. ASSUME previous.cpu # None
            PROVE  /\ previous.cpu \in [busy : Nat, total : Nat]
                   /\ cpu'.busy = previous.cpu.busy + since'.busy
                   /\ ~since'.back => cpu'.busy + cpu'.idle + cpu'.iowait
                                        = previous.cpu.total + since'.busy + since'.idle
        <4>1. /\ previous.cpu \in [busy : Nat, total : Nat]
              /\ cpu.busy = previous.cpu.busy + since.busy
              /\ ~since.back => cpu.busy + cpu.idle + cpu.iowait
                                  = previous.cpu.total + since.busy + since.idle
          BY <3>5 DEF TicksSince
        <4>2. previous.cpu.busy \in Nat /\ previous.cpu.total \in Nat BY <4>1
        <4>3. QED BY <4>1, <4>2, <1>1, <3>4
      <3>6. TicksSince' BY <1>2, <3>5 DEF TicksSince
      <3>7. QED BY <3>3, <3>4, <3>6
    <2>2. CASE Idles("idle") \/ Idles("iowait")
      <3>1. PICK field \in {"idle", "iowait"} :
              /\ cpu' = [cpu EXCEPT ![field] = cpu[field] + 1]
              /\ since' = [since EXCEPT !.idle = since.idle + 1]
        BY <2>2 DEF Idles
      <3>2. cpu.idle + 1 \in Nat /\ cpu.iowait + 1 \in Nat /\ since.idle + 1 \in Nat
        BY <1>1
      <3>3. \/ cpu' = [cpu EXCEPT !.idle = cpu.idle + 1]
            \/ cpu' = [cpu EXCEPT !.iowait = cpu.iowait + 1]
        BY <3>1
      <3>4. TypeOK' BY <1>2, <3>1, <3>2, <3>3 DEF TypeOK, MachineOK
      <3>5. /\ cpu'.busy = cpu.busy
            /\ \/ cpu'.idle = cpu.idle + 1 /\ cpu'.iowait = cpu.iowait
               \/ cpu'.idle = cpu.idle /\ cpu'.iowait = cpu.iowait + 1
        BY <3>3 DEF TypeOK, MachineOK
      <3>6. /\ since'.busy = since.busy /\ since'.idle = since.idle + 1 /\ since'.back = since.back
            /\ since'.bytes = since.bytes /\ since'.gone = since.gone
            /\ since'.over = since.over /\ since'.before = since.before
        BY <3>1 DEF TypeOK
      <3>7. ASSUME previous.cpu # None
            PROVE  /\ previous.cpu \in [busy : Nat, total : Nat]
                   /\ cpu'.busy = previous.cpu.busy + since'.busy
                   /\ ~since'.back => cpu'.busy + cpu'.idle + cpu'.iowait
                                        = previous.cpu.total + since'.busy + since'.idle
        <4>1. /\ previous.cpu \in [busy : Nat, total : Nat]
              /\ cpu.busy = previous.cpu.busy + since.busy
              /\ ~since.back => cpu.busy + cpu.idle + cpu.iowait
                                  = previous.cpu.total + since.busy + since.idle
          BY <3>7 DEF TicksSince
        <4>2. previous.cpu.busy \in Nat /\ previous.cpu.total \in Nat BY <4>1
        <4>3. QED BY <4>1, <4>2, <1>1, <3>5, <3>6
      <3>8. TicksSince' BY <1>2, <3>7 DEF TicksSince
      <3>9. QED BY <3>4, <3>6, <3>8
    <2>3. CASE IowaitGoesBack
      <3>1. /\ cpu' = [cpu EXCEPT !.iowait = cpu.iowait - 1] /\ cpu.iowait - 1 \in Nat
            /\ since' = [since EXCEPT !.back = TRUE]
        BY <2>3, <1>1 DEF IowaitGoesBack
      <3>2. TypeOK' BY <1>2, <3>1 DEF TypeOK, MachineOK
      <3>3. /\ cpu'.busy = cpu.busy
            /\ since'.busy = since.busy /\ since'.back = TRUE
            /\ since'.bytes = since.bytes /\ since'.gone = since.gone
            /\ since'.over = since.over /\ since'.before = since.before
        BY <3>1 DEF TypeOK, MachineOK
      <3>4. TicksSince' BY <1>2, <3>3 DEF TicksSince
      <3>5. QED BY <3>2, <3>3, <3>4
    <2>4. QED BY <2>1, <2>2, <2>3
  <1>4. BytesSince' /\ ReadUnlessGone' BY <1>2, <1>3 DEF BytesSince, ReadUnlessGone
  <1>5. QED BY <1>2, <1>3, <1>4

(* Time is added to both clocks.                                           *)
LEMMA TimeKeeps ==
  ASSUME IInv, TimePasses
  PROVE  IInv' /\ row' = << >>
  <1> USE DEF IInv, TimePasses, Happens
  <1>1. /\ elapsed' = elapsed + 1 /\ elapsed + 1 \in Nat /\ since.over + 1 = elapsed + 1
        /\ since' = [since EXCEPT !.over = since.over + 1]
    BY DEF TypeOK
  <1>2. TypeOK' BY <1>1 DEF TypeOK, MachineOK
  <1>3. /\ since'.busy = since.busy /\ since'.idle = since.idle /\ since'.back = since.back
        /\ since'.bytes = since.bytes /\ since'.gone = since.gone
        /\ since'.before = since.before /\ since'.over = since.over + 1
    BY <1>1 DEF TypeOK
  <1>4. TicksSince' /\ BytesSince' /\ ReadUnlessGone'
    BY <1>3 DEF TicksSince, BytesSince, ReadUnlessGone
  <1>5. QED BY <1>1, <1>2, <1>3, <1>4

-----------------------------------------------------------------------------
(* A turn.                                                                 *)

(* The rate of an interface, if there is one, is what it has now more than *)
(* at the last turn.                                                       *)
LEMMA RateIs ==
  ASSUME IInv, NEW fine, NEW now \in Readings(fine), NEW i,
         RateOf(now, i, "rx") # None \/ RateOf(now, i, "tx") # None
  PROVE  /\ i \in DOMAIN previous.net /\ i \in DOMAIN now.net /\ i \in Ports /\ net[i] # None
         /\ previous.net[i].rx <= net[i] /\ net[i] \in Nat
  <1>1. PICK direction \in {"rx", "tx"} : RateOf(now, i, direction) # None OBVIOUS
  <1>2. i \in DOMAIN previous.net /\ i \in DOMAIN now.net
    BY <1>1 DEF RateOf, Rate, Counter
  <1>3. MachineOK BY DEF IInv, TypeOK
  <1>4. i \in Present /\ now.net[i] = [rx |-> net[i], tx |-> 2 * net[i]]
    BY <1>2, <1>3, ReadingsAre
  <1>5. i \in Ports /\ net[i] # None /\ net[i] \in Nat BY <1>3, <1>4 DEF Present, MachineOK
  <1>6. /\ previous.net[i].rx \in Nat
        /\ previous.net[i].tx = 2 * previous.net[i].rx
    BY <1>2 DEF IInv, BytesSince
  <1>7. ~(now.net[i][direction] < previous.net[i][direction])
    BY <1>1, <1>2 DEF RateOf, Rate, Counter
  <1>8. previous.net[i].rx <= net[i]
    <2>1. CASE direction = "rx" BY <2>1, <1>4, <1>5, <1>6, <1>7
    <2>2. CASE direction = "tx"
      <3>1. ~(2 * net[i] < 2 * previous.net[i].rx) BY <2>2, <1>4, <1>6, <1>7
      <3>2. QED BY <3>1, <1>5, <1>6
    <2>3. QED BY <2>1, <2>2
  <1>9. QED BY <1>2, <1>5, <1>8

(* The rate, where both turns read the interface, time has passed and it   *)
(* has no fewer bytes than it had.                                         *)
LEMMA RateWhereRead ==
  ASSUME IInv, NEW fine, NEW now \in Readings(fine), NEW i,
         i \in DOMAIN previous.net, i \in DOMAIN now.net, elapsed # 0,
         net[i] \in Nat, previous.net[i].rx <= net[i]
  PROVE  /\ RateOf(now, i, "rx") = [bytes |-> net[i] - previous.net[i].rx, over |-> elapsed]
         /\ RateOf(now, i, "tx") = [bytes |-> 2 * (net[i] - previous.net[i].rx), over |-> elapsed]
  <1> DEFINE rx == previous.net[i].rx
  <1>1. MachineOK BY DEF IInv, TypeOK
  <1>2. now.net[i].rx = net[i] /\ now.net[i].tx = 2 * net[i]
    <2>1. now.net[i] = [rx |-> net[i], tx |-> 2 * net[i]] BY <1>1, ReadingsAre
    <2>2. QED BY <2>1
  <1>3. previous.net[i].tx = 2 * rx /\ rx \in Nat BY DEF IInv, BytesSince
  <1>4. /\ net[i] \in Int /\ 2 * net[i] \in Int /\ rx \in Int /\ 2 * rx \in Int
        /\ ~(net[i] < rx) /\ ~(2 * net[i] < 2 * rx)
        /\ 2 * net[i] - 2 * rx = 2 * (net[i] - rx)
    BY <1>3
  <1>5. net[i] # None /\ 2 * net[i] # None /\ rx # None /\ 2 * rx # None
    BY <1>4, NoneAssumption
  <1>6. /\ Counter(now, i, "rx") = net[i] /\ Counter(previous, i, "rx") = rx
        /\ Counter(now, i, "tx") = 2 * net[i] /\ Counter(previous, i, "tx") = 2 * rx
    BY <1>2, <1>3 DEF Counter
  <1> HIDE DEF rx
  <1>7. Rate(rx, net[i]) = [bytes |-> net[i] - rx, over |-> elapsed]
    BY <1>4, <1>5 DEF Rate
  <1>8. Rate(2 * rx, 2 * net[i]) = [bytes |-> 2 * net[i] - 2 * rx, over |-> elapsed]
    BY <1>4, <1>5 DEF Rate
  <1>9. QED BY <1>4, <1>6, <1>7, <1>8 DEF RateOf, rx

(* The share of the ticks.                                                 *)
LEMMA ShareIs ==
  ASSUME IInv, NEW fine, NEW now \in Readings(fine),
         NEW c, c = CpuPercent(previous.cpu, now.cpu), c # None
  PROVE  /\ 0 <= c.busy /\ c.busy <= c.total
         /\ ~since.back => c.busy * (since.busy + since.idle) = since.busy * c.total
  <1>1. MachineOK BY DEF IInv, TypeOK
  <1>2. previous.cpu # None /\ now.cpu # None BY DEF CpuPercent
  <1>3. now.cpu = [busy |-> cpu.busy, total |-> cpu.busy + cpu.idle + cpu.iowait]
    BY <1>1, <1>2, ReadingsAre
  <1>4. /\ previous.cpu.busy \in Nat /\ previous.cpu.total \in Nat
        /\ cpu.busy = previous.cpu.busy + since.busy
        /\ ~since.back => cpu.busy + cpu.idle + cpu.iowait
                            = previous.cpu.total + since.busy + since.idle
    BY <1>2 DEF IInv, TicksSince
  <1>5. /\ cpu.busy \in Nat /\ cpu.idle \in Nat /\ cpu.iowait \in Nat
        /\ since.busy \in Nat /\ since.idle \in Nat
    BY DEF IInv, TypeOK, MachineOK
  <1> DEFINE total == now.cpu.total - previous.cpu.total
             busy == now.cpu.busy - previous.cpu.busy
  <1>6. busy = since.busy /\ total \in Int /\ busy \in Nat
    <2>1. busy = cpu.busy - previous.cpu.busy BY <1>3
    <2>2. total = (cpu.busy + cpu.idle + cpu.iowait) - previous.cpu.total BY <1>3
    <2> HIDE DEF total, busy
    <2>3. QED BY <2>1, <2>2, <1>4, <1>5
  <1>7. ~since.back => total = since.busy + since.idle
    <2>1. total = (cpu.busy + cpu.idle + cpu.iowait) - previous.cpu.total BY <1>3
    <2> HIDE DEF total
    <2>2. QED BY <2>1, <1>4, <1>5
  <1>8. c = IF total <= 0 \/ busy < 0 THEN None
            ELSE [busy |-> IF busy > total THEN total ELSE busy, total |-> total]
    BY <1>2 DEF CpuPercent
  <1> HIDE DEF total, busy
  <1>9. total > 0 /\ c.busy = (IF busy > total THEN total ELSE busy) /\ c.total = total
    BY <1>6, <1>8
  <1>10. 0 <= c.busy /\ c.busy <= c.total BY <1>6, <1>9
  <1>11. ASSUME ~since.back PROVE c.busy * (since.busy + since.idle) = since.busy * c.total
    <2>1. total = since.busy + since.idle BY <1>7, <1>11
    <2>2. c.busy = since.busy BY <2>1, <1>5, <1>6, <1>9
    <2>3. QED BY <2>1, <2>2, <1>9
  <1>12. QED BY <1>10, <1>11

(* A turn remembers what is there, and nothing has happened since.         *)
LEMMA SampleKeeps ==
  ASSUME IInv, NEW fine \in Readable, NEW now \in Readings(fine),
         previous' = Remembered(now), elapsed' = 0,
         since' = [Quiet EXCEPT !.before = fine],
         UNCHANGED <<net, cpu>>
  PROVE  IInv'
  <1>1. TypeOK BY DEF IInv
  <1>2. /\ since'.bytes = [i \in Ports |-> 0] /\ since'.gone = {}
        /\ since'.busy = 0 /\ since'.idle = 0 /\ since'.back = FALSE /\ since'.over = 0
        /\ since'.before = fine
    <2>1. [i \in Ports |-> 0] \in [Ports -> Nat] OBVIOUS
    <2>2. Quiet \in [bytes : [Ports -> Nat], gone : SUBSET Ports, busy : Nat, idle : Nat,
                     back : BOOLEAN, over : Nat,
                     read : SUBSET UNION Readable, before : SUBSET UNION Readable]
      BY <2>1 DEF Quiet
    <2>3. /\ Quiet.bytes = [i \in Ports |-> 0] /\ Quiet.gone = {}
          /\ Quiet.busy = 0 /\ Quiet.idle = 0 /\ Quiet.back = FALSE /\ Quiet.over = 0
      BY DEF Quiet
    <2>4. /\ since'.bytes = Quiet.bytes /\ since'.gone = Quiet.gone
          /\ since'.busy = Quiet.busy /\ since'.idle = Quiet.idle
          /\ since'.back = Quiet.back /\ since'.over = Quiet.over
          /\ since'.before = fine
      BY <2>2
    <2>5. QED BY <2>3, <2>4
  <1>3. fine \in SUBSET UNION Readable OBVIOUS
  <1>4. TypeOK'
    <2>1. [i \in Ports |-> 0] \in [Ports -> Nat] OBVIOUS
    <2>2. Quiet \in [bytes : [Ports -> Nat], gone : SUBSET Ports, busy : Nat, idle : Nat,
                     back : BOOLEAN, over : Nat,
                     read : SUBSET UNION Readable, before : SUBSET UNION Readable]
      BY <2>1 DEF Quiet
    <2>3. QED BY <1>1, <1>3, <2>2 DEF TypeOK, MachineOK
  <1>5. elapsed' = since'.over BY <1>2
  <1>6. MachineOK BY <1>1 DEF TypeOK
  <1>7. previous'.cpu = now.cpu /\ previous'.net = now.net BY DEF Remembered
  <1>8. TicksSince'
    <2>1. CASE "stat" \in fine
      <3>1. now.cpu = [busy |-> cpu.busy, total |-> cpu.busy + cpu.idle + cpu.iowait]
        BY <2>1, <1>6, ReadingsAre
      <3>2. cpu.busy \in Nat /\ cpu.idle \in Nat /\ cpu.iowait \in Nat BY <1>6 DEF MachineOK
      <3>3. cpu.busy + cpu.idle + cpu.iowait \in Nat BY <3>2
      <3>4. /\ previous'.cpu \in [busy : Nat, total : Nat]
            /\ previous'.cpu.busy = cpu.busy
            /\ previous'.cpu.total = cpu.busy + cpu.idle + cpu.iowait
        BY <1>7, <3>1, <3>2, <3>3
      <3>5. cpu'.busy = previous'.cpu.busy + since'.busy BY <1>2, <3>2, <3>4
      <3>6. cpu'.busy + cpu'.idle + cpu'.iowait
              = previous'.cpu.total + since'.busy + since'.idle
        BY <1>2, <3>2, <3>3, <3>4
      <3>7. QED BY <3>4, <3>5, <3>6 DEF TicksSince
    <2>2. CASE "stat" \notin fine
      <3>1. now.cpu = None BY <2>2, <1>6, ReadingsAre
      <3>2. QED BY <3>1, <1>7 DEF TicksSince
    <2>3. QED BY <2>1, <2>2
  <1>9. /\ DOMAIN now.net = IF "net" \in fine THEN Present ELSE {}
        /\ \A p \in DOMAIN now.net : now.net[p] = [rx |-> net[p], tx |-> 2 * net[p]]
    BY <1>6, ReadingsAre
  <1>10. BytesSince'
    <2>1. DOMAIN now.net \subseteq Present /\ Present \subseteq Ports BY <1>9 DEF Present
    <2>2. ASSUME NEW i \in DOMAIN now.net
          PROVE  /\ now.net[i].rx \in Nat /\ now.net[i].tx = 2 * now.net[i].rx
                 /\ net[i] # None /\ net[i] = now.net[i].rx + since'.bytes[i]
                 /\ i \notin since'.gone
      <3>1. i \in Present BY <2>1
      <3>2. i \in Ports /\ net[i] # None /\ net[i] \in Nat
        BY <3>1, <1>6 DEF Present, MachineOK
      <3>3. now.net[i] = [rx |-> net[i], tx |-> 2 * net[i]] BY <1>9
      <3>4. now.net[i].rx = net[i] /\ now.net[i].tx = 2 * net[i] BY <3>3
      <3>5. since'.bytes[i] = 0 /\ since'.gone = {} BY <3>2, <1>2
      <3>6. QED BY <3>2, <3>4, <3>5
    <2>3. QED BY <2>1, <2>2, <1>7 DEF BytesSince
  <1>11. ReadUnlessGone'
    <2>1. since'.before = fine /\ \A i \in Ports : since'.bytes[i] = 0 BY <1>2
    <2>2. \A i \in Ports : "net" \in fine /\ net[i] # None => i \in DOMAIN now.net
      BY <1>9 DEF Present
    <2>3. QED BY <2>1, <2>2, <1>7 DEF ReadUnlessGone
  <1>12. QED BY <1>4, <1>5, <1>8, <1>10, <1>11 DEF IInv

(* The row of a turn has what the properties say of it.                    *)
LEMMA SampleIsTrue ==
  ASSUME IInv, NEW fine \in Readable, NEW now \in Readings(fine),
         row' = RowOf(now), truth' = [since EXCEPT !.read = fine]
  PROVE  Properties'
  <1>1. /\ truth'.bytes = since.bytes /\ truth'.gone = since.gone
        /\ truth'.busy = since.busy /\ truth'.idle = since.idle /\ truth'.back = since.back
        /\ truth'.over = since.over /\ truth'.before = since.before /\ truth'.read = fine
    BY DEF IInv, TypeOK
  <1>2. \A name : In(name)' = RowOf(now)[PlaceOf(name)] BY DEF In, PlaceOf
  <1>3. ASSUME NEW i \in ToSet(Interfaces)
        PROVE  /\ In(RxName(i))' = RateOf(now, i, "rx")
               /\ In(TxName(i))' = RateOf(now, i, "tx")
    <2>1. PICK j \in DOMAIN Interfaces : i = Interfaces[j] BY DEF ToSet
    <2>2. PlaceOf(RxName(i)) = 4 + 2 * j /\ PlaceOf(TxName(i)) = 5 + 2 * j
      BY <2>1, NamesStandFor
    <2>3. In(RxName(i))' = RowOf(now)[4 + 2 * j] /\ In(TxName(i))' = RowOf(now)[5 + 2 * j]
      BY <1>2, <2>2
    <2>4. QED BY <2>1, <2>3, RowPlaces
  <1>4. \A i \in Ports : since.bytes[i] \in Nat BY DEF IInv, TypeOK
  <1>5. elapsed = since.over /\ elapsed \in Nat BY DEF IInv, TypeOK
  <1>6. /\ \A i : Gone(i)' <=> i \in since.gone \/ i \in ToSet(Interfaces) \ Ports
        /\ \A i : Carried(i)' = IF i \in Ports THEN since.bytes[i] ELSE 0
    BY <1>1 DEF Gone, Carried
  <1>7. DOMAIN now.net = IF "net" \in fine THEN Present ELSE {}
    <2>1. MachineOK BY DEF IInv, TypeOK
    <2>2. QED BY <2>1, ReadingsAre
  <1>8. RatesAreTrue'
    <2>1. ASSUME NEW i \in ToSet(Interfaces),
                 RateOf(now, i, "rx") # None \/ RateOf(now, i, "tx") # None
          PROVE  LET r == RateOf(now, i, "rx")
                     t == RateOf(now, i, "tx")
                 IN  /\ r.over = truth'.over /\ t.over = truth'.over
                     /\ r.bytes <= Carried(i)' /\ t.bytes <= 2 * Carried(i)'
                     /\ ~Gone(i)' => r.bytes = Carried(i)' /\ t.bytes = 2 * Carried(i)'
      <3> DEFINE rx == previous.net[i].rx
                 bytes == since.bytes[i]
                 have == net[i]
      <3>1. /\ i \in DOMAIN previous.net /\ i \in DOMAIN now.net /\ i \in Ports /\ have # None
            /\ rx <= have /\ have \in Nat
        BY <2>1, RateIs
      <3>2. elapsed # 0 BY <2>1 DEF RateOf, Rate
      <3>3. /\ RateOf(now, i, "rx") = [bytes |-> have - rx, over |-> elapsed]
            /\ RateOf(now, i, "tx") = [bytes |-> 2 * (have - rx), over |-> elapsed]
        BY <3>1, <3>2, RateWhereRead
      <3>4. /\ rx \in Nat /\ bytes \in Nat
            /\ i \notin since.gone => have = rx + bytes
            /\ i \in since.gone => have <= bytes
        BY <3>1, <1>4 DEF IInv, BytesSince
      <3>5. Carried(i)' = bytes /\ (~Gone(i)' => i \notin since.gone) BY <3>1, <1>6
      <3> HIDE DEF rx, bytes, have
      <3>6. have - rx <= bytes /\ 2 * (have - rx) <= 2 * bytes BY <3>1, <3>4
      <3>7. i \notin since.gone => have - rx = bytes BY <3>4
      <3>8. QED BY <3>3, <3>5, <3>6, <3>7, <1>1, <1>5
    <2>2. QED BY <2>1, <1>3 DEF RatesAreTrue
  <1>9. GapsHaveACause'
    <2>1. ASSUME NEW i \in ToSet(Interfaces), "net" \in fine, "net" \in since.before,
                 ~Gone(i)', since.over > 0, Carried(i)' > 0
          PROVE  RateOf(now, i, "rx") # None /\ RateOf(now, i, "tx") # None
      <3>1. i \in Ports /\ i \notin since.gone BY <2>1, <1>6
      <3>2. since.bytes[i] > 0 BY <2>1, <3>1, <1>6
      <3>3. net[i] # None /\ i \in DOMAIN previous.net
        BY <2>1, <3>1, <3>2 DEF IInv, ReadUnlessGone
      <3>4. net[i] \in Nat BY <3>1, <3>3 DEF IInv, TypeOK, MachineOK
      <3>5. i \in Present BY <3>1, <3>3 DEF Present
      <3>6. i \in DOMAIN now.net BY <2>1, <3>5, <1>7
      <3>7. previous.net[i].rx \in Nat /\ net[i] = previous.net[i].rx + since.bytes[i]
        BY <3>1, <3>3 DEF IInv, BytesSince
      <3>8. previous.net[i].rx <= net[i]
        <4>1. since.bytes[i] \in Nat BY <3>1, <1>4
        <4>2. QED BY <4>1, <3>7
      <3>9. elapsed # 0 BY <2>1, <1>5
      <3>10. /\ RateOf(now, i, "rx") = [bytes |-> net[i] - previous.net[i].rx, over |-> elapsed]
             /\ RateOf(now, i, "tx")
                  = [bytes |-> 2 * (net[i] - previous.net[i].rx), over |-> elapsed]
        BY <3>3, <3>4, <3>6, <3>8, <3>9, RateWhereRead
      <3>11. /\ net[i] - previous.net[i].rx \in Int /\ 2 * (net[i] - previous.net[i].rx) \in Int
             /\ elapsed \in Int
        BY <3>4, <3>7, <1>5
      <3>12. QED BY <3>10, <3>11, NoneAssumption
    <2>2. QED BY <2>1, <1>1, <1>3 DEF GapsHaveACause
  <1>10. CpuIsTheBusyShare'
    <2>1. In("cpu_percent")' = CpuPercent(previous.cpu, now.cpu)
      BY <1>2, NamesStandFor, RowPlaces
    <2> DEFINE c == CpuPercent(previous.cpu, now.cpu)
    <2>2. c # None =>
            /\ 0 <= c.busy /\ c.busy <= c.total
            /\ ~since.back => c.busy * (since.busy + since.idle) = since.busy * c.total
      BY ShareIs
    <2> HIDE DEF c
    <2>3. QED BY <2>1, <2>2, <1>1 DEF CpuIsTheBusyShare, c
  <1>11. RowFitsSchema'
    <2>1. Len(row') = WidthFor(Len(Interfaces)) /\ Len(row') = Len(Schema)
      <3>1. WidthFor(Len(Interfaces)) = Width BY DEF WidthFor, Fixed, Width
      <3>2. QED BY <3>1, RowPlaces, SchemaPlaces
    <2>2. MachineOK BY DEF IInv, TypeOK
    <2>3. /\ In("load1")' = now.load1 /\ In("cpu_temp_celsius")' = now.temperature
          /\ In("mem_used_bytes")' = IF now.memory = None THEN None ELSE now.memory.used
          /\ In("swap_used_bytes")' = IF now.memory = None THEN None ELSE now.memory.swap_used
          /\ In("cpu_percent")' = CpuPercent(previous.cpu, now.cpu)
      BY <1>2, NamesStandFor, RowPlaces
    <2>4. /\ now.load1 = IF "loadavg" \in fine THEN Load ELSE None
          /\ now.memory = IF "meminfo" \in fine THEN ParseMemory(MemInfo) ELSE None
          /\ now.temperature = IF "temp" \in fine THEN Temperature ELSE None
      BY <2>2, ReadingsAre
    <2>5. /\ In("load1")' = IF "loadavg" \in fine THEN Load ELSE None
          /\ In("cpu_temp_celsius")' = IF "temp" \in fine THEN Temperature ELSE None
          /\ In("mem_used_bytes")' = IF "meminfo" \in fine THEN ParseMemory(MemInfo).used ELSE None
          /\ In("swap_used_bytes")' =
               IF "meminfo" \in fine THEN ParseMemory(MemInfo).swap_used ELSE None
      BY <2>3, <2>4, MemoryIsRead
    <2>6. "stat" \notin fine => In("cpu_percent")' = None
      BY <2>2, <2>3, ReadingsAre DEF CpuPercent
    <2>7. ASSUME NEW i \in ToSet(Interfaces), i \notin Ports \/ "net" \notin fine
          PROVE  In(RxName(i))' = None /\ In(TxName(i))' = None
      <3>1. i \notin Ports => i \notin Present BY DEF Present
      <3>2. i \notin DOMAIN now.net BY <2>7, <3>1, <1>7
      <3>3. Counter(now, i, "rx") = None /\ Counter(now, i, "tx") = None BY <3>2 DEF Counter
      <3>4. QED BY <3>3, <1>3 DEF RateOf, Rate
    <2>8. QED BY <2>1, <2>5, <2>6, <2>7, <1>1 DEF RowFitsSchema
  <1>12. QED BY <1>8, <1>9, <1>10, <1>11 DEF Properties

-----------------------------------------------------------------------------
LEMMA NextKeeps ==
  ASSUME IInv, Properties, [Next]_vars
  PROVE  (IInv /\ Properties)'
  <1>1. ASSUME NEW i \in Ports, Traffic(i) \/ GoesAway(i) \/ ComesBack(i)
        PROVE  (IInv /\ Properties)'
    BY <1>1, TrafficKeeps, MovesKeep, NoRow
  <1>2. CASE Works(0) \/ Works(1) \/ Idles("idle") \/ Idles("iowait") \/ IowaitGoesBack
    BY <1>2, TicksKeep, NoRow
  <1>3. CASE TimePasses BY <1>3, TimeKeeps, NoRow
  <1>4. CASE Sample
    <2>1. PICK fine \in Readable : \E now \in Readings(fine) :
            /\ row' = RowOf(now)
            /\ previous' = Remembered(now)
            /\ elapsed' = 0
            /\ truth' = [since EXCEPT !.read = fine]
            /\ since' = [Quiet EXCEPT !.before = fine]
            /\ UNCHANGED <<net, cpu, events>>
      BY <1>4 DEF Sample
    <2>2. PICK now \in Readings(fine) :
            /\ row' = RowOf(now)
            /\ previous' = Remembered(now)
            /\ elapsed' = 0
            /\ truth' = [since EXCEPT !.read = fine]
            /\ since' = [Quiet EXCEPT !.before = fine]
            /\ UNCHANGED <<net, cpu, events>>
      BY <2>1
    <2>3. IInv' BY <2>2, SampleKeeps
    <2>4. Properties' BY <2>2, SampleIsTrue
    <2>5. QED BY <2>3, <2>4
  <1>5. CASE UNCHANGED vars
    <2> USE <1>5 DEF vars
    <2>1. IInv'
      BY DEF IInv, TypeOK, MachineOK, TicksSince, BytesSince, ReadUnlessGone
    <2>2. Properties'
      <3>1. RatesAreTrue' BY DEF Properties, RatesAreTrue, Made, In, Gone, Carried
      <3>2. GapsHaveACause' BY DEF Properties, GapsHaveACause, Made, In, Gone, Carried
      <3>3. CpuIsTheBusyShare' BY DEF Properties, CpuIsTheBusyShare, Made, In
      <3>4. RowFitsSchema' BY DEF Properties, RowFitsSchema, Made, In
      <3>5. QED BY <3>1, <3>2, <3>3, <3>4 DEF Properties
    <2>3. QED BY <2>1, <2>2
  <1>6. QED BY <1>1, <1>2, <1>3, <1>4, <1>5 DEF Next

(* The invariant and the properties, at every step.                        *)
LEMMA AlwaysIInv == Spec => [](IInv /\ Properties)
  <1>1. Init => IInv /\ Properties BY InitIInv
  <1>2. IInv /\ Properties /\ [Next]_vars => (IInv /\ Properties)' BY NextKeeps
  <1>3. QED BY <1>1, <1>2, PTL DEF Spec

(* No rate of an interface reports other bytes than those that it carried  *)
(* between the two turns it comes from, over the time between them:        *)
(* sampler.rs, rate.                                                       *)
THEOREM RatesTellTheTruth == Spec => []RatesAreTrue
  <1>1. Properties => RatesAreTrue BY DEF Properties
  <1>2. QED BY <1>1, AlwaysIInv, PTL

(* An interface that was there throughout, carried anything and was read at*)
(* both turns has its rates, whatever else could not be read: sampler.rs,  *)
(* Sampler::sample.                                                        *)
THEOREM NoGapWithoutCause == Spec => []GapsHaveACause
  <1>1. Properties => GapsHaveACause BY DEF Properties
  <1>2. QED BY <1>1, AlwaysIInv, PTL

(* The percentage of a row is the share of the ticks between two turns that*)
(* were busy, whatever iowait does: sampler.rs, cpu_percent.               *)
THEOREM CpuShareIsTrue == Spec => []CpuIsTheBusyShare
  <1>1. Properties => CpuIsTheBusyShare BY DEF Properties
  <1>2. QED BY <1>1, AlwaysIInv, PTL

(* Each value of a row is in the place that metrics.rs has for its name,   *)
(* and what could not be read is a gap: sampler.rs, Sampler::sample.       *)
THEOREM RowsFitTheirSchema == Spec => []RowFitsSchema
  <1>1. Properties => RowFitsSchema BY DEF Properties
  <1>2. QED BY <1>1, AlwaysIInv, PTL
=============================================================================
