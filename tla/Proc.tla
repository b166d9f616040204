-------------------------------- MODULE Proc --------------------------------
(***************************************************************************)
(* The parsers of proc.rs: what is taken from the files of /proc and /sys, *)
(* and when a file is not in the expected shape and gives nothing.         *)
(*                                                                         *)
(* A file is the sequence of its lines, a line its first word (or what is  *)
(* before its colon) and the fields that follow; Odd is a field that is no *)
(* number, None what a parser gives of a file it can't use.                *)
(***************************************************************************)
EXTENDS Integers, SequencesExt

CONSTANTS None, Odd

SaturatingSub(a, b) == IF a < b THEN 0 ELSE a - b

FirstOf(lines, word) == SelectInSeq(lines, LAMBDA line : line.word = word)

(* Mutant: guest time, which the time of users has in it, is added again.  *)
ParseCpuTimesWithGuests(stat) ==
  LET at == FirstOf(stat, "cpu")
      fields == stat[at].fields
      total == FoldLeft(+, 0, fields)
  IN  IF at = 0 THEN None
      ELSE IF Contains(fields, Odd) \/ Len(fields) < 5 THEN None
      ELSE [busy |-> total - fields[4] - fields[5], total |-> total]

(* The ticks of all processors. Kernels of old have only the first four    *)
(* fields; the last two of today's are counted in the first already.       *)
ParseCpuTimes(stat) ==
  LET at == FirstOf(stat, "cpu")
      fields == SubSeq(stat[at].fields, 1, Min({8, Len(stat[at].fields)}))
      total == FoldLeft(+, 0, fields)
      iowait == IF Len(fields) > 4 THEN fields[5] ELSE 0
  IN  IF at = 0 THEN None
      ELSE IF Contains(fields, Odd) \/ Len(fields) < 4 THEN None
      ELSE [busy |-> SaturatingSub(SaturatingSub(total, fields[4]), iowait), total |-> total]

(* The first field of a file of one line: parse_load1, parse_temperature.  *)
ParseFirst(fields) ==
  IF fields = << >> THEN None ELSE IF fields[1] = Odd THEN None ELSE fields[1]

(* Memory in use is what is not available, rather than what is not free.   *)
ParseMemory(meminfo) ==
  LET kib(key) == IF FirstOf(meminfo, key) = 0 THEN None
                  ELSE ParseFirst(meminfo[FirstOf(meminfo, key)].fields)
  IN  IF None \in {kib("MemTotal"), kib("MemAvailable"), kib("SwapTotal"), kib("SwapFree")}
        THEN None
        ELSE [used |-> SaturatingSub(kib("MemTotal"), kib("MemAvailable")) * 1024,
              swap_used |-> SaturatingSub(kib("SwapTotal"), kib("SwapFree")) * 1024]

(* The counters by name, from the lines that have the shape of one; of two *)
(* with the same name the last.                                            *)
ParseNetDev(net_dev) ==
  LET fits(line) == ~Contains(line.fields, Odd) /\ Len(line.fields) >= 9
      lines == {i \in DOMAIN net_dev : fits(net_dev[i])}
      named(name) == net_dev[Max({i \in lines : net_dev[i].word = name})]
  IN  [name \in {net_dev[i].word : i \in lines} |->
        [rx |-> named(name).fields[1], tx |-> named(name).fields[9]]]
=============================================================================
