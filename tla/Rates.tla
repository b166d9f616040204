------------------------------- MODULE Rates -------------------------------
(***************************************************************************)
(* How sampler.rs turns what was read into a row, over a machine whose     *)
(* interfaces carry bytes, go away and come back with counters from 0, and *)
(* whose files under /proc and /sys are missing or in an odd shape at      *)
(* times.  `elapsed` is what sample_forever passes: the time since the turn*)
(* before, kept or not.                                                    *)
(*                                                                         *)
(* A rate is the pair of what is divided and by what.  For each byte that  *)
(* an interface receives it sends two.                                     *)
(***************************************************************************)
EXTENDS Metrics, Proc

CONSTANTS
  Interfaces,  \* the interfaces reported on, in order
  Ports,       \* the interfaces the machine may have
  Load,        \* its load
  Temperature, \* its temperature
  MemInfo,     \* the lines of its /proc/meminfo
  Readable,    \* the sets of files that may be fine at the same time
  MaxEvents    \* a bound on what happens to the machine

(* Interfaces are not repeated (config.rs refuses that), so names are not. *)
ASSUME NamesAssumption ==
  /\ Interfaces \in Seq(STRING)
  /\ \A i, j \in DOMAIN SchemaOf(Interfaces) :
       SchemaOf(Interfaces)[i] = SchemaOf(Interfaces)[j] => i = j
ASSUME PortsAssumption == IsFiniteSet(Ports)
ASSUME NoneAssumption ==
  None \notin Int \cup [busy : Int, total : Int] \cup [bytes : Int, over : Int]
                \cup [used : Int, swap_used : Int]
ASSUME OddAssumption == Odd \notin Int
ASSUME GaugesAssumption == Load \in Int /\ Temperature \in Int

(* The lines of /proc/meminfo that are of use, each once and with a number.*)
ASSUME MemInfoAssumption ==
  LET keys == {"MemTotal", "MemAvailable", "SwapTotal", "SwapFree"} IN
  /\ MemInfo \in Seq([word : keys, fields : Seq(Int) \ {<< >>}])
  /\ \A key \in keys : \E i \in DOMAIN MemInfo :
       \A j \in DOMAIN MemInfo : MemInfo[j].word = key <=> j = i

VARIABLES
  net,      \* port -> the bytes it has received, None while it is gone
  cpu,      \* ticks: busy, of these spent on guests, idle, iowait
  elapsed,  \* the time since the last turn
  previous, \* what the last turn read: the Sampler's `previous`
  row,      \* the row it made, until something happens
  events,   \* how much has happened to the machine, up to MaxEvents
  since,    \* (ghost) what has happened since the last turn
  truth     \* (ghost) what had happened between it and the one before

vars == <<net, cpu, elapsed, previous, row, events, since, truth>>

Unread == [cpu |-> None, net |-> << >>]

(* Bytes received, interfaces that went or came, ticks spent busy and not, *)
(* whether a counter of ticks has gone back, the time, the files that were *)
(* fine at the turn and at the one before.                                 *)
Quiet ==
  [bytes |-> [i \in Ports |-> 0], gone |-> {}, busy |-> 0, idle |-> 0,
   back |-> FALSE, over |-> 0, read |-> {}, before |-> {}]

Happens(event) ==
  /\ events < MaxEvents /\ events' = events + 1
  /\ since' = event
  /\ row' = << >> /\ truth' = Quiet

-----------------------------------------------------------------------------
(* The machine.                                                            *)

Init ==
  /\ net \in [Ports -> {0, None}]
  /\ cpu = [busy |-> 0, guest |-> 0, idle |-> 0, iowait |-> 0]
  /\ elapsed = 0
  /\ previous = Unread /\ row = << >>
  /\ events = 0 /\ since = Quiet /\ truth = Quiet

Traffic(i) ==
  /\ net[i] # None
  /\ net' = [net EXCEPT ![i] = @ + 1]
  /\ Happens([since EXCEPT !.bytes[i] = @ + 1])
  /\ UNCHANGED <<cpu, elapsed, previous>>

GoesAway(i) ==
  /\ net[i] # None
  /\ net' = [net EXCEPT ![i] = None]
  /\ Happens([since EXCEPT !.gone = @ \union {i}])
  /\ UNCHANGED <<cpu, elapsed, previous>>

ComesBack(i) ==
  /\ net[i] = None
  /\ net' = [net EXCEPT ![i] = 0]
  /\ Happens([since EXCEPT !.gone = @ \union {i}])
  /\ UNCHANGED <<cpu, elapsed, previous>>

Works(guests) ==
  /\ cpu' = [cpu EXCEPT !.busy = @ + 1, !.guest = @ + guests]
  /\ Happens([since EXCEPT !.busy = @ + 1])
  /\ UNCHANGED <<net, elapsed, previous>>

Idles(field) ==
  /\ cpu' = [cpu EXCEPT ![field] = @ + 1]
  /\ Happens([since EXCEPT !.idle = @ + 1])
  /\ UNCHANGED <<net, elapsed, previous>>

(* Linux lets iowait go backwards.                                         *)
IowaitGoesBack ==
  /\ cpu.iowait > 0
  /\ cpu' = [cpu EXCEPT !.iowait = @ - 1]
  /\ Happens([since EXCEPT !.back = TRUE])
  /\ UNCHANGED <<net, elapsed, previous>>

TimePasses ==
  /\ elapsed' = elapsed + 1
  /\ Happens([since EXCEPT !.over = @ + 1])
  /\ UNCHANGED <<net, cpu, previous>>

-----------------------------------------------------------------------------
(* What its files say when they are fine, and the odd shapes they may have.*)

Stat ==
  <<[word |-> "cpu", fields |-> <<cpu.busy, 0, 0, cpu.idle, cpu.iowait, 0, 0, 0, cpu.guest, 0>>],
    [word |-> "cpu0", fields |-> <<0, 0, 0, 0, 0>>]>>

NetDev ==
  LET ports == SetToSeq({i \in Ports : net[i] # None}) IN
  <<[word |-> "face", fields |-> <<Odd, Odd>>], [word |-> "lo", fields |-> <<1, 2, 3>>]>>
  \o [i \in DOMAIN ports |->
       [word |-> ports[i], fields |-> <<net[ports[i]], 9, 9, 9, 9, 9, 9, 9, 2 * net[ports[i]], 9>>]]

OddStats ==
  {<<Stat[2]>>, <<[Stat[1] EXCEPT !.fields = SubSeq(@, 1, 3)]>>,
   <<[Stat[1] EXCEPT !.fields[2] = Odd]>>}

(* What the parsers may give when the files in `fine` are fine, the others *)
(* missing or odd: Readings::read.                                         *)
Readings(fine) ==
  LET stat == IF "stat" \in fine THEN {ParseCpuTimes(Stat)}
              ELSE {None} \cup {ParseCpuTimes(odd) : odd \in OddStats}
      load == IF "loadavg" \in fine THEN {ParseFirst(<<Load, 0>>)}
              ELSE {ParseFirst(<<Odd>>), ParseFirst(<< >>)}
      memory == IF "meminfo" \in fine THEN {ParseMemory(MemInfo)}
                ELSE {ParseMemory(RemoveAt(MemInfo, i)) : i \in DOMAIN MemInfo}
      heat == IF "temp" \in fine THEN {ParseFirst(<<Temperature>>)} ELSE {ParseFirst(<<Odd>>)}
      dev == IF "net" \in fine THEN {ParseNetDev(NetDev)}
             ELSE {ParseNetDev(SubSeq(NetDev, 1, 2)), << >>}
  IN  [cpu : stat, load1 : load, memory : memory, temperature : heat, net : dev]

-----------------------------------------------------------------------------
(* The sampler.                                                            *)

(* Mutant: the share is not kept in range.                                 *)
CpuPercentUnclamped(before, now) ==
  IF before = None \/ now = None THEN None
  ELSE LET total == now.total - before.total
           busy == now.busy - before.busy
       IN  IF total <= 0 \/ busy < 0 THEN None ELSE [busy |-> busy, total |-> total]

(* cpu_percent: the busy share of the ticks, at most all of them.          *)
CpuPercent(before, now) ==
  IF before = None \/ now = None THEN None
  ELSE LET total == now.total - before.total
           busy == now.busy - before.busy
       IN  IF total <= 0 \/ busy < 0 THEN None
           ELSE [busy |-> IF busy > total THEN total ELSE busy, total |-> total]

(* rate: None unless both are known, time passed and the counter did not go*)
(* backwards.                                                              *)
Rate(before, now) ==
  IF before = None \/ now = None \/ elapsed = 0 THEN None
  ELSE IF now < before THEN None ELSE [bytes |-> now - before, over |-> elapsed]

(* A counter of an interface, if it was read.                              *)
Counter(read, interface, direction) ==
  IF interface \in DOMAIN read.net THEN read.net[interface][direction] ELSE None

(* Mutant: the interfaces take their places from the last to the first.    *)
RatesOfReversed(now) ==
  [k \in 1 .. 2 * Len(Interfaces) |->
    LET interface == Reverse(Interfaces)[(k + 1) \div 2]
        direction == IF k % 2 = 1 THEN "rx" ELSE "tx"
    IN  Rate(Counter(previous, interface, direction), Counter(now, interface, direction))]

(* The rates of each interface, received first, in the order of the schema.*)
RatesOf(now) ==
  [k \in 1 .. 2 * Len(Interfaces) |->
    LET interface == Interfaces[(k + 1) \div 2]
        direction == IF k % 2 = 1 THEN "rx" ELSE "tx"
    IN  Rate(Counter(previous, interface, direction), Counter(now, interface, direction))]

(* The row made of what was read.                                          *)
RowOf(now) ==
  <<CpuPercent(previous.cpu, now.cpu), now.load1,
    IF now.memory = None THEN None ELSE now.memory.used,
    IF now.memory = None THEN None ELSE now.memory.swap_used,
    now.temperature>>
  \o RatesOf(now)

(* Mutants: what could not be read leaves the last reading in place; one   *)
(* file that can't be read loses them all.                                 *)
RememberedOld(now) ==
  [net |-> now.net @@ previous.net,
   cpu |-> IF now.cpu = None THEN previous.cpu ELSE now.cpu]
RememberedWhole(now) == IF now.cpu = None THEN Unread ELSE [cpu |-> now.cpu, net |-> now.net]

(* Sampler::sample: what is remembered of the readings for the next turn.  *)
Remembered(now) == [cpu |-> now.cpu, net |-> now.net]

(* A turn of the loop: Readings::read and Sampler::sample.                 *)
Sample ==
  \E fine \in Readable : \E now \in Readings(fine) :
    /\ row' = RowOf(now)
    /\ previous' = Remembered(now)
    /\ elapsed' = 0
    /\ truth' = [since EXCEPT !.read = fine]
    /\ since' = [Quiet EXCEPT !.before = fine]
    /\ UNCHANGED <<net, cpu, events>>

Next ==
  \/ \E i \in Ports : Traffic(i) \/ GoesAway(i) \/ ComesBack(i)
  \/ Works(0) \/ Works(1) \/ Idles("idle") \/ Idles("iowait") \/ IowaitGoesBack
  \/ TimePasses \/ Sample

Spec == Init /\ [][Next]_vars

-----------------------------------------------------------------------------
Schema == SchemaOf(Interfaces)

(* What the row has in the place that the schema has for a name.           *)
In(name) == row[CHOOSE i \in DOMAIN Schema : Schema[i] = name]

Made == row # << >>

(* What a port has carried, of one that the machine does not have nothing. *)
Carried(interface) == IF interface \in Ports THEN truth.bytes[interface] ELSE 0

Gone(interface) == interface \in truth.gone \cup (ToSet(Interfaces) \ Ports)

(* A rate reports no bytes but those carried between the two readings it   *)
(* comes from, in its own direction and on its own interface, over the time*)
(* between them, and all of them unless the interface has been gone: no    *)
(* reading that failed in between widens it.                               *)
RatesAreTrue ==
  Made => \A i \in ToSet(Interfaces) :
    LET true(r, bytes) ==
          r # None => /\ r.over = truth.over
                      /\ r.bytes <= bytes
                      /\ ~Gone(i) => r.bytes = bytes
    IN  true(In(RxName(i)), Carried(i)) /\ true(In(TxName(i)), 2 * Carried(i))

(* "A gap in the chart" only where the value can't be known: an interface  *)
(* that could be read at both turns, was there throughout and carried      *)
(* anything has a rate, whatever else could not be read.                   *)
GapsHaveACause ==
  Made => \A i \in ToSet(Interfaces) :
    "net" \in truth.read \cap truth.before /\ ~Gone(i) /\ truth.over > 0 /\ Carried(i) > 0
      => In(RxName(i)) # None /\ In(TxName(i)) # None

(* The percentage is the busy share of the ticks between the two readings, *)
(* and never more than all of them even if the kernel's count of ticks     *)
(* spent waiting went backwards in between.                                *)
CpuIsTheBusyShare ==
  Made =>
    LET c == In("cpu_percent") IN
    c # None =>
      /\ 0 <= c.busy /\ c.busy <= c.total
      /\ ~truth.back => c.busy * (truth.busy + truth.idle) = truth.busy * c.total

(* The row has a value for each metric of the schema, in its place: what is*)
(* read as it is stands under its own name when its file was fine, and a   *)
(* file in an odd shape gives a gap, never a number; an interface that the *)
(* machine does not have has no rates.                                     *)
RowFitsSchema ==
  Made =>
    /\ Len(row) = WidthFor(Len(Interfaces)) /\ Len(row) = Len(Schema)
    /\ LET shows(name, file, value) == In(name) = IF file \in truth.read THEN value ELSE None IN
       /\ shows("load1", "loadavg", Load)
       /\ shows("cpu_temp_celsius", "temp", Temperature)
       /\ shows("mem_used_bytes", "meminfo", ParseMemory(MemInfo).used)
       /\ shows("swap_used_bytes", "meminfo", ParseMemory(MemInfo).swap_used)
    /\ "stat" \notin truth.read => In("cpu_percent") = None
    /\ \A i \in ToSet(Interfaces) :
         i \notin Ports \/ "net" \notin truth.read =>
           In(RxName(i)) = None /\ In(TxName(i)) = None
=============================================================================
