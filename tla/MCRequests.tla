----------------------------- MODULE MCRequests -----------------------------
(***************************************************************************)
(* Command lines of the daemon of up to three arguments, on both sides of  *)
(* every limit, and two that are served. For smq every combination of the  *)
(* options of `read`, times up to 3, and a limit of 3 names with lists of  *)
(* up to 4; for other clients the same of fields. The newest record is from*)
(* days over four centuries, with every day around the ends of February.   *)
(***************************************************************************)
EXTENDS Requests

Word(text) == [text |-> text, flag |-> text, inline |-> Absent, json |-> NotJson]

Joined(flag, value) ==
  [text |-> flag \o "=" \o value, flag |-> flag, inline |-> value, json |-> NotJson]

Text(number, unit, octal, length) ==
  [number |-> number, unit |-> unit, octal |-> octal, length |-> length, plain |-> TRUE]

MCLooks ==
  ("0s" :> Text(0, "s", Absent, 2)) @@ ("7s" :> Text(7, "s", Absent, 2))
  @@ ("1ms" :> Text(1, "ms", Absent, 3)) @@ ("2ms" :> Text(2, "ms", Absent, 3))
  @@ ("1h" :> Text(1, "h", Absent, 2)) @@ ("7d" :> Text(7, "d", Absent, 2))
  @@ ("12d" :> Text(12, "d", Absent, 3)) @@ ("1w" :> Text(1, "w", Absent, 2))
  @@ ("16777216ms" :> Text(16777216, "ms", Absent, 10))
  @@ ("16777217ms" :> Text(16777217, "ms", Absent, 10))
  @@ ("0" :> Text(0, "", 0, 1)) @@ ("2" :> Text(2, "", 2, 1)) @@ ("4" :> Text(4, "", 4, 1))
  @@ ("777" :> Text(777, "", 511, 3)) @@ ("1000" :> Text(1000, "", 512, 4))
  @@ ("" :> Text(Absent, "", Absent, 0)) @@ ("eth0" :> Text(Absent, "eth0", Absent, 4))
  @@ ("fifteen-letters" :> Text(Absent, "fifteen-letters", Absent, 15))
  @@ ("sixteen-letters." :> Text(Absent, "sixteen-letters.", Absent, 16))
  @@ ("--interval" :> Text(Absent, "--interval", Absent, 10))

Lists(items, length) == UNION {[1 .. n -> items] : n \in 0 .. length}

MCServedLines ==
  {<<Joined("--interface", "eth0")>>,
   <<Joined("--socket", LocalSocket), Joined("--interface", "fifteen-letters"),
     Joined("--interface", "eth0")>>}

MCDaemonLines ==
  Lists({Word(text) : text \in {"-h", "--version", "--bogus", "--interval", "7s",
                                "--interface", "eth0"}}
        \cup {Joined(flag, value) : flag \in {"--interval", "--retention"},
               value \in {"0s", "1ms", "7s", "7d", "12d", "1w", "16777216ms", "16777217ms"}}
        \cup {Joined("--interface", value) : value \in {"eth0", "", "a/b", "fifteen-letters",
                                                        "sixteen-letters."}}
        \cup {Joined("--socket-mode", value) : value \in {"777", "1000", "eth0"}}
        \cup {Joined(flag, "2") : flag \in {"--flush-interval", "--socket", "--root", "--help"}},
        3)
  \cup MCServedLines

-----------------------------------------------------------------------------
MCEnvironments == {Absent, LocalSocket}

MCGaps == {<<0, 1>>}

Cpu == "cpu_percent"
Received == "net_eth0_rx_bytes_per_sec"
Other == "load5"

Option(flag, value) == IF value = Absent THEN << >> ELSE <<Word(flag), Word(value)>>

ReadLine(from, to, names, step, points, extremes) ==
  <<Word("read")>> \o Option("--from", from) \o Option("--to", to)
  \o FlattenSeq([i \in DOMAIN names |-> Option("--metric", names[i])])
  \o Option("--step", step) \o Option("--points", points)
  \o IF extremes THEN <<Word("--extremes")>> ELSE << >>

ReadLines ==
  LET times == {Absent, "now", "0", "2", "1ms", "2ms"} IN
  {ReadLine(from, to, << >>, step, points, extremes) :
     from \in times, to \in times, step \in {Absent, "1ms", "2ms"},
     points \in {Absent, "0", "2", "4"}, extremes \in BOOLEAN}
  \cup {ReadLine(Absent, Absent, names, step, Absent, step # Absent) :
          names \in Lists({Cpu, Received, Other}, MaxNames + 1), step \in {Absent, "1ms"}}

MCSmqLines ==
  LET info == Word("info") IN
  ReadLines
  \cup {<< >>, <<Word("-h")>>, <<Word("-V")>>, <<Word("--bogus")>>, <<Word("--socket")>>,
        <<info>>, <<Word("metrics")>>, <<Word("latest")>>, <<info, Word("2")>>,
        <<Word("--json"), info>>, <<Word("--json"), Word("read")>>, <<Word("--local"), info>>,
        <<Word("--local"), Word("latest")>>, <<Word("--local"), Word("read")>>,
        <<Word("--local"), Word("--socket"), Word("2"), info>>,
        <<Word("read"), Word("--from")>>, <<Word("read"), Word("--to"), Word("eth0")>>,
        <<Word("read"), Word("--points"), Word("2ms")>>, <<Word("read"), Word("--step"), Word("0s")>>,
        <<Word("read"), Word("--json")>>, <<Joined("--socket", "2"), info>>}
  \cup {<<Word("raw")>> \o rest :
          rest \in Lists({[Word("{}") EXCEPT !.json = json] :
                            json \in {NotJson, NotAnObject, Object("latest"), Object("write")}}, 2)}

MCTexts ==
  LET odd == {Absent, Null, Junk} IN
  {NotJson, NotAnObject, TooLong, NotUtf8, Blank}
  \cup {[Object(op) EXCEPT !.v = v] :
          op \in odd \cup PlainOps \cup {"read", "write"}, v \in odd \cup {1, 2}}
  \cup {[Object("read") EXCEPT !.metrics = list] :
          list \in Lists({Cpu, Received, Other, Junk}, MaxNames + 1)}
  \cup [v : {Absent}, op : {"read"}, from : odd \cup {0, 2}, to : odd \cup {1},
        metrics : odd \cup {<< >>, <<Received, Cpu>>}, step_ms : odd \cup {0, 1},
        max_points : odd \cup {1, 2, 4}, extremes : odd \cup BOOLEAN]

-----------------------------------------------------------------------------
MCInstants ==
  LET days == 0 .. 31 \cup 750 .. 800 \cup 11000 .. 11050 \cup 47500 .. 47550
              \cup 157110 .. 157140 \cup {137 * n : n \in 0 .. 1150} IN
  {[days |-> day, ms |-> 86399999] : day \in days}
=============================================================================
