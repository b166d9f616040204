------------------------------ MODULE Answers ------------------------------
(***************************************************************************)
(* The answers of the daemon (protocol.rs) and what smq makes of them for  *)
(* a person to read (query.rs).                                            *)
(*                                                                         *)
(* A JSON object is a function from its keys.  What is printed is a record *)
(* of the parts of it; widths and spaces are left out, and so is the       *)
(* rounding of a value.  An instant is the day since the epoch it is on,   *)
(* and the milliseconds of that day.                                       *)
(***************************************************************************)
EXTENDS Integers, SequencesExt

CONSTANTS
  Null,  \* the null of JSON
  NaN,   \* a value that could not be measured
  Dash   \* what is printed for it

-----------------------------------------------------------------------------
(* The daemon.                                                             *)

Json(value) == IF value = NaN THEN Null ELSE value

(* Both functions as one: where both have a value, that of the first.      *)
Merged(f, g) == [x \in DOMAIN f \cup DOMAIN g |-> IF x \in DOMAIN f THEN f[x] ELSE g[x]]

Error(why) == [ok |-> FALSE, why |-> why]

(* write_series: each name with the column in its place.                   *)
Series(names, columns) ==
  LET pairs == Zip(names, columns) IN
  [name \in {pairs[i][1] : i \in DOMAIN pairs} |->
     LET column == pairs[SelectLastInSeq(pairs, LAMBDA pair : pair[1] = name)][2] IN
     [j \in DOMAIN column |-> Json(column[j])]]

InfoAnswer(interval, capacity, len, schema) ==
  [ok |-> TRUE, interval_ms |-> interval, capacity |-> capacity, len |-> len,
   metrics |-> Len(schema)]

MetricsAnswer(schema) == [ok |-> TRUE, metrics |-> schema]

(* `latest` is empty or the time and the row of the newest record.         *)
LatestAnswer(schema, latest) ==
  IF latest = << >> THEN [ok |-> TRUE, timestamp |-> Null, values |-> << >>]
  ELSE LET pairs == Zip(schema, latest[2]) IN
       [ok |-> TRUE, timestamp |-> latest[1],
        values |-> [name \in {pairs[i][1] : i \in DOMAIN pairs} |->
          Json(pairs[SelectLastInSeq(pairs, LAMBDA pair : pair[1] = name)][2])]]

RawAnswer(names, snapshot) ==
  [ok |-> TRUE, timestamps |-> snapshot.timestamps,
   series |-> Series(names, snapshot.columns)]

DownsampledAnswer(names, result) ==
  Merged([ok |-> TRUE, step_ms |-> result.step, timestamps |-> result.timestamps,
          series |-> Series(names, result.avg)],
         IF "min" \in DOMAIN result
           THEN [min |-> Series(names, result.min), max |-> Series(names, result.max)]
           ELSE << >>)

-----------------------------------------------------------------------------
(* Times for a person to read.                                             *)

(* Mutant: the years that end a century without a leap day are forgotten.  *)
CivilJulian(days) ==
  LET dayOfEra == days + 719468
      yearOfEra == (dayOfEra - dayOfEra \div 1460) \div 365
      dayOfYear == dayOfEra - (365 * yearOfEra + yearOfEra \div 4)
      mp == (5 * dayOfYear + 2) \div 153
      month == IF mp < 10 THEN mp + 3 ELSE mp - 9
  IN  [year |-> yearOfEra + (IF month <= 2 THEN 1 ELSE 0), month |-> month,
       day |-> dayOfYear - (153 * mp + 2) \div 5 + 1]

(* The date of a day since the epoch: years begin in March, eras are of 400*)
(* years.                                                                  *)
Civil(days) ==
  LET z == days + 719468
      era == z \div 146097
      dayOfEra == z % 146097
      yearOfEra == (dayOfEra - dayOfEra \div 1460 + dayOfEra \div 36524
                    - dayOfEra \div 146096) \div 365
      dayOfYear == dayOfEra - (365 * yearOfEra + yearOfEra \div 4 - yearOfEra \div 100)
      mp == (5 * dayOfYear + 2) \div 153
      month == IF mp < 10 THEN mp + 3 ELSE mp - 9
  IN  [year |-> yearOfEra + era * 400 + (IF month <= 2 THEN 1 ELSE 0), month |-> month,
       day |-> dayOfYear - (153 * mp + 2) \div 5 + 1]

(* iso                                                                     *)
Iso(instant) ==
  LET secs == instant.ms \div 1000 IN
  [date |-> Civil(instant.days), hour |-> secs \div 3600, minute |-> secs % 3600 \div 60,
   second |-> secs % 60, millis |-> instant.ms % 1000]

-----------------------------------------------------------------------------
(* What smq prints.                                                        *)

Number(value) == IF value = Null THEN Dash ELSE value

RenderInfo(reply) ==
  [key \in {"interval_ms", "capacity", "len", "metrics"} \cap DOMAIN reply |-> reply[key]]

RenderMetrics(reply) == [names |-> reply.metrics]

RenderLatest(reply) ==
  IF reply.timestamp = Null THEN [nothing |-> TRUE]
  ELSE [at |-> Iso(reply.timestamp),
        values |-> [name \in DOMAIN reply.values |-> Number(reply.values[name])]]

(* The heading of a column, of a metric and what is shown of it.           *)
Heading(name, suffix) == name \o suffix

(* One column for each metric, or three; a row for each time, with a value *)
(* from each column, if it has as many.                                    *)
RenderRead(reply) ==
  LET column(values) ==
        [k \in DOMAIN reply.timestamps |-> IF k \in DOMAIN values THEN Number(values[k]) ELSE Dash]
      columns(key, suffix) ==
        IF key \notin DOMAIN reply THEN << >>
        ELSE [label \in {Heading(name, suffix) : name \in DOMAIN reply[key]} |->
               column(reply[key][CHOOSE name \in DOMAIN reply[key] : Heading(name, suffix) = label])]
  IN  [times |-> [k \in DOMAIN reply.timestamps |-> Iso(reply.timestamps[k])],
       columns |-> Merged(columns("series", ""),
                          Merged(columns("min", " (min)"), columns("max", " (max)")))]

(* render; the answer to `raw` has no known shape.                         *)
Render(op, reply) ==
  CASE op = "info" -> RenderInfo(reply)
    [] op = "metrics" -> RenderMetrics(reply)
    [] op = "latest" -> RenderLatest(reply)
    [] op = "read" -> RenderRead(reply)
    [] OTHER -> reply
=============================================================================
