------------------------------ MODULE Requests ------------------------------
(***************************************************************************)
(* The commands from end to end: the daemon is launched with a command     *)
(* line (Settings), smq is run with one (SmqOptions) and sends a request,  *)
(* the daemon validates it (parse_request of protocol.rs), asks the store  *)
(* and answers (Answers), and smq prints the answer and exits. Any other   *)
(* client may send any text.                                               *)
(*                                                                         *)
(* A field of a request is Absent, Null, of a type that does not fit       *)
(* (Junk), or a value. What the store gives is left to chance: so many     *)
(* rows, with some values missing (Gaps); a value is known by the column   *)
(* and the row it is from. A daemon with no connection to spare is left    *)
(* out (see Connections).                                                  *)
(***************************************************************************)
EXTENDS SmqOptions, Answers, FiniteSets

CONSTANTS
  Junk,
  NotAnObject, \* a text that is JSON and no object
  TooLong,     \* a line of more than MAX_REQUEST_BYTES
  NotUtf8,     \* a line that is no text
  Blank,       \* an empty one
  MaxTime,     \* u64::MAX
  MaxPoints,   \* MAX_POINTS
  MaxNames,    \* MAX_METRIC_NAMES
  DaemonLines, \* command lines of the daemon
  ServedLines, \* those with which requests are served as well
  SmqLines,    \* command lines of smq
  Environments, \* the sockets its environment may name, or Absent
  Texts,       \* the requests that others may send
  Clock,       \* the times at which smq may run
  Instants,    \* the times of the newest record
  MaxRows,     \* a bound on the rows that the store finds
  Gaps         \* the <<column, row>> with no value

Odd == {Absent, Null, Junk}

NoObjects == {NotJson, NotAnObject, TooLong, NotUtf8, Blank}

(* Why parse_request may refuse one.                                       *)
Reasons ==
  {"request too long", "not UTF-8", "not JSON", "not an object", "bad version",
   "unsupported version", "missing op", "op not a string", "unknown op", "from", "to",
   "from after to", "metrics", "no names", "too many names", "step_ms", "max_points", "both",
   "step of 0", "points out of range", "extremes", "extremes of what"}

(* An object's fields are odd, or of the type that they should be.         *)
Typed(object) ==
  /\ {object.from, object.to, object.step_ms, object.max_points} \subseteq Odd \cup Nat
  /\ object.metrics \in Odd \/ object.metrics \in Seq(ToSet(object.metrics))

ArgumentsOf(lines) == UNION {ToSet(args) : args \in lines}

(* What may be taken for the value of an option.                           *)
WordsOf(arguments) ==
  {arg.text : arg \in arguments} \cup ({arg.inline : arg \in arguments} \ {Absent})

SmqWords == {arg.text : arg \in ArgumentsOf(SmqLines)}

(* The requests that smq makes by itself.                                  *)
SmqObjects ==
  LET number == {Absent} \cup Nat IN
  [v : {Absent}, op : PlainOps \cup {"read"}, from : number, to : number,
   metrics : {Absent} \cup Seq(SmqWords), step_ms : number, max_points : number,
   extremes : {Absent, TRUE}]

ASSUME OddAssumption ==
  /\ Absent # Null /\ Absent # Junk
  /\ Odd \cap (Nat \cup BOOLEAN \cup PlainOps \cup {"read"} \cup SmqWords \cup Seq(SmqWords)) = {}
  /\ NoObjects \cap SmqObjects = {} /\ Absent \notin Reasons
ASSUME LinesAssumption ==
  /\ \A args \in DaemonLines \cup SmqLines : args \in Seq(ToSet(args))
  /\ \A arg \in ArgumentsOf(DaemonLines) : arg.text # Absent /\ arg.flag # Absent
ASSUME TextsAssumption ==
  \A text \in Texts \cup {arg.json : arg \in ArgumentsOf(SmqLines)} :
    text \in NoObjects \/ Typed(text)
ASSUME ClockAssumption == Clock \subseteq 0 .. MaxTime
ASSUME InstantsAssumption == Instants \subseteq [days : Nat, ms : Nat]
ASSUME LimitsAssumption == MaxPoints \in Nat /\ MaxNames \in Nat /\ MaxRows \in Nat

(* The names that an interface may have, and those of metrics.             *)
InterfaceNames == WordsOf(ArgumentsOf(DaemonLines)) \cup ToSet(DefaultInterfaces)

MetricNames ==
  ToSet(Fixed) \cup {RxName(a) : a \in InterfaceNames} \cup {TxName(a) : a \in InterfaceNames}

(* Names of metrics tell the interfaces apart, as texts do.                *)
ASSUME NamesAssumption ==
  \A a, b \in InterfaceNames :
    /\ RxName(a) = RxName(b) \/ TxName(a) = TxName(b) => a = b
    /\ RxName(a) # TxName(b)
    /\ {RxName(a), TxName(a)} \cap ToSet(Fixed) = {}

HeadingKinds == {"", " (min)", " (max)"}

(* So do the headings of columns, made of a name and what is shown of it.  *)
ASSUME HeadingsAssumption ==
  \A a, b \in MetricNames :
    /\ Heading(a, "") = a
    /\ \A s, t \in HeadingKinds : Heading(a, s) = Heading(b, t) => a = b /\ s = t

VARIABLES
  pc,      \* how far things have come
  line,    \* the command line given, until it is acted on or turned away
  daemon,  \* the config of the daemon that runs, or Absent
  command, \* what smq runs and when, or Absent for another client
  request, \* the text sent
  parsed,  \* what parse_request made of it
  asked,   \* what the store was asked
  reply,   \* the daemon's answer
  shown,   \* what smq prints
  exit     \* an exit code

exchange == <<command, request, parsed, asked, reply, shown>>
vars == <<pc, line, daemon, exchange, exit>>

Schema == SchemaOf(daemon.interfaces)

-----------------------------------------------------------------------------
(* parse_request. A check is <<whether it fails, the error>>; the first    *)
(* that fails decides.                                                     *)

Given(field) == field \notin {Absent, Null}

Usable(field) == field \notin {Absent, Null, Junk}

EnvelopeChecks(object) ==
  <<<<object.v \in {Null, Junk}, "bad version">>,
    <<object.v \notin {Absent, 1}, "unsupported version">>,
    <<object.op = Absent, "missing op">>,
    <<object.op \in {Null, Junk}, "op not a string">>,
    <<object.op \notin PlainOps \cup {"read"}, "unknown op">>>>

RangeChecks(object) ==
  <<<<object.from = Junk, "from">>,
    <<object.to = Junk, "to">>,
    <<Usable(object.from) /\ Usable(object.to) /\ object.from > object.to,
      "from after to">>>>

MetricsChecks(metrics) ==
  <<<<metrics = Junk, "metrics">>,
    <<metrics = << >>, "no names">>,
    <<Usable(metrics) /\ Len(metrics) > MaxNames, "too many names">>,
    <<Usable(metrics) /\ \E i \in DOMAIN metrics : metrics[i] = Junk, "metrics">>>>

(* Mutant: at most MaxPoints points, with no lower limit.                  *)
DownsampleChecksUpperOnly(object) ==
  <<<<object.step_ms = Junk, "step_ms">>,
    <<object.max_points = Junk, "max_points">>,
    <<Given(object.step_ms) /\ Given(object.max_points), "both">>,
    <<object.step_ms = 0, "step of 0">>,
    <<Given(object.max_points) /\ object.max_points \notin 0 .. MaxPoints,
      "points out of range">>>>

DownsampleChecks(object) ==
  <<<<object.step_ms = Junk, "step_ms">>,
    <<object.max_points = Junk, "max_points">>,
    <<Given(object.step_ms) /\ Given(object.max_points), "both">>,
    <<object.step_ms = 0, "step of 0">>,
    <<Given(object.max_points) /\ object.max_points \notin 2 .. MaxPoints,
      "points out of range">>>>

ExtremesChecks(object) ==
  <<<<object.extremes = Junk, "extremes">>,
    <<object.extremes = TRUE /\ ~Given(object.step_ms) /\ ~Given(object.max_points),
      "extremes of what">>>>

Checks(object) ==
  EnvelopeChecks(object) \o
  (IF object.op = "read"
     THEN RangeChecks(object) \o MetricsChecks(object.metrics) \o
          DownsampleChecks(object) \o ExtremesChecks(object)
     ELSE << >>)

(* Why a line, or the text it is, is refused, or Absent.                   *)
Refusal(text) ==
  IF text = TooLong THEN "request too long"
  ELSE IF text = NotUtf8 THEN "not UTF-8"
  ELSE IF text = NotJson THEN "not JSON"
  ELSE IF text = NotAnObject THEN "not an object"
  ELSE LET first == SelectInSeq(Checks(text), LAMBDA check : check[1]) IN
       IF first = 0 THEN Absent ELSE Checks(text)[first][2]

(* ReadParams, with Absent for None.                                       *)
Params(object) ==
  LET optional(field) == IF Given(field) THEN field ELSE Absent IN
  [from |-> optional(object.from), to |-> optional(object.to),
   metrics |-> optional(object.metrics),
   step |-> optional(object.step_ms), points |-> optional(object.max_points),
   extremes |-> object.extremes = TRUE]

ParseRequest(text) ==
  IF Refusal(text) # Absent THEN [why |-> Refusal(text)]
  ELSE IF text.op = "read" THEN [op |-> "read", params |-> Params(text)]
  ELSE [op |-> text.op]

-----------------------------------------------------------------------------
(* answer_read.                                                            *)

Unknown(schema, wanted) == wanted # Absent /\ ~(ToSet(wanted) \subseteq ToSet(schema))

Position(schema, name) == (CHOOSE i \in DOMAIN schema : schema[i] = name) - 1

(* Mutant: a name is kept each time it is listed, its column once.         *)
ResolveMetricsTwice(schema, wanted) ==
  IF wanted = Absent
    THEN [names |-> schema, columns |-> [i \in DOMAIN schema |-> i - 1]]
    ELSE FoldLeft(LAMBDA found, name :
                    [names |-> Append(found.names, name),
                     columns |-> IF Contains(found.columns, Position(schema, name))
                                   THEN found.columns
                                   ELSE Append(found.columns, Position(schema, name))],
                  [names |-> << >>, columns |-> << >>], wanted)

(* The names and columns that known names ask for, each once.              *)
ResolveMetrics(schema, wanted) ==
  IF wanted = Absent
    THEN [names |-> schema, columns |-> [i \in DOMAIN schema |-> i - 1]]
    ELSE FoldLeft(LAMBDA found, name :
                    IF Contains(found.columns, Position(schema, name)) THEN found
                    ELSE [names |-> Append(found.names, name),
                          columns |-> Append(found.columns, Position(schema, name))],
                  [names |-> << >>, columns |-> << >>], wanted)

(* The call on the store, and the names its columns are written under.     *)
StoreCall(schema, params) ==
  [from |-> params.from, to |-> params.to,
   columns |-> ResolveMetrics(schema, params.metrics).columns,
   names |-> ResolveMetrics(schema, params.metrics).names,
   step |-> params.step, points |-> params.points, extremes |-> params.extremes]

(* The value of a column in the row, or of the bucket, in this place.      *)
Measured(column, row, kind) ==
  IF <<column, row>> \in Gaps THEN NaN ELSE [column |-> column, row |-> row, kind |-> kind]

RowTime(row) == [days |-> 0, ms |-> row]

(* What the store gives when it finds so many rows.                        *)
Found(columns, rows, kind) ==
  [c \in DOMAIN columns |-> [k \in 1 .. rows |-> Measured(columns[c], k, kind)]]

(* The widths of bucket that may be used: the one asked for, or whole      *)
(* numbers of samples (see BucketStep).                                    *)
Widths(call) ==
  IF call.step # Absent THEN {call.step} ELSE {daemon.interval, 2 * daemon.interval}

(* The answers to a call: write_answer.                                    *)
ReadAnswers(call) ==
  LET times(rows) == [k \in 1 .. rows |-> RowTime(k)] IN
  IF call.step = Absent /\ call.points = Absent
    THEN {RawAnswer(call.names, [timestamps |-> times(rows),
                                 columns |-> Found(call.columns, rows, "value")]) :
            rows \in 0 .. MaxRows}
    ELSE {DownsampledAnswer(call.names,
            Merged([step |-> step, timestamps |-> times(rows),
                    avg |-> Found(call.columns, rows, "avg")],
                   IF call.extremes
                     THEN [min |-> Found(call.columns, rows, "min"),
                           max |-> Found(call.columns, rows, "max")]
                     ELSE << >>)) :
            step \in Widths(call), rows \in 0 .. MaxRows}

LatestAnswers ==
  {LatestAnswer(Schema, << >>)} \cup
  {LatestAnswer(Schema, <<at, [i \in DOMAIN Schema |-> Measured(i - 1, 1, "value")]>>) :
     at \in Instants}

-----------------------------------------------------------------------------
Init ==
  /\ pc = "down" /\ line = Absent /\ daemon = Absent
  /\ command = Absent /\ request = Absent /\ parsed = Absent
  /\ asked = Absent /\ reply = Absent /\ shown = Absent /\ exit = Absent

(* main: the daemon is given a command line.                               *)
Launch ==
  /\ pc = "down"
  /\ \E args \in DaemonLines : \E settings \in {ParseSettings(args)} :
       /\ pc' = "launched" /\ line' = args
       /\ exit' = ExitCode(settings)
       /\ daemon' = IF exit' = Absent THEN settings.config ELSE Absent
  /\ UNCHANGED exchange

(* daemon::run serves, and never returns.                                  *)
Serve ==
  /\ pc = "launched" /\ daemon # Absent /\ line \in ServedLines
  /\ pc' = "idle" /\ line' = Absent
  /\ UNCHANGED <<daemon, exchange, exit>>

(* The process ends: nothing was to be served, or daemon::run fails.       *)
DaemonEnds ==
  /\ pc = "launched"
  /\ exit' = IF daemon = Absent THEN exit ELSE 1
  /\ pc' = "down" /\ line' = Absent /\ daemon' = Absent
  /\ UNCHANGED exchange

Send(text) ==
  /\ pc' = "sent"
  /\ request' = text
  /\ UNCHANGED <<line, daemon, parsed, asked, reply, shown, exit>>

(* smq is run, and the request for its command is sent.                    *)
SmqSends ==
  /\ pc = "idle"
  /\ \E smq \in {ParseSmq(args) : args \in SmqLines}, env \in Environments, now \in Clock :
       /\ "command" \in DOMAIN smq
       /\ RequestFor(smq.command, now) # NotJson
       /\ command' = [socket |-> SocketFor(smq.socket, env), json |-> smq.json,
                      command |-> smq.command, now |-> now]
       /\ Send(RequestFor(smq.command, now))

SmqExits(args, code) ==
  /\ pc' = "done" /\ line' = args /\ exit' = code
  /\ UNCHANGED <<daemon, exchange>>

(* smq prints its help or its version, or can't act on its command line.   *)
SmqStops ==
  /\ pc = "idle"
  /\ \E args \in SmqLines : \E smq \in {ParseSmq(args)} :
       /\ "command" \notin DOMAIN smq
       /\ SmqExits(args, IF "print" \in DOMAIN smq THEN 0 ELSE 2)

SmqHasNoRequest ==
  /\ pc = "idle"
  /\ \E args \in SmqLines : \E smq \in {ParseSmq(args)} :
       /\ "command" \in DOMAIN smq
       /\ smq.command.op = "raw" /\ smq.command.json = NotJson
       /\ SmqExits(args, 2)

OtherClient ==
  /\ pc = "idle"
  /\ \E text \in Texts : Send(text)
  /\ UNCHANGED command

(* Whether the request was sent to this daemon.                            *)
Reached == command # Absent => command.socket = daemon.socket

(* handle_connection skips a blank line, which smq never sends.            *)
SkipBlank ==
  /\ pc = "sent" /\ request = Blank /\ command = Absent
  /\ pc' = "idle" /\ request' = Absent
  /\ UNCHANGED <<line, daemon, command, parsed, asked, reply, shown, exit>>

(* The daemon turns the line into a request, or answers that it can't.     *)
Parse ==
  /\ pc = "sent" /\ Reached /\ request # Blank
  /\ parsed' = ParseRequest(request)
  /\ IF Refusal(request) = Absent
       THEN pc' = "parsed" /\ UNCHANGED reply
       ELSE pc' = "answered" /\ reply' = Error(Refusal(request))
  /\ UNCHANGED <<line, daemon, command, request, asked, shown, exit>>

Respond(answer) ==
  /\ pc' = "answered"
  /\ reply' = answer
  /\ UNCHANGED <<line, daemon, command, request, parsed, shown, exit>>

AnswerInfo ==
  /\ pc = "parsed" /\ parsed.op = "info"
  /\ \E len \in {0, daemon.capacity} :
       Respond(InfoAnswer(daemon.interval, daemon.capacity, len, Schema))
  /\ UNCHANGED asked

AnswerMetrics ==
  /\ pc = "parsed" /\ parsed.op = "metrics"
  /\ Respond(MetricsAnswer(Schema))
  /\ UNCHANGED asked

AnswerLatest ==
  /\ pc = "parsed" /\ parsed.op = "latest"
  /\ \E answer \in LatestAnswers : Respond(answer)
  /\ UNCHANGED asked

AnswerUnknownMetric ==
  /\ pc = "parsed" /\ parsed.op = "read"
  /\ Unknown(Schema, parsed.params.metrics)
  /\ Respond(Error("unknown metric"))
  /\ UNCHANGED asked

(* A width that was given may need too many buckets; one that was chosen   *)
(* for max_points never does (see BucketStep).                             *)
AnswerRead ==
  /\ pc = "parsed" /\ parsed.op = "read"
  /\ ~Unknown(Schema, parsed.params.metrics)
  /\ asked' = StoreCall(Schema, parsed.params)
  /\ \/ \E answer \in ReadAnswers(asked') : Respond(answer)
     \/ parsed.params.step # Absent /\ Respond(Error("too many buckets"))

(* The answer reaches smq, which prints it, as it is with --json.          *)
Receive ==
  /\ pc = "answered" /\ command # Absent
  /\ pc' = "done"
  /\ exit' = IF reply.ok THEN 0 ELSE 1
  /\ shown' = IF command.json THEN reply
              ELSE IF reply.ok THEN Render(command.command.op, reply) ELSE Absent
  /\ UNCHANGED <<line, daemon, command, request, parsed, asked, reply>>

(* smq can't connect, gets no answer, or waits for it too long.            *)
NoResponse == pc \in {"sent", "parsed", "answered"} /\ command # Absent

SendFails ==
  /\ NoResponse
  /\ pc' = "done" /\ exit' = 1
  /\ UNCHANGED <<line, daemon, exchange>>

(* On to the next request.                                                 *)
Finish ==
  /\ pc = "done" \/ (pc = "answered" /\ command = Absent)
  /\ pc' = "idle" /\ line' = Absent
  /\ command' = Absent /\ request' = Absent /\ parsed' = Absent
  /\ asked' = Absent /\ reply' = Absent /\ shown' = Absent /\ exit' = Absent
  /\ UNCHANGED daemon

Kill ==
  /\ pc = "idle"
  /\ pc' = "down" /\ daemon' = Absent
  /\ UNCHANGED <<line, exchange, exit>>

Next ==
  \/ Launch \/ Serve \/ DaemonEnds \/ Kill
  \/ SmqSends \/ SmqStops \/ SmqHasNoRequest \/ OtherClient
  \/ SkipBlank \/ Parse \/ AnswerInfo \/ AnswerMetrics \/ AnswerLatest
  \/ AnswerUnknownMetric \/ AnswerRead
  \/ Receive \/ SendFails \/ Finish

Spec == Init /\ [][Next]_vars

-----------------------------------------------------------------------------
(* "Every value has been checked, so building one through `parse`          *)
(* guarantees they are usable" (config.rs): the store's capacity covers the*)
(* retention and is no larger than that takes, all of it fits the memory   *)
(* allowed, and no two of its metrics have the same name.                  *)
SettingsAreUsable ==
  pc = "launched" /\ daemon # Absent =>
    /\ daemon.interval > 0 /\ daemon.flush_interval > 0
    /\ daemon.capacity * daemon.interval >= daemon.retention
    /\ daemon.capacity > 1 => (daemon.capacity - 1) * daemon.interval < daemon.retention
    /\ daemon.capacity <= MaxStoreBytes \div (8 * (Len(Schema) + 1))
    /\ IsInjective(Schema)

(* An option's value given after `=` and one given as the next argument    *)
(* mean the same, and so do different options in any order.                *)
SpellingDoesNotMatter ==
  pc = "launched" /\ (\A i \in DOMAIN line : line[i].inline # Absent) =>
    LET word(text) == [text |-> text, flag |-> text, inline |-> Absent]
        apart == FoldLeft(LAMBDA args, arg : args \o <<word(arg.flag), word(arg.inline)>>,
                          << >>, line)
    IN  /\ ParseSettings(apart) = ParseSettings(line)
        /\ daemon # Absent /\ IsInjective([i \in DOMAIN line |-> line[i].flag]) =>
             ParseSettings(Reverse(line)) = [config |-> daemon]

(* Whatever options it is given, smq sends nothing that the daemon does    *)
(* not understand: an answer that is an error is about the values asked    *)
(* for, never about the form of the request; a range given as two ages,    *)
(* the older one first, is in order whatever the clock reads. And smq turns*)
(* away only combinations of options that the daemon would refuse as well. *)
SmqAndDaemonAgree ==
  /\ reply # Absent /\ command # Absent /\ command.command.op # "raw" /\ ~reply.ok =>
       /\ command.command.op = "read"
       /\ reply.why \in {"from after to", "points out of range", "too many names",
                         "unknown metric", "too many buckets"}
       /\ LET from == command.command.read["--from"]
              to == command.command.read["--to"]
          IN  reply.why = "from after to" => ~(from.ago /\ to.ago /\ from.ms >= to.ms)
  /\ pc = "done" /\ exit = 2 /\ line # << >> /\ line[1].text = "read" =>
       LET last == ReadOptions(Tail(line)) IN
       Ended(last) = Absent =>
         \A now \in Clock : Refusal(ReadRequest(last.read, now)) # Absent

(* The store is never asked for a range that is upside down, for a width   *)
(* of 0 or fewer than 2 points (which it would make 1 and 2, and so answer *)
(* what was not asked), for a column it has not or one twice, or for two   *)
(* ways of downsampling; whoever asks.                                     *)
StoreIsAskedSensibly ==
  asked # Absent =>
    /\ asked.from # Absent /\ asked.to # Absent => asked.from <= asked.to
    /\ ToSet(asked.columns) \subseteq 0 .. WidthFor(Len(daemon.interfaces)) - 1
    /\ IsInjective(asked.columns)
    /\ asked.step # 0
    /\ asked.points # Absent => asked.points >= 2
    /\ asked.step = Absent \/ asked.points = Absent
    /\ asked.extremes => asked.step # Absent \/ asked.points # Absent

(* The time `ms` is what the user meant by `time`, given at `now`: that very*)
(* moment, or the one so long ago, which is 0 for one before 1970.         *)
IsMeant(ms, time, now) ==
  \/ ~time.ago /\ ms = time.ms
  \/ time.ago /\ (ms + time.ms = now \/ (ms = 0 /\ time.ms > now))

(* What smq prints under a name in a row is what the store had in that row *)
(* in the column of that name, or a dash if there was none: for `latest`   *)
(* every metric, for `read` exactly the metrics asked for, with smallest   *)
(* and largest values under their own headings if they were asked for; and *)
(* the store was asked about the times that were meant.                    *)
ShownUnderItsName ==
  shown # Absent /\ ~command.json =>
    LET cell(name, row, kind) == Number(Json(Measured(Position(Schema, name), row, kind)))
        op == command.command.op
    IN
    /\ op = "latest" /\ "values" \in DOMAIN shown =>
         shown.values = [name \in ToSet(Schema) |-> cell(name, 1, "value")]
    /\ op = "read" =>
         LET read == command.command.read
             names == ToSet(IF read["--metric"] = << >> THEN Schema ELSE read["--metric"])
             grouped == read["--step"] # Absent \/ read["--points"] # Absent
             is(label, name, kind) ==
               /\ label \in DOMAIN shown.columns
               /\ shown.columns[label] = [k \in DOMAIN shown.times |-> cell(name, k, kind)]
         IN
         /\ \A name \in names : is(name, name, IF grouped THEN "avg" ELSE "value")
         /\ read["--extremes"] =>
              \A name \in names : /\ is(Heading(name, " (min)"), name, "min")
                                  /\ is(Heading(name, " (max)"), name, "max")
         /\ Cardinality(DOMAIN shown.columns) =
              Cardinality(names) * (IF read["--extremes"] THEN 3 ELSE 1)
         /\ read["--from"] # Absent => IsMeant(asked.from, read["--from"], command.now)
         /\ read["--to"] # Absent => IsMeant(asked.to, read["--to"], command.now)

Leap(year) == (year % 4 = 0 /\ year % 100 # 0) \/ year % 400 = 0

MonthLengths(year) ==
  <<31, IF Leap(year) THEN 29 ELSE 28, 31, 30, 31, 30, 31, 31, 30, 31, 30, 31>>

(* The days of a year before a month of it.                                *)
DaysBefore(year, month) == FoldLeft(+, 0, SubSeq(MonthLengths(year), 1, month - 1))

(* It is a day that its month has, and as many days after the epoch as the *)
(* calendar says.                                                          *)
IsDay(date, days) ==
  /\ date.month \in 1 .. 12
  /\ date.day \in 1 .. MonthLengths(date.year)[date.month]
  /\ days = 365 * (date.year - 1970)
            + ((date.year - 1) \div 4 - (date.year - 1) \div 100 + (date.year - 1) \div 400 - 477)
            + DaysBefore(date.year, date.month) + date.day - 1

(* The date printed for the newest record is that of its day.              *)
DatesAreRight ==
  shown # Absent /\ "at" \in DOMAIN shown => IsDay(shown.at.date, reply.timestamp.days)
=============================================================================
