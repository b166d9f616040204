----------------------------- MODULE SmqOptions -----------------------------
(***************************************************************************)
(* The command line of smq (query.rs), and the request it makes of it.     *)
(*                                                                         *)
(* Arguments are those of Settings, but an `=` means nothing to smq.  The  *)
(* argument of `raw` has the JSON it is in `json`.  A request is a record  *)
(* of an object's fields, each Absent, or a value.                         *)
(***************************************************************************)
EXTENDS Settings

CONSTANT NotJson \* what is no JSON

LocalSocket == "/tmp/simple-metrics.sock"

(* parse_time: an age or a time since the epoch, or what is wrong with it. *)
TimeProblem(text) == IF text = "now" THEN Absent ELSE DurationProblem(text)

IsDigits(text) == Look(text).number # Absent /\ Look(text).unit = ""

Time(text) ==
  IF text = "now" THEN [ago |-> TRUE, ms |-> 0]
  ELSE IF IsDigits(text) THEN [ago |-> FALSE, ms |-> Look(text).number]
  ELSE [ago |-> TRUE, ms |-> Millis(text)]

-----------------------------------------------------------------------------
(* The options of `smq read`.                                              *)

ReadNames == {"--from", "--to", "--metric", "--step", "--points", "--extremes"}

NoOptions ==
  [option \in ReadNames |->
     CASE option = "--metric" -> << >>
       [] option = "--extremes" -> FALSE
       [] OTHER -> Absent]

ReadProblem(option, text) ==
  CASE option \in {"--from", "--to"} -> IF IsDigits(text) THEN Absent ELSE TimeProblem(text)
    [] option = "--step" -> DurationProblem(text)
    [] option = "--points" -> IF IsDigits(text) THEN Absent ELSE "no whole number"
    [] OTHER -> Absent

ReadValue(read, option, text) ==
  CASE option \in {"--from", "--to"} -> Time(text)
    [] option = "--step" -> Millis(text)
    [] option = "--points" -> Look(text).number
    [] OTHER -> Append(read[option], text)

SetReadOption(state, option, text) ==
  IF ReadProblem(option, text) # Absent
    THEN [state EXCEPT !.result = [error |-> ReadProblem(option, text)]]
    ELSE [state EXCEPT !.read[option] = ReadValue(state.read, option, text)]

(* The options, each understood on its own.                                *)
ReadOption(state, arg) ==
  IF state.result # Absent THEN state
  ELSE IF state.wants # Absent
    THEN SetReadOption([state EXCEPT !.wants = Absent], state.wants, arg.text)
  ELSE
    CASE arg.text = "--extremes" -> [state EXCEPT !.read["--extremes"] = TRUE]
      [] arg.text \in ReadNames \ {"--extremes"} -> [state EXCEPT !.wants = arg.text]
      [] OTHER -> [state EXCEPT !.result = [error |-> "unknown read option"]]

ReadOptions(args) ==
  FoldLeft(ReadOption, [read |-> NoOptions, wants |-> Absent, result |-> Absent], args)

(* Mutant: extremes are taken to need --points.                            *)
BadOptionsPoints(read) ==
  \/ read["--step"] # Absent /\ read["--points"] # Absent
  \/ read["--extremes"] /\ read["--points"] = Absent

(* Options that do not go together.                                        *)
BadOptions(read) ==
  \/ read["--step"] # Absent /\ read["--points"] # Absent
  \/ read["--extremes"] /\ read["--step"] = Absent /\ read["--points"] = Absent

ParseRead(args) ==
  LET last == ReadOptions(args) IN
  IF Ended(last) # Absent THEN Ended(last)
  ELSE IF BadOptions(last.read) THEN [error |-> "options that do not go together"]
  ELSE [op |-> "read", read |-> last.read]

-----------------------------------------------------------------------------
(* The command line as a whole.                                            *)

PlainOps == {"info", "metrics", "latest"}

ASSUME WordsAssumption == Absent \notin PlainOps \cup {"read", "raw"} \cup ReadNames

(* The command made of its word and of the arguments after it.             *)
CommandOf(word, rest) ==
  IF word = Absent THEN [error |-> "no command"]
  ELSE
    CASE word \in PlainOps -> IF rest = << >> THEN [op |-> word] ELSE [error |-> "no arguments"]
      [] word = "raw" -> IF Len(rest) = 1 THEN [op |-> "raw", json |-> rest[1].json]
                         ELSE [error |-> "exactly one argument"]
      [] OTHER -> ParseRead(rest)

(* An argument: after the command's word all are the command's.            *)
SmqArgument(state, arg) ==
  IF state.result # Absent THEN state
  ELSE IF state.wants # Absent THEN [state EXCEPT !.wants = Absent, !.socket = arg.text]
  ELSE IF state.word # Absent THEN [state EXCEPT !.rest = Append(@, arg)]
  ELSE
    CASE arg.text = "--socket" -> [state EXCEPT !.wants = arg.text]
      [] arg.text \in {"-h", "--help"} -> [state EXCEPT !.result = [print |-> "help"]]
      [] arg.text \in {"-V", "--version"} -> [state EXCEPT !.result = [print |-> "version"]]
      [] arg.text = "--json" -> [state EXCEPT !.json = TRUE]
      [] arg.text = "--local" -> [state EXCEPT !.socket = LocalSocket]
      [] arg.text \in PlainOps \cup {"read", "raw"} -> [state EXCEPT !.word = arg.text]
      [] OTHER -> [state EXCEPT !.result = [error |-> "unknown argument"]]

(* parse: what to print, the command to run and how, or what is wrong.     *)
ParseSmq(args) ==
  LET start == [socket |-> Absent, json |-> FALSE, word |-> Absent, rest |-> << >>,
                wants |-> Absent, result |-> Absent]
      last == FoldLeft(SmqArgument, start, args)
      command == CommandOf(last.word, last.rest)
  IN  IF Ended(last) # Absent THEN Ended(last)
      ELSE IF "error" \in DOMAIN command THEN command
      ELSE [socket |-> last.socket, json |-> last.json, command |-> command]

(* The socket to connect to: as told, else by the environment, else the    *)
(* daemon's default.                                                       *)
SocketFor(socket, env) ==
  IF socket # Absent THEN socket
  ELSE IF env # Absent THEN env ELSE Defaults["--socket"]

-----------------------------------------------------------------------------
(* The request.                                                            *)

Object(op) ==
  [v |-> Absent, op |-> op, from |-> Absent, to |-> Absent, metrics |-> Absent,
   step_ms |-> Absent, max_points |-> Absent, extremes |-> Absent]

(* A time as milliseconds since the epoch; one before the epoch is 0.      *)
Resolve(time, now) ==
  IF ~time.ago THEN time.ms ELSE IF time.ms > now THEN 0 ELSE now - time.ms

ReadRequest(read, now) ==
  LET time(t) == IF t = Absent THEN Absent ELSE Resolve(t, now) IN
  [Object("read") EXCEPT
     !.from = time(read["--from"]), !.to = time(read["--to"]),
     !.metrics = IF read["--metric"] = << >> THEN Absent ELSE read["--metric"],
     !.step_ms = read["--step"], !.max_points = read["--points"],
     !.extremes = IF read["--extremes"] THEN TRUE ELSE Absent]

(* request_for; a text for `raw` that is no JSON makes none.               *)
RequestFor(command, now) ==
  CASE command.op = "raw" -> command.json
    [] command.op = "read" -> ReadRequest(command.read, now)
    [] OTHER -> Object(command.op)
=============================================================================
