------------------------------ MODULE Settings ------------------------------
(***************************************************************************)
(* The daemon's command line: config.rs, which turns it into settings, and *)
(* cli.rs, which decides what the program does next.                       *)
(*                                                                         *)
(* An argument has its text, its flag (what is before the `=` of a long    *)
(* option, else the text) and its inline value, Absent if there is no `=`. *)
(* A text is known by what the parsers see of it: see Look.                *)
(***************************************************************************)
EXTENDS Metrics

CONSTANTS
  Absent,       \* None
  Looks,        \* text -> what the parsers see of it; the others are plain words
  MaxMillis,    \* u64::MAX
  MaxStoreBytes \* MAX_STORE_BYTES

(* What may be wrong with a value.                                         *)
Problems ==
  {"no whole number", "no such unit", "too long", "zero", "no permission bits",
   "no usable name", "given more than once"}

ASSUME MaxMillisAssumption == MaxMillis \in Nat
ASSUME LooksAssumption ==
  \A text \in DOMAIN Looks :
    /\ Looks[text].number \in Nat \cup {Absent}
    /\ Looks[text].octal \in Nat \cup {Absent}

B == INSTANCE Buckets WITH MaxTime <- MaxMillis

(* The number made by its leading digits, Absent if there are none or too  *)
(* many for a u64, with what comes after; the number it is in octal; its   *)
(* length, and whether it has only the characters interfaces may have.     *)
Look(text) ==
  IF text \in DOMAIN Looks THEN Looks[text]
  ELSE [number |-> Absent, unit |-> text, octal |-> Absent, length |-> 10, plain |-> FALSE]

-----------------------------------------------------------------------------
(* Durations, in milliseconds.                                             *)

Units == {"ms", "", "s", "m", "h", "d"}

MillisPer ==
  [unit \in Units |->
     CASE unit = "ms" -> 1
       [] unit = "m" -> 60 * 1000
       [] unit = "h" -> 60 * 60 * 1000
       [] unit = "d" -> 24 * 60 * 60 * 1000
       [] OTHER -> 1000]

(* Why parse_duration refuses a text, or Absent.                           *)
DurationProblem(text) ==
  LET look == Look(text) IN
  IF look.number = Absent THEN "no whole number"
  ELSE IF look.unit \notin Units THEN "no such unit"
  ELSE IF look.number > MaxMillis \div MillisPer[look.unit] THEN "too long"
  ELSE IF look.number = 0 THEN "zero"
  ELSE Absent

Millis(text) == Look(text).number * MillisPer[Look(text).unit]

-----------------------------------------------------------------------------
(* parse.  The settings so far are a function of the options; `wants` has  *)
(* the option that waits for its value, and `result` how it all ended.     *)

Times == {"--interval", "--retention", "--flush-interval"}

Options ==
  Times \cup {"--socket", "--socket-mode", "--interface", "--state-dir", "--root"}

(* How a command line, or that of `smq`, may turn out when there is nothing*)
(* to serve or to ask.                                                     *)
Endings ==
  [print : {"help", "version"}] \cup
  [error : Problems \cup {"unknown argument", "unknown read option", "missing value"}]

ASSUME AbsentAssumption == Absent \notin Nat \cup Problems \cup Options \cup Endings

Defaults ==
  [option \in Options |->
     CASE option = "--socket" -> "/run/simple-metrics/simple-metrics.sock"
       [] option = "--socket-mode" -> 432
       [] option = "--interval" -> 5000
       [] option = "--retention" -> 168 * MillisPer["h"]
       [] option = "--interface" -> << >>
       [] option = "--state-dir" -> Absent
       [] option = "--flush-interval" -> 60000
       [] OTHER -> "/"]

DefaultInterfaces == <<"eth0", "wlan0", "wlan1", "br-ap", "wg0">>

(* Why an option does not take this value, or Absent.                      *)
ValueProblem(settings, option, text) ==
  CASE option \in Times -> DurationProblem(text)
    [] option = "--socket-mode" ->
         IF Look(text).octal \in 0 .. 511 THEN Absent ELSE "no permission bits"
    [] option = "--interface" ->
         IF ~ValidInterface(Look(text)) THEN "no usable name"
         ELSE IF Contains(settings[option], text) THEN "given more than once" ELSE Absent
    [] OTHER -> Absent

ValueOf(settings, option, text) ==
  CASE option \in Times -> Millis(text)
    [] option = "--socket-mode" -> Look(text).octal
    [] option = "--interface" -> Append(settings[option], text)
    [] OTHER -> text

SetOption(state, option, text) ==
  LET problem == ValueProblem(state.settings, option, text) IN
  IF problem # Absent THEN [state EXCEPT !.result = [error |-> problem]]
  ELSE [state EXCEPT !.settings[option] = ValueOf(state.settings, option, text)]

(* An argument that is no option with a value.                             *)
OtherArgument(state, arg) ==
  [state EXCEPT !.result =
     CASE arg.flag \in {"-h", "--help"} -> [print |-> "help"]
       [] arg.flag \in {"-V", "--version"} -> [print |-> "version"]
       [] OTHER -> [error |-> "unknown argument"]]

(* Mutant: an option with a value of its own takes the next argument too.  *)
ReadArgumentTakingNext(state, arg) ==
  IF state.result # Absent THEN state
  ELSE IF state.wants # Absent
    THEN SetOption([state EXCEPT !.wants = Absent], state.wants, arg.text)
  ELSE IF arg.flag \notin Options THEN OtherArgument(state, arg)
  ELSE [state EXCEPT !.wants = arg.flag]

(* An option that wants a value and has none of its own takes the argument *)
(* after it, whatever that is.                                             *)
ReadArgument(state, arg) ==
  IF state.result # Absent THEN state
  ELSE IF state.wants # Absent
    THEN SetOption([state EXCEPT !.wants = Absent], state.wants, arg.text)
  ELSE IF arg.flag \notin Options THEN OtherArgument(state, arg)
  ELSE IF arg.inline # Absent THEN SetOption(state, arg.flag, arg.inline)
  ELSE [state EXCEPT !.wants = arg.flag]

(* How a command line ends that may end too early.                         *)
Ended(last) ==
  IF last.result = Absent /\ last.wants # Absent THEN [error |-> "missing value"] ELSE last.result

(* Store::bytes_for one record of `width` values and its timestamp.        *)
BytesFor(width) == 8 * (width + 1)

(* Mutant: the division rounds down.                                       *)
CapacityForRoundedDown(retention, interval, interfaces) ==
  LET capacity == B!AtLeast(retention \div interval, 1) IN
  IF capacity <= MaxStoreBytes \div BytesFor(WidthFor(interfaces)) THEN capacity ELSE Absent

(* capacity_for: the records that cover the retention, unless a store of   *)
(* them would be larger than is allowed.                                   *)
CapacityFor(retention, interval, interfaces) ==
  LET capacity == B!AtLeast(B!DivCeil(retention, interval), 1) IN
  IF capacity <= MaxStoreBytes \div BytesFor(WidthFor(interfaces)) THEN capacity ELSE Absent

(* The settings given turned into a Config.                                *)
Finished(settings) ==
  LET interfaces == IF settings["--interface"] = << >> THEN DefaultInterfaces
                    ELSE settings["--interface"]
      capacity == CapacityFor(settings["--retention"], settings["--interval"], Len(interfaces))
  IN  IF capacity = Absent THEN [error |-> "too large"]
      ELSE [config |-> [socket |-> settings["--socket"],
                        socket_mode |-> settings["--socket-mode"],
                        interval |-> settings["--interval"],
                        retention |-> settings["--retention"],
                        capacity |-> capacity,
                        state_dir |-> settings["--state-dir"],
                        flush_interval |-> settings["--flush-interval"],
                        interfaces |-> interfaces,
                        root |-> settings["--root"]]]

(* What the command line asks for: to print something, to run with a       *)
(* config, or why neither.                                                 *)
ParseSettings(args) ==
  LET start == [settings |-> Defaults, wants |-> Absent, result |-> Absent]
      last == FoldLeft(ReadArgument, start, args)
  IN  IF Ended(last) # Absent THEN Ended(last) ELSE Finished(last.settings)

(* cli::run: the code to exit with, Absent if there is a config to serve   *)
(* with.                                                                   *)
ExitCode(settings) ==
  CASE "config" \in DOMAIN settings -> Absent
    [] "print" \in DOMAIN settings -> 0
    [] OTHER -> 2
=============================================================================
