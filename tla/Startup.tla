------------------------------ MODULE Startup ------------------------------
(***************************************************************************)
(* daemon::run for several copies of the daemon that share a socket path   *)
(* and a state directory: the history is loaded and written afresh, the    *)
(* socket path is made free, bound, listened on and given its mode, and    *)
(* then the daemon serves and saves what it samples, until it is killed.   *)
(* Each system call on the shared path is a step of its own.               *)
(*                                                                         *)
(* The journal (Journal.tla) is reduced to the inode a daemon appends to   *)
(* and the inode that history.bin names; a flush follows each sample.      *)
(***************************************************************************)
EXTENDS Naturals, FiniteSets

CONSTANTS
  Daemons,    \* the copies that may run
  NoEntry,    \* the socket path does not exist
  NotASocket, \* the socket path is something else, a file say
  Stale,      \* the socket path is a socket that nobody listens on
  NoOne,      \* the inode of history.bin before any daemon has written it
  Together,   \* whether one copy may be starting while another is
  MaxRecords  \* a bound on the records sampled, in all

ASSUME TogetherAssumption == Together \in BOOLEAN
ASSUME NamesAssumption ==
  /\ {NoEntry, NotASocket, Stale, NoOne} \intersect Daemons = {}
  /\ NoEntry # NotASocket /\ NoEntry # Stale /\ NotASocket # Stale

VARIABLES
  pc,      \* daemon -> where its startup is
  path,    \* what the socket path is: the daemon that bound it, if it lives
  mem,     \* daemon -> the records in its store
  inode,   \* daemon -> the records in the file it has open, or last had
  history, \* whose inode history.bin names
  outcome, \* daemon -> how its last start ended, or how it itself did
  next     \* the next record

vars == <<pc, path, outcome, mem, inode, history, next>>
store == <<mem, inode, history, next>>


Starting(d) == pc[d] \notin {"down", "serving"}

(* A connection to the path succeeds once its daemon has listened.         *)
Answers(d) == pc[d] \in {"chmod", "serving"}

Goto(d, step) == pc' = [pc EXCEPT ![d] = step]

(* On to another step of the startup, with what it does to the path.       *)
Then(d, step, p) == Goto(d, step) /\ path' = p /\ UNCHANGED <<outcome, store>>

-----------------------------------------------------------------------------
Init ==
  /\ pc = [d \in Daemons |-> "down"]
  /\ path \in {NoEntry, NotASocket, Stale}
  /\ outcome = [d \in Daemons |-> "none"]
  /\ mem = [d \in Daemons |-> {}]
  /\ inode = [d \in Daemons \union {NoOne} |-> {}]
  /\ history = NoOne
  /\ next = 1

(* open_history as far as the load.                                        *)
Load(d) ==
  /\ pc[d] = "down"
  /\ ~Together => \A e \in Daemons : ~Starting(e)
  /\ mem' = [mem EXCEPT ![d] = inode[history]]
  /\ outcome' = [outcome EXCEPT ![d] = "none"]
  /\ Goto(d, "rewrite")
  /\ UNCHANGED <<path, inode, history, next>>

(* Journal::start: a new inode takes the name history.bin.                 *)
Rewrite(d) ==
  /\ pc[d] = "rewrite"
  /\ inode' = [inode EXCEPT ![d] = mem[d]]
  /\ history' = d
  /\ Goto(d, "stat")
  /\ UNCHANGED <<path, outcome, mem, next>>

(* A process that ends closes its socket; what it bound is then stale.     *)
Ends(d, why) ==
  /\ Goto(d, "down")
  /\ path' = IF path = d THEN Stale ELSE path
  /\ outcome' = [outcome EXCEPT ![d] = why]
  /\ mem' = [mem EXCEPT ![d] = {}]
  /\ UNCHANGED <<inode, history, next>>

(* Mutant: whatever is at the path is taken for a stale socket.            *)
StatAnything(d) ==
  pc[d] = "stat" /\ Then(d, IF path = NoEntry THEN "bind" ELSE "connect", path)

(* prepare_socket_path: symlink_metadata                                   *)
Stat(d) ==
  /\ pc[d] = "stat"
  /\ CASE path = NotASocket -> Ends(d, "NotASocket")
       [] path = NoEntry -> Then(d, "bind", path)
       [] OTHER -> Then(d, "connect", path)

(* Mutants: a socket is removed without trying to connect to it; a socket  *)
(* that is there is taken to be live.                                      *)
ConnectNever(d) == pc[d] = "connect" /\ Then(d, "remove", path)
ConnectAlways(d) == pc[d] = "connect" /\ Ends(d, "AlreadyRunning")

(* prepare_socket_path: connect; any error is taken to mean it is stale.   *)
Connect(d) ==
  /\ pc[d] = "connect"
  /\ IF path \in Daemons /\ Answers(path)
       THEN Ends(d, "AlreadyRunning")
       ELSE Then(d, "remove", path)

(* prepare_socket_path: remove_file, of whatever the path now names.       *)
Remove(d) ==
  /\ pc[d] = "remove"
  /\ IF path = NoEntry THEN Ends(d, "Socket") ELSE Then(d, "bind", NoEntry)

(* UnixListener::bind, its first half: the path must be free.              *)
Bind(d) ==
  /\ pc[d] = "bind"
  /\ IF path # NoEntry THEN Ends(d, "Socket") ELSE Then(d, "listen", d)

(* UnixListener::bind, its second half.                                    *)
Listen(d) == pc[d] = "listen" /\ Then(d, "chmod", path)

(* set_permissions on the path, then the sampler thread and server::serve. *)
Serve(d) ==
  /\ pc[d] = "chmod"
  /\ IF path = NoEntry THEN Ends(d, "Socket")
     ELSE /\ Goto(d, "serving") /\ outcome' = [outcome EXCEPT ![d] = "serving"]
          /\ UNCHANGED <<path, store>>

(* A sample, and the flush that appends it to the file the daemon has open.*)
Record(d) ==
  /\ pc[d] = "serving" /\ next <= MaxRecords
  /\ mem' = [mem EXCEPT ![d] = @ \union {next}]
  /\ inode' = [inode EXCEPT ![d] = @ \union {next}]
  /\ next' = next + 1
  /\ UNCHANGED <<pc, path, outcome, history>>

Kill(d) == pc[d] # "down" /\ Ends(d, "killed")

Boot(d) ==
  Rewrite(d) \/ Stat(d) \/ Connect(d) \/ Remove(d) \/ Bind(d) \/ Listen(d) \/ Serve(d)

Next == \E d \in Daemons : Load(d) \/ Boot(d) \/ Record(d) \/ Kill(d)

(* A copy that has begun to start goes on; nothing makes one start.        *)
Spec == Init /\ [][Next]_vars /\ \A d \in Daemons : WF_vars(Boot(d))

-----------------------------------------------------------------------------
(* "Never something that isn't a socket": such a path is left alone.       *)
OthersAreKept == [][path = NotASocket => path' = NotASocket]_path

(* "It replaces a stale socket left by an earlier run, but refuses to      *)
(* replace a live one": no step takes the path from a daemon that answers  *)
(* on it and goes on running.                                              *)
LiveIsKept ==
  [][\A d \in Daemons : path = d /\ Answers(d) /\ pc'[d] # "down" => path' = d]_vars

(* A stale socket never keeps a daemon from starting, and nothing else     *)
(* does but what the code names: a copy that begins to start serves in the *)
(* end, unless it is killed, the path is not a socket, or another copy has *)
(* been at work.                                                           *)
StartsInTheEnd ==
  \A d \in Daemons :
    pc[d] = "rewrite" ~>
      \/ outcome[d] \in {"serving", "killed"}
      \/ outcome[d] = "NotASocket" /\ path = NotASocket
      \/ outcome[d] = "AlreadyRunning" /\ \E e \in Daemons \ {d} : outcome[e] # "none"

(* "A crash loses at most the last flush interval's records": what the     *)
(* daemon that serves has flushed is there for the next run to load.       *)
FlushedIsFound == \A d \in Daemons : pc[d] = "serving" => mem[d] \subseteq inode[history]
=============================================================================
