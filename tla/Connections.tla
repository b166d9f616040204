---------------------------- MODULE Connections ----------------------------
(***************************************************************************)
(* The threads of a running daemon: the one that accepts (server.rs), one  *)
(* per connection (server.rs, protocol.rs) and the sampler (daemon.rs),    *)
(* with the connection counter and the lock on the store (state.rs) that   *)
(* they share.  A client may send, stall or hang up whenever it likes.     *)
(*                                                                         *)
(* Of the store only its version matters, told apart modulo 2.  A request  *)
(* stands for its longest path: a read with max_points takes the bounds of *)
(* the range first and the records after.                                  *)
(***************************************************************************)
EXTENDS Integers, FiniteSets

CONSTANTS
  Clients,        \* clients, each with one connection at a time
  MaxConnections, \* MAX_CONNECTIONS
  Sampler,        \* the sampler thread
  Nobody

ASSUME ClientsAssumption == IsFiniteSet(Clients)
ASSUME LimitAssumption == MaxConnections \in Nat \ {0}
ASSUME NamesAssumption == Sampler \notin Clients /\ Nobody \notin Clients \union {Sampler}

VARIABLES
  conn,     \* client -> where its connection is
  active,   \* the connections counted
  turning,  \* the connection the accepting thread is turning away, if any
  backoff,  \* whether that thread sleeps after an accept that failed
  sampling, \* where the sampler is in its turn
  readers,  \* who holds the lock for reading
  writer,   \* who holds the lock for writing
  version,  \* the version of the store
  seen      \* client -> the version whose bounds its answer was worked out for

vars == <<conn, active, turning, backoff, sampling, readers, writer, version, seen>>
lock == <<readers, writer>>
others == <<active, turning, backoff, sampling, lock, version, seen>>

Goto(c, step) == conn' = [conn EXCEPT ![c] = step]

Moves(c, from, to) == conn[c] = from /\ Goto(c, to)

-----------------------------------------------------------------------------
Init ==
  /\ conn = [c \in Clients |-> "away"]
  /\ active = 0 /\ turning = Nobody /\ backoff = FALSE
  /\ sampling = "asleep" /\ readers = {} /\ writer = Nobody
  /\ version = 0 /\ seen = [c \in Clients |-> 0]

(* What clients do: connect; send a request, one that can't be answered or *)
(* one too long; take a response; hang up.                                 *)
Client(c) ==
  /\ \/ Moves(c, "away", "backlog")
     \/ Moves(c, "reading", "asked")
     \/ Moves(c, "reading", "writing")
     \/ Moves(c, "reading", "lastWords")
     \/ Moves(c, "reading", "closing")
     \/ Moves(c, "writing", "reading")
     \/ Moves(c, "writing", "closing")
     \/ Moves(c, "lastWords", "closing")
  /\ UNCHANGED others

(* A read or a write on the socket that waits for IO_TIMEOUT fails.        *)
TimesOut(c) ==
  /\ conn[c] \in {"reading", "writing", "lastWords"}
  /\ Goto(c, "closing")
  /\ UNCHANGED others

MayAccept == turning = Nobody /\ ~backoff

(* accept fails, most likely for want of file descriptors, and the thread  *)
(* sleeps before it tries again; the connection stays where it was.        *)
AcceptFails(c) ==
  /\ MayAccept /\ conn[c] = "backlog"
  /\ backoff' = TRUE
  /\ UNCHANGED <<conn, active, turning, sampling, lock, version, seen>>

BackoffEnds ==
  /\ backoff /\ backoff' = FALSE
  /\ UNCHANGED <<conn, active, turning, sampling, lock, version, seen>>

(* Mutant: a connection is let in when the count was at the limit already. *)
AcceptOneMore(c) ==
  /\ MayAccept /\ conn[c] = "backlog"
  /\ active' = active + 1
  /\ IF active > MaxConnections
       THEN turning' = c /\ conn' = conn
       ELSE turning' = Nobody /\ Goto(c, "reading")
  /\ UNCHANGED <<backoff, sampling, lock, version, seen>>

(* accept and Slot::acquire: the counter goes up first, and the connection *)
(* is turned away if it was at the limit before.                           *)
Accept(c) ==
  /\ MayAccept /\ conn[c] = "backlog"
  /\ active' = active + 1
  /\ IF active >= MaxConnections
       THEN turning' = c /\ conn' = conn
       ELSE turning' = Nobody /\ Goto(c, "reading")
  /\ UNCHANGED <<backoff, sampling, lock, version, seen>>

(* The thread can't be started: the slot is dropped with its closure.      *)
SpawnFails(c) ==
  /\ MayAccept /\ conn[c] = "backlog" /\ active < MaxConnections
  /\ Goto(c, "away")
  /\ UNCHANGED others

(* Slot::acquire, after the limit; the connection is told and dropped.     *)
TurnAway ==
  /\ turning # Nobody
  /\ Goto(turning, "away")
  /\ active' = active - 1 /\ turning' = Nobody
  /\ UNCHANGED <<backoff, sampling, lock, version, seen>>

(* Mutant: the thread does not own its slot, so nothing drops it.          *)
CloseCounted(c) ==
  /\ Moves(c, "closing", "away")
  /\ UNCHANGED others

(* The end of a connection's thread: its slot is dropped.                  *)
Close(c) ==
  /\ Moves(c, "closing", "away")
  /\ active' = active - 1
  /\ UNCHANGED <<turning, backoff, sampling, lock, version, seen>>

-----------------------------------------------------------------------------
(* Answering.  A thread that waits to write goes before new readers.       *)

MayRead == writer = Nobody /\ sampling # "waiting"

(* Mutant: the lock is given up between the bounds and the records.        *)
TakeBoundsAlone(c) ==
  /\ MayRead /\ Moves(c, "asked", "bounds")
  /\ seen' = [seen EXCEPT ![c] = version]
  /\ UNCHANGED <<active, turning, backoff, sampling, lock, version>>

(* answer_read: the lock is taken and the bounds of the range are found.   *)
TakeBounds(c) ==
  /\ MayRead /\ Moves(c, "asked", "bounds")
  /\ readers' = readers \union {c}
  /\ seen' = [seen EXCEPT ![c] = version]
  /\ UNCHANGED <<active, turning, backoff, sampling, writer, version>>

(* Mutant: the answer is written before the lock is given up.              *)
CopyAndWrite(c) ==
  /\ Moves(c, "bounds", "writing")
  /\ UNCHANGED others

(* answer_read: the records are summed up, and the lock is given up before *)
(* any of the answer is written.                                           *)
Copy(c) ==
  /\ Moves(c, "bounds", "writing")
  /\ readers' = readers \ {c}
  /\ UNCHANGED <<active, turning, backoff, sampling, writer, version, seen>>

-----------------------------------------------------------------------------
(* The sampler's turn.                                                     *)

Sampling(from, to) == sampling = from /\ sampling' = to

WantToPush ==
  /\ Sampling("asleep", "waiting")
  /\ UNCHANGED <<conn, active, turning, backoff, lock, version, seen>>

(* Mutant: the guard of the push outlives it.                              *)
PushKeepingLock ==
  /\ Sampling("waiting", "pushed") /\ readers = {} /\ writer = Nobody
  /\ writer' = Sampler
  /\ version' = 1 - version
  /\ UNCHANGED <<conn, active, turning, backoff, readers, seen>>

(* The push, under the write lock, which is given up after it.             *)
Push ==
  /\ Sampling("waiting", "pushed") /\ readers = {} /\ writer = Nobody
  /\ version' = 1 - version
  /\ UNCHANGED <<conn, active, turning, backoff, lock, seen>>

(* flush_if_due, under a read lock, which others may share.                *)
FlushBegins ==
  /\ Sampling("pushed", "flushing") /\ writer = Nobody
  /\ readers' = readers \union {Sampler}
  /\ UNCHANGED <<conn, active, turning, backoff, writer, version, seen>>

FlushEnds ==
  /\ Sampling("flushing", "asleep")
  /\ readers' = readers \ {Sampler}
  /\ UNCHANGED <<conn, active, turning, backoff, writer, version, seen>>

SamplerStep == WantToPush \/ Push \/ FlushBegins \/ FlushEnds

Server(c) == Accept(c) \/ Close(c) \/ TakeBounds(c) \/ Copy(c)

Next ==
  \/ SamplerStep \/ TurnAway \/ BackoffEnds
  \/ \E c \in Clients :
       Server(c) \/ Client(c) \/ TimesOut(c) \/ AcceptFails(c) \/ SpawnFails(c)

(* The threads of the daemon run when they can.  A reader that waits for   *)
(* the lock gets it in the end: the lock wakes the readers that wait when  *)
(* a writer lets go, and the sampler then sleeps for the rest of its       *)
(* interval.  Clients need do nothing, and a property that relies on the   *)
(* timeouts says so.                                                       *)
Spec ==
  /\ Init /\ [][Next]_vars
  /\ WF_vars(SamplerStep) /\ WF_vars(TurnAway) /\ WF_vars(BackoffEnds)
  /\ \A c \in Clients : WF_vars(Server(c)) /\ SF_vars(TakeBounds(c))

-----------------------------------------------------------------------------
(* The connections that have a thread.                                     *)
Served == {c \in Clients : conn[c] \notin {"away", "backlog"}}

TypeOK ==
  /\ conn \in [Clients -> {"away", "backlog", "reading", "asked", "bounds", "writing",
                           "lastWords", "closing"}]
  /\ active \in Nat /\ turning \in Clients \union {Nobody} /\ backoff \in BOOLEAN
  /\ sampling \in {"asleep", "waiting", "pushed", "flushing"}
  /\ readers \subseteq Clients \union {Sampler} /\ writer \in {Nobody, Sampler}
  /\ version \in {0, 1} /\ seen \in [Clients -> {0, 1}]

(* The counter is the number of threads, and one more only while a         *)
(* connection is being turned away: no slot is lost or freed twice however *)
(* connections come and go, and there are never more than the limit.       *)
SlotsAreCounted ==
  /\ active = Cardinality(Served) + (IF turning = Nobody THEN 0 ELSE 1)
  /\ Cardinality(Served) <= MaxConnections

(* "So a slow client can never hold up the sampler": nobody holds the lock *)
(* while it waits for a client.                                            *)
NoLockWhileWaiting ==
  \A c \in Clients \intersect readers : conn[c] \notin {"reading", "writing", "lastWords"}

(* The sampler goes on sampling whatever clients do, if all of them stall  *)
(* for ever with requests half made and no timeout ever fires.             *)
SamplerGoesOn == []<>(sampling = "asleep") /\ []<>(sampling = "pushed")

(* The width worked out for a read is used on the very records it was      *)
(* worked out for: no push comes between the two.                          *)
AnswerOfOneStore == \A c \in Clients : conn[c] = "bounds" => seen[c] = version

(* A request that has been read gets its answer written whatever other     *)
(* clients do, though pushes go before reads.                              *)
RequestsAreAnswered == \A c \in Clients : conn[c] = "asked" ~> conn[c] = "writing"

(* Once clients fall silent, and the daemon has file descriptors again,    *)
(* nobody is left waiting to be let in and every slot is free for good, by *)
(* the timeouts and whatever had failed before.                            *)
SilenceFreesSlots ==
  /\ \A c \in Clients : WF_vars(TimesOut(c))
  /\ <>[][\A c \in Clients : ~Client(c) /\ ~AcceptFails(c)]_vars
  => <>[](active = 0 /\ \A c \in Clients : conn[c] = "away")
=============================================================================
