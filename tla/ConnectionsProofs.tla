------------------------- MODULE ConnectionsProofs -------------------------
(***************************************************************************)
(* Proofs about Connections.tla for every set of clients and every limit:  *)
(* the slots are counted, nobody waits for a client with the lock held,    *)
(* no push comes between the two halves of an answer, and nobody waits for *)
(* the lock in a circle.                                                   *)
(***************************************************************************)
EXTENDS Connections, FiniteSetTheorems, TLAPS

Steps == {"away", "backlog", "reading", "asked", "bounds", "writing", "lastWords", "closing"}

(* Who is turned away has been let in by nobody.                           *)
TurningWaits == turning # Nobody => conn[turning] = "backlog"

(* The lock is held for reading by those that are between the two halves   *)
(* of an answer, and for writing by nobody from one step to the next.      *)
HoldersAreKnown ==
  /\ writer = Nobody
  /\ \A c \in Clients : c \in readers <=> conn[c] = "bounds"

-----------------------------------------------------------------------------
(* Counting.                                                               *)

LEMMA ServedFinite == IsFiniteSet(Served)
  BY ClientsAssumption, FS_Subset DEF Served

(* A move between two places that have a thread, or have none, leaves the  *)
(* connections that are served as they are.                                *)
LEMMA MoveKeepsServed ==
  ASSUME TypeOK, NEW c \in Clients, NEW to \in Steps, Goto(c, to),
         (conn[c] \in {"away", "backlog"}) <=> (to \in {"away", "backlog"})
  PROVE  Served' = Served
  BY DEF TypeOK, Goto, Served, Steps

(* A connection that gets a thread is one more.                            *)
LEMMA ServedGrows ==
  ASSUME TypeOK, NEW c \in Clients, conn[c] = "backlog", Goto(c, "reading")
  PROVE  Cardinality(Served') = Cardinality(Served) + 1
  <1>1. Served' = Served \union {c} /\ c \notin Served
    BY DEF TypeOK, Goto, Served
  <1>2. QED
    BY <1>1, ServedFinite, FS_AddElement

(* A thread that ends is one less.                                         *)
LEMMA ServedShrinks ==
  ASSUME TypeOK, NEW c \in Clients, conn[c] = "closing", Goto(c, "away")
  PROVE  Cardinality(Served') = Cardinality(Served) - 1
  <1>1. Served' = Served \ {c} /\ c \in Served
    BY DEF TypeOK, Goto, Served
  <1>2. QED
    BY <1>1, ServedFinite, FS_RemoveElement

LEMMA ServedIsNat == Cardinality(Served) \in Nat
  BY ServedFinite, FS_CardinalityType

-----------------------------------------------------------------------------
(* Type correctness.                                                       *)

LEMMA InitTypes == Init => TypeOK
  <1> SUFFICES ASSUME Init PROVE TypeOK
    OBVIOUS
  <1>1. conn \in [Clients -> {"away", "backlog", "reading", "asked", "bounds", "writing",
                             "lastWords", "closing"}]
    BY DEF Init
  <1>2. seen \in [Clients -> {0, 1}]
    BY DEF Init
  <1>3. turning \in Clients \union {Nobody} /\ writer \in {Nobody, Sampler}
    BY DEF Init
  <1>4. active \in Nat /\ backoff \in BOOLEAN /\ version \in {0, 1}
    BY DEF Init
  <1>5. QED
    BY <1>1, <1>2, <1>3, <1>4 DEF Init, TypeOK

LEMMA NextTypes ==
  ASSUME TypeOK, TurningWaits, SlotsAreCounted, [Next]_vars
  PROVE  TypeOK'
  <1> USE DEF Goto, Moves, lock, others
  <1>1. CASE SamplerStep
    BY <1>1 DEF SamplerStep, WantToPush, Push, FlushBegins, FlushEnds, Sampling, TypeOK
  <1>2. CASE TurnAway
    <2>1. active' \in Nat
      BY <1>2, ServedIsNat DEF TurnAway, SlotsAreCounted
    <2>2. QED
      BY <1>2, <2>1 DEF TurnAway, TypeOK
  <1>3. CASE BackoffEnds
    BY <1>3 DEF BackoffEnds, TypeOK
  <1>4. ASSUME NEW c \in Clients,
               Client(c) \/ TimesOut(c) \/ AcceptFails(c) \/ SpawnFails(c)
        PROVE  TypeOK'
    BY <1>4 DEF Client, TimesOut, AcceptFails, SpawnFails, TypeOK
  <1>5. ASSUME NEW c \in Clients, Server(c)
        PROVE  TypeOK'
    <2>1. CASE Accept(c)
      BY <2>1 DEF Accept, TypeOK
    <2>2. CASE Close(c)
      <3>1. c \in Served
        BY <2>2 DEF Close, Served
      <3>2. Cardinality(Served) # 0
        BY <3>1, ServedFinite, FS_EmptySet
      <3>3. active' \in Nat
        BY <2>2, <3>2, ServedIsNat DEF Close, SlotsAreCounted
      <3>4. QED
        BY <2>2, <3>3 DEF Close, TypeOK
    <2>3. CASE TakeBounds(c) \/ Copy(c)
      BY <2>3 DEF TakeBounds, Copy, TypeOK
    <2>4. QED
      BY <1>5, <2>1, <2>2, <2>3 DEF Server
  <1>6. CASE UNCHANGED vars
    BY <1>6 DEF vars, TypeOK
  <1>7. QED
    BY <1>1, <1>2, <1>3, <1>4, <1>5, <1>6 DEF Next

-----------------------------------------------------------------------------
(* Slots.                                                                  *)

LEMMA InitSlots == Init => TurningWaits /\ SlotsAreCounted
  <1> SUFFICES ASSUME Init PROVE TurningWaits /\ SlotsAreCounted
    OBVIOUS
  <1>1. Served = {}
    BY DEF Init, Served
  <1>2. QED
    BY <1>1, FS_EmptySet, LimitAssumption DEF Init, TurningWaits, SlotsAreCounted

LEMMA NextSlots ==
  ASSUME TypeOK, TurningWaits, SlotsAreCounted, [Next]_vars
  PROVE  TurningWaits' /\ SlotsAreCounted'
  <1>1. CASE SamplerStep \/ BackoffEnds
    <2>1. Served' = Served /\ UNCHANGED <<conn, active, turning>>
      BY <1>1 DEF SamplerStep, WantToPush, Push, FlushBegins, FlushEnds, BackoffEnds, Served, lock
    <2>2. QED
      BY <2>1 DEF TurningWaits, SlotsAreCounted
  <1>2. CASE TurnAway
    <2>1. turning \in Clients /\ conn[turning] = "backlog" /\ turning' = Nobody
      BY <1>2 DEF TurnAway, TypeOK, TurningWaits
    <2>2. Served' = Served
      BY <1>2, <2>1, MoveKeepsServed DEF TurnAway, Steps
    <2>3. QED
      BY <1>2, <2>1, <2>2, ServedIsNat DEF TurnAway, TurningWaits, SlotsAreCounted
  <1>3. ASSUME NEW c \in Clients, Client(c) \/ TimesOut(c) \/ TakeBounds(c) \/ Copy(c)
        PROVE  TurningWaits' /\ SlotsAreCounted'
    <2>1. PICK to \in Steps :
            /\ Goto(c, to)
            /\ (conn[c] \in {"away", "backlog"}) <=> (to \in {"away", "backlog"})
            /\ conn[c] # "backlog" /\ UNCHANGED <<active, turning>>
      BY <1>3 DEF Client, TimesOut, TakeBounds, Copy, Moves, others, Steps
    <2>2. Served' = Served
      BY <2>1, MoveKeepsServed
    <2>3. TurningWaits'
      BY <2>1 DEF TurningWaits, TypeOK, Goto
    <2>4. QED
      BY <2>1, <2>2, <2>3 DEF SlotsAreCounted
  <1>4. ASSUME NEW c \in Clients, AcceptFails(c)
        PROVE  TurningWaits' /\ SlotsAreCounted'
    BY <1>4 DEF AcceptFails, TurningWaits, SlotsAreCounted, Served
  <1>5. ASSUME NEW c \in Clients, SpawnFails(c)
        PROVE  TurningWaits' /\ SlotsAreCounted'
    <2>1. Served' = Served
      BY <1>5, MoveKeepsServed DEF SpawnFails, Steps
    <2>2. QED
      BY <1>5, <2>1 DEF SpawnFails, MayAccept, others, TurningWaits, SlotsAreCounted
  <1>6. ASSUME NEW c \in Clients, Accept(c)
        PROVE  TurningWaits' /\ SlotsAreCounted'
    <2>1. turning = Nobody /\ conn[c] = "backlog" /\ active' = active + 1
      BY <1>6 DEF Accept, MayAccept
    <2>2. active = Cardinality(Served)
      BY <2>1, ServedIsNat DEF SlotsAreCounted
    <2>3. CASE active >= MaxConnections
      <3>1. turning' = c /\ conn' = conn /\ Served' = Served /\ c # Nobody
        BY <1>6, <2>3, NamesAssumption DEF Accept, Served
      <3>2. QED
        BY <2>1, <2>2, <3>1, ServedIsNat DEF TurningWaits, SlotsAreCounted
    <2>4. CASE ~(active >= MaxConnections)
      <3>1. turning' = Nobody /\ Goto(c, "reading")
        BY <1>6, <2>4 DEF Accept
      <3>2. Cardinality(Served') = Cardinality(Served) + 1
        BY <2>1, <3>1, ServedGrows
      <3>3. QED
        BY <2>1, <2>2, <2>4, <3>1, <3>2, ServedIsNat, LimitAssumption
        DEF TurningWaits, SlotsAreCounted
    <2>5. QED
      BY <2>3, <2>4
  <1>7. ASSUME NEW c \in Clients, Close(c)
        PROVE  TurningWaits' /\ SlotsAreCounted'
    <2>1. conn[c] = "closing" /\ Goto(c, "away") /\ active' = active - 1 /\ turning' = turning
      BY <1>7 DEF Close, Moves
    <2>2. Cardinality(Served') = Cardinality(Served) - 1
      BY <2>1, ServedShrinks
    <2>3. TurningWaits'
      BY <2>1 DEF TurningWaits, TypeOK, Goto
    <2>4. QED
      BY <2>1, <2>2, <2>3, ServedIsNat, LimitAssumption DEF SlotsAreCounted, TypeOK
  <1>8. CASE UNCHANGED vars
    BY <1>8 DEF vars, TurningWaits, SlotsAreCounted, Served
  <1>9. QED
    BY <1>1, <1>2, <1>3, <1>4, <1>5, <1>6, <1>7, <1>8 DEF Next, Server

LEMMA SlotInvariant == Spec => [](TypeOK /\ TurningWaits /\ SlotsAreCounted)
  <1>1. Init => TypeOK /\ TurningWaits /\ SlotsAreCounted
    BY InitTypes, InitSlots
  <1>2. TypeOK /\ TurningWaits /\ SlotsAreCounted /\ [Next]_vars
          => TypeOK' /\ TurningWaits' /\ SlotsAreCounted'
    BY NextTypes, NextSlots
  <1>3. QED
    BY <1>1, <1>2, PTL DEF Spec

(* However connections come, are turned away, fail to get a thread and go, *)
(* the counter of Slot::acquire is the number of threads, and one more     *)
(* while one is being turned away, and there are never more than the limit.*)
THEOREM SlotsAlwaysCounted == Spec => []SlotsAreCounted
  BY SlotInvariant, PTL

-----------------------------------------------------------------------------
(* The lock.                                                               *)

LEMMA InitHolders == Init => HoldersAreKnown /\ AnswerOfOneStore
  BY DEF Init, HoldersAreKnown, AnswerOfOneStore

(* The sampler pushes when nobody reads, so nobody is between the halves of*)
(* an answer then.                                                         *)
LEMMA SamplerKeepsHolders ==
  ASSUME TypeOK, HoldersAreKnown, AnswerOfOneStore, SamplerStep
  PROVE  HoldersAreKnown' /\ AnswerOfOneStore'
  <1>1. CASE WantToPush
    BY <1>1 DEF WantToPush, Sampling, lock, HoldersAreKnown, AnswerOfOneStore
  <1>2. CASE Push
    <2>1. \A c \in Clients : conn'[c] # "bounds"
      BY <1>2 DEF Push, HoldersAreKnown
    <2>2. QED
      BY <1>2, <2>1 DEF Push, lock, HoldersAreKnown, AnswerOfOneStore
  <1>3. CASE FlushBegins \/ FlushEnds
    <2>1. \A c \in Clients : c \in readers' <=> c \in readers
      BY <1>3, NamesAssumption DEF FlushBegins, FlushEnds
    <2>2. QED
      BY <1>3, <2>1 DEF FlushBegins, FlushEnds, HoldersAreKnown, AnswerOfOneStore
  <1>4. QED
    BY <1>1, <1>2, <1>3 DEF SamplerStep

LEMMA NextHolders ==
  ASSUME TypeOK, TurningWaits, HoldersAreKnown, AnswerOfOneStore, [Next]_vars
  PROVE  HoldersAreKnown' /\ AnswerOfOneStore'
  <1>1. CASE SamplerStep
    BY <1>1, SamplerKeepsHolders
  <1>2. CASE BackoffEnds \/ UNCHANGED vars
    BY <1>2 DEF BackoffEnds, vars, lock, HoldersAreKnown, AnswerOfOneStore
  <1>3. ASSUME NEW c \in Clients, TakeBounds(c)
        PROVE  HoldersAreKnown' /\ AnswerOfOneStore'
    <2>1. \A d \in Clients : d # c => /\ conn'[d] = conn[d] /\ seen'[d] = seen[d]
                                   /\ (d \in readers' <=> d \in readers)
      BY <1>3 DEF TakeBounds, Moves, Goto, TypeOK
    <2>2. conn'[c] = "bounds" /\ seen'[c] = version /\ c \in readers'
      BY <1>3 DEF TakeBounds, Moves, Goto, TypeOK
    <2>3. writer' = writer /\ version' = version
      BY <1>3 DEF TakeBounds
    <2>4. HoldersAreKnown'
      BY <2>1, <2>2, <2>3 DEF HoldersAreKnown
    <2>5. AnswerOfOneStore'
      BY <2>1, <2>2, <2>3 DEF AnswerOfOneStore
    <2>6. QED
      BY <2>4, <2>5
  <1>4. ASSUME NEW c \in Clients, Copy(c)
        PROVE  HoldersAreKnown' /\ AnswerOfOneStore'
    <2>1. \A d \in Clients : d # c => /\ conn'[d] = conn[d]
                                   /\ (d \in readers' <=> d \in readers)
      BY <1>4 DEF Copy, Moves, Goto, TypeOK
    <2>2. conn'[c] = "writing" /\ c \notin readers'
      BY <1>4 DEF Copy, Moves, Goto, TypeOK
    <2>3. QED
      BY <1>4, <2>1, <2>2 DEF Copy, HoldersAreKnown, AnswerOfOneStore
  <1>5. ASSUME NEW c \in Clients, NEW to \in Steps \ {"bounds"},
               conn[c] # "bounds", Goto(c, to) \/ conn' = conn,
               UNCHANGED <<lock, version, seen>>
        PROVE  HoldersAreKnown' /\ AnswerOfOneStore'
    <2>1. \A d \in Clients : conn'[d] = "bounds" <=> conn[d] = "bounds"
      BY <1>5 DEF Goto, TypeOK
    <2>2. QED
      BY <1>5, <2>1 DEF lock, HoldersAreKnown, AnswerOfOneStore
  <1>6. CASE TurnAway
    <2>1. turning \in Clients /\ conn[turning] = "backlog"
      BY <1>6 DEF TurnAway, TypeOK, TurningWaits
    <2>2. QED
      BY <1>5, <1>6, <2>1 DEF TurnAway, Steps
  <1>7. ASSUME NEW c \in Clients, Accept(c) \/ Close(c) \/ AcceptFails(c) \/ SpawnFails(c)
        PROVE  HoldersAreKnown' /\ AnswerOfOneStore'
    BY <1>5, <1>7 DEF Accept, Close, AcceptFails, SpawnFails, Moves, others, Steps
  <1>8. ASSUME NEW c \in Clients, Client(c) \/ TimesOut(c)
        PROVE  HoldersAreKnown' /\ AnswerOfOneStore'
    BY <1>5, <1>8 DEF Client, TimesOut, Moves, others, Steps
  <1>9. QED
    BY <1>1, <1>2, <1>3, <1>4, <1>6, <1>7, <1>8 DEF Next, Server

LEMMA LockInvariant == Spec => [](HoldersAreKnown /\ AnswerOfOneStore)
  <1>1. Init => HoldersAreKnown /\ AnswerOfOneStore
    BY InitHolders
  <1>2. TypeOK /\ TurningWaits /\ HoldersAreKnown /\ AnswerOfOneStore /\ [Next]_vars
          => HoldersAreKnown' /\ AnswerOfOneStore'
    BY NextHolders
  <1>3. QED
    BY <1>1, <1>2, SlotInvariant, PTL DEF Spec

(* Whoever waits for a client, to send or to take, holds no lock.          *)
THEOREM LockNeverWaitsForClients == Spec => []NoLockWhileWaiting
  <1>1. HoldersAreKnown => NoLockWhileWaiting
    BY DEF HoldersAreKnown, NoLockWhileWaiting
  <1>2. QED
    BY <1>1, LockInvariant, PTL

(* The bounds a read was planned with are those of the store it copies.    *)
THEOREM AnswersAreOfOneStore == Spec => []AnswerOfOneStore
  BY LockInvariant, PTL

-----------------------------------------------------------------------------
(* Waiting for the lock.                                                   *)

(* The threads that keep t from the lock it wants, if it wants one: those  *)
(* that hold it and, for a reader, the sampler when it waits to write.     *)
Writers == {writer} \ {Nobody}

KeptBy(t) ==
  CASE t = Sampler /\ sampling = "waiting" -> readers \union Writers
    [] t = Sampler /\ sampling = "pushed"  -> Writers
    [] t \in Clients /\ conn[t] = "asked"  ->
         Writers \union (IF sampling = "waiting" THEN {Sampler} ELSE {})
    [] OTHER -> {}

Threads == Clients \union {Sampler}

(* The step that a thread is at when it holds the lock and runs, which is  *)
(* one that needs nothing to end: no client, no lock, no other thread.     *)
RunsWithLock(t) ==
  IF t = Sampler THEN sampling = "flushing" ELSE conn[t] = "bounds"

(* Nobody waits for the lock in a circle, and at the end of every chain of *)
(* waiting is a thread that either runs with the lock or can take it now.  *)
WaitingComesToAnEnd ==
  \A t \in Threads : \A u \in KeptBy(t) :
     \/ u \in Threads \ {t} /\ RunsWithLock(u)
     \/ /\ u = Sampler /\ t \in Clients
        /\ \A v \in KeptBy(u) : v \in Clients \ {t} /\ RunsWithLock(v)

(* The sampler holds the lock for reading while it flushes, and only then. *)
SamplerIsKnown == Sampler \in readers <=> sampling = "flushing"

LEMMA NextSampler ==
  ASSUME TypeOK, SamplerIsKnown, [Next]_vars
  PROVE  SamplerIsKnown'
  <1>1. CASE SamplerStep
    <2>1. CASE WantToPush \/ Push
      BY <2>1 DEF WantToPush, Push, Sampling, lock, SamplerIsKnown
    <2>2. CASE FlushBegins \/ FlushEnds
      BY <2>2 DEF FlushBegins, FlushEnds, Sampling, SamplerIsKnown
    <2>3. QED
      BY <1>1, <2>1, <2>2 DEF SamplerStep
  <1>2. CASE TurnAway \/ BackoffEnds \/ UNCHANGED vars
    BY <1>2 DEF TurnAway, BackoffEnds, vars, lock, SamplerIsKnown
  <1>3. ASSUME NEW c \in Clients, TakeBounds(c) \/ Copy(c)
        PROVE  SamplerIsKnown'
    <2>1. c # Sampler
      BY NamesAssumption
    <2>2. sampling' = sampling /\ (Sampler \in readers' <=> Sampler \in readers)
      BY <1>3, <2>1 DEF TakeBounds, Copy
    <2>3. QED
      BY <2>2 DEF SamplerIsKnown
  <1>4. ASSUME NEW c \in Clients,
               \/ Accept(c) \/ Close(c) \/ AcceptFails(c) \/ SpawnFails(c)
               \/ Client(c) \/ TimesOut(c)
        PROVE  SamplerIsKnown'
    BY <1>4 DEF Accept, Close, AcceptFails, SpawnFails, Client, TimesOut, others, lock, SamplerIsKnown
  <1>5. QED
    BY <1>1, <1>2, <1>3, <1>4 DEF Next, Server

LEMMA SamplerInvariant == Spec => [](TypeOK /\ HoldersAreKnown /\ SamplerIsKnown)
  <1>1. Init => SamplerIsKnown
    BY DEF Init, SamplerIsKnown
  <1>2. TypeOK /\ SamplerIsKnown /\ [Next]_vars => SamplerIsKnown'
    BY NextSampler
  <1>3. QED
    BY <1>1, <1>2, SlotInvariant, LockInvariant, PTL DEF Spec

LEMMA ChainsAreShort ==
  ASSUME TypeOK, HoldersAreKnown, SamplerIsKnown
  PROVE  WaitingComesToAnEnd
  <1>1. Writers = {} /\ Sampler \notin Clients
    BY NamesAssumption DEF HoldersAreKnown, Writers
  <1>2. ASSUME sampling = "waiting", NEW u \in readers
        PROVE  u \in Clients /\ RunsWithLock(u)
    <2>1. u \in Clients
      BY <1>2 DEF TypeOK, SamplerIsKnown
    <2>2. QED
      BY <1>1, <1>2, <2>1 DEF HoldersAreKnown, RunsWithLock
  <1>3. KeptBy(Sampler) = IF sampling = "waiting" THEN readers ELSE {}
    BY <1>1 DEF KeptBy
  <1>4. ASSUME NEW u \in KeptBy(Sampler)
        PROVE  u \in Threads \ {Sampler} /\ RunsWithLock(u)
    BY <1>1, <1>2, <1>3, <1>4 DEF Threads
  <1>5. ASSUME NEW c \in Clients, NEW u \in KeptBy(c)
        PROVE  /\ u = Sampler
               /\ \A v \in KeptBy(u) : v \in Clients \ {c} /\ RunsWithLock(v)
    <2>1. conn[c] = "asked" /\ sampling = "waiting" /\ u = Sampler
      BY <1>1, <1>5 DEF KeptBy
    <2>2. ASSUME NEW v \in readers PROVE v \in Clients \ {c} /\ RunsWithLock(v)
      <3>1. v \in Clients /\ conn[v] = "bounds"
        BY <1>1, <1>2, <2>1 DEF RunsWithLock
      <3>2. v # c
        BY <2>1, <3>1
      <3>3. QED
        BY <1>2, <2>1, <3>1, <3>2
    <2>3. QED
      BY <1>3, <2>1, <2>2
  <1>6. QED
    BY <1>4, <1>5 DEF Threads, WaitingComesToAnEnd

(* The lock of state.rs never leads the threads into a deadlock: a request *)
(* waits for a push that waits, the push for answers that are being copied,*)
(* and those for nobody.                                                   *)
THEOREM LockNeverDeadlocks == Spec => []WaitingComesToAnEnd
  <1>1. TypeOK /\ HoldersAreKnown /\ SamplerIsKnown => WaitingComesToAnEnd
    BY ChainsAreShort
  <1>2. QED
    BY <1>1, SamplerInvariant, PTL
=============================================================================
