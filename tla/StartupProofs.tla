--------------------------- MODULE StartupProofs ---------------------------
(***************************************************************************)
(* Proofs about Startup.tla for every set of copies of the daemon: a path  *)
(* that is no socket is left alone whoever starts, and a live socket is    *)
(* never taken from its daemon as long as copies start one at a time.      *)
(***************************************************************************)
EXTENDS Startup, TLAPS

Steps == {"down", "rewrite", "stat", "connect", "remove", "bind", "listen", "chmod", "serving"}

TypeOK ==
  /\ pc \in [Daemons -> Steps]
  /\ path \in Daemons \union {NoEntry, NotASocket, Stale}

(* Nobody gets beyond looking at a path that is no socket.                 *)
NobodyPasses ==
  path = NotASocket => \A d \in Daemons : pc[d] \in {"down", "rewrite", "stat"}

(* A copy that has bound the path lives, and is at least about to listen.  *)
OwnerLives == path \in Daemons => pc[path] \in {"listen", "chmod", "serving"}

OneStarts == \A d, e \in Daemons : Starting(d) /\ Starting(e) => d = e

(* What is about to be removed is nobody's.                                *)
RemovesStale == \A d \in Daemons : pc[d] = "remove" => path \notin Daemons

USE NamesAssumption

-----------------------------------------------------------------------------
(* What a step of one copy can do to where it is and to the path.          *)

LEMMA InitTypes == Init => TypeOK
  <1> SUFFICES ASSUME Init PROVE TypeOK
    OBVIOUS
  <1>1. pc \in [Daemons -> Steps]
    BY DEF Init, Steps
  <1>2. QED
    BY <1>1 DEF Init, TypeOK

(* One copy moves at a time, to a step it can be at.                       *)
LEMMA OneMoves ==
  ASSUME TypeOK, NEW d \in Daemons, Load(d) \/ Boot(d) \/ Record(d) \/ Kill(d)
  PROVE  \E step \in Steps : pc' = [pc EXCEPT ![d] = step]
  <1>1. CASE Load(d)
    BY <1>1 DEF Load, Goto, Steps
  <1>2. CASE Rewrite(d) \/ Listen(d) \/ Serve(d)
    BY <1>2 DEF Rewrite, Listen, Serve, Then, Ends, Goto, Steps
  <1>3. CASE Stat(d)
    BY <1>3 DEF Stat, Then, Ends, Goto, Steps
  <1>4. CASE Connect(d) \/ Remove(d) \/ Bind(d)
    BY <1>4 DEF Connect, Remove, Bind, Then, Ends, Goto, Steps
  <1>5. CASE Kill(d)
    BY <1>5 DEF Kill, Ends, Goto, Steps
  <1>6. CASE Record(d)
    <2>1. pc' = [pc EXCEPT ![d] = pc[d]] /\ pc[d] \in Steps
      BY <1>6 DEF Record, TypeOK
    <2>2. QED
      BY <2>1
  <1>7. QED
    BY <1>1, <1>2, <1>3, <1>4, <1>5, <1>6 DEF Boot

(* The steps that change the path: the end of its owner, the removal of    *)
(* what is there and is not the copy's own, and a bind to a free path.     *)
PathGoesFrom(d) ==
  \/ path' = path
  \/ path = d /\ path' = Stale /\ pc'[d] = "down"
  \/ pc[d] = "remove" /\ pc'[d] = "bind" /\ path' = NoEntry
  \/ pc[d] = "bind" /\ pc'[d] = "listen" /\ path = NoEntry /\ path' = d

LEMMA PathChanges ==
  ASSUME TypeOK, NEW d \in Daemons, Load(d) \/ Boot(d) \/ Record(d) \/ Kill(d)
  PROVE  PathGoesFrom(d)
  <1> USE DEF PathGoesFrom
  <1>1. CASE Load(d) \/ Record(d) \/ Rewrite(d)
    BY <1>1 DEF Load, Record, Rewrite
  <1>2. ASSUME NEW why, Ends(d, why)
        PROVE  PathGoesFrom(d)
    BY <1>2 DEF Ends, Goto, TypeOK
  <1>3. CASE Stat(d)
    BY <1>2, <1>3 DEF Stat, Then
  <1>4. CASE Connect(d)
    BY <1>2, <1>4 DEF Connect, Then
  <1>5. CASE Remove(d)
    BY <1>2, <1>5 DEF Remove, Then, Goto, TypeOK
  <1>6. CASE Bind(d)
    BY <1>2, <1>6 DEF Bind, Then, Goto, TypeOK
  <1>7. CASE Listen(d) \/ Serve(d)
    BY <1>2, <1>7 DEF Listen, Serve, Then
  <1>8. CASE Kill(d)
    BY <1>2, <1>8 DEF Kill
  <1>9. QED
    BY <1>1, <1>3, <1>4, <1>5, <1>6, <1>7, <1>8 DEF Boot

LEMMA NextTypes ==
  ASSUME TypeOK, [Next]_vars
  PROVE  TypeOK'
  <1>1. CASE UNCHANGED vars
    BY <1>1 DEF vars, TypeOK
  <1>2. ASSUME NEW d \in Daemons, Load(d) \/ Boot(d) \/ Record(d) \/ Kill(d)
        PROVE  TypeOK'
    BY <1>2, OneMoves, PathChanges DEF PathGoesFrom, TypeOK
  <1>3. QED
    BY <1>1, <1>2 DEF Next

-----------------------------------------------------------------------------
(* A path that is no socket.                                               *)

LEMMA NextNobodyPasses ==
  ASSUME TypeOK, NobodyPasses, [Next]_vars
  PROVE  NobodyPasses' /\ (path = NotASocket => path' = NotASocket)
  <1>1. CASE UNCHANGED vars
    BY <1>1 DEF vars, NobodyPasses
  <1>2. ASSUME NEW d \in Daemons, Load(d) \/ Boot(d) \/ Record(d) \/ Kill(d)
        PROVE  NobodyPasses' /\ (path = NotASocket => path' = NotASocket)
    <2>1. path' = NotASocket => path = NotASocket
      BY <1>2, PathChanges DEF PathGoesFrom
    <2>2. path = NotASocket => path' = NotASocket
      BY <1>2, PathChanges DEF PathGoesFrom, NobodyPasses
    <2>3. ASSUME path = NotASocket
          PROVE  pc'[d] \in {"down", "rewrite", "stat"}
      <3>1. pc[d] \in {"down", "rewrite", "stat"}
        BY <2>3 DEF NobodyPasses
      <3>2. CASE Load(d) \/ Rewrite(d) \/ Kill(d)
        BY <3>2 DEF Load, Rewrite, Kill, Ends, Goto, TypeOK
      <3>3. CASE Stat(d)
        BY <2>3, <3>3 DEF Stat, Ends, Goto, TypeOK
      <3>4. QED
        BY <1>2, <3>1, <3>2, <3>3
        DEF Boot, Connect, Remove, Bind, Listen, Serve, Record
    <2>4. QED
      BY <1>2, <2>1, <2>2, <2>3, OneMoves DEF NobodyPasses, TypeOK
  <1>3. QED
    BY <1>1, <1>2 DEF Next

LEMMA PathInvariant == Spec => [](TypeOK /\ NobodyPasses)
  <1>1. Init => TypeOK /\ NobodyPasses
    BY InitTypes DEF Init, NobodyPasses
  <1>2. TypeOK /\ NobodyPasses /\ [Next]_vars => TypeOK' /\ NobodyPasses'
    BY NextTypes, NextNobodyPasses
  <1>3. QED
    BY <1>1, <1>2, PTL DEF Spec

(* However many copies start, and however their steps interleave, what is  *)
(* no socket stays at the path.                                            *)
THEOREM FilesAreSafe == Spec => OthersAreKept
  <1>1. TypeOK /\ NobodyPasses /\ [Next]_vars => [path = NotASocket => path' = NotASocket]_path
    BY NextNobodyPasses
  <1>2. QED
    BY <1>1, PathInvariant, PTL DEF Spec, OthersAreKept

-----------------------------------------------------------------------------
(* A socket that is live.                                                  *)

LEMMA NextOneStarts ==
  ASSUME ~Together, TypeOK, OneStarts, NEW d \in Daemons,
         Load(d) \/ Boot(d) \/ Record(d) \/ Kill(d)
  PROVE  OneStarts'
  <1>1. \A e \in Daemons : e # d => pc'[e] = pc[e]
    BY OneMoves DEF TypeOK
  <1>2. CASE Load(d)
    <2>1. \A e \in Daemons : ~Starting(e)
      BY <1>2 DEF Load
    <2>2. QED
      BY <1>1, <2>1 DEF OneStarts, Starting
  <1>3. CASE Boot(d) \/ Record(d) \/ Kill(d)
    <2>1. Starting(d) \/ ~(Starting(d))'
      BY <1>3 DEF Boot, Rewrite, Stat, Connect, Remove, Bind, Listen, Serve, Record, Kill,
                  Ends, Goto, Starting, TypeOK
    <2>2. QED
      BY <1>1, <2>1 DEF OneStarts, Starting
  <1>4. QED
    BY <1>2, <1>3

LEMMA NextOwnerLives ==
  ASSUME TypeOK, OwnerLives, NEW d \in Daemons,
         Load(d) \/ Boot(d) \/ Record(d) \/ Kill(d)
  PROVE  OwnerLives'
  <1>1. \A e \in Daemons : e # d => pc'[e] = pc[e]
    BY OneMoves DEF TypeOK
  <1>2. ASSUME path = d, path' = d
        PROVE  pc'[d] \in {"listen", "chmod", "serving"}
    <2>1. pc[d] \in {"listen", "chmod", "serving"}
      BY <1>2 DEF OwnerLives
    <2>2. ~Load(d) /\ ~Rewrite(d) /\ ~Stat(d) /\ ~Connect(d) /\ ~Remove(d) /\ ~Bind(d)
      BY <2>1 DEF Load, Rewrite, Stat, Connect, Remove, Bind
    <2>3. ~Kill(d)
      BY <1>2 DEF Kill, Ends
    <2>4. CASE Listen(d) \/ Record(d)
      BY <2>1, <2>4 DEF Listen, Record, Then, Goto, TypeOK
    <2>5. CASE Serve(d)
      BY <1>2, <2>5 DEF Serve, Goto, TypeOK
    <2>6. QED
      BY <2>2, <2>3, <2>4, <2>5 DEF Boot
  <1>3. QED
    BY <1>1, <1>2, PathChanges DEF PathGoesFrom, OwnerLives

(* Whoever answers is neither about to connect nor starting, so connect    *)
(* gets through to it.                                                     *)
LEMMA ConnectFindsOwner ==
  ASSUME TypeOK, OneStarts, OwnerLives, NEW d \in Daemons, Connect(d), pc'[d] = "remove"
  PROVE  path \notin Daemons
  <1> SUFFICES ASSUME path \in Daemons PROVE FALSE
    OBVIOUS
  <1>1. pc[d] = "connect" /\ ~Answers(path)
    BY DEF Connect, Ends, Goto, TypeOK
  <1>2. pc[path] = "listen"
    BY <1>1 DEF OwnerLives, Answers
  <1>3. QED
    BY <1>1, <1>2 DEF OneStarts, Starting

LEMMA NextRemovesStale ==
  ASSUME TypeOK, OneStarts, OwnerLives, RemovesStale, NEW d \in Daemons,
         Load(d) \/ Boot(d) \/ Record(d) \/ Kill(d)
  PROVE  RemovesStale'
  <1>1. \A e \in Daemons : e # d => pc'[e] = pc[e]
    BY OneMoves DEF TypeOK
  <1>2. ASSUME pc'[d] = "remove"
        PROVE  path' \notin Daemons
    <2>1. Connect(d) /\ path' = path
      BY <1>2 DEF Load, Boot, Rewrite, Stat, Connect, Remove, Bind, Listen, Serve, Record, Kill,
                  Then, Ends, Goto, TypeOK
    <2>2. QED
      BY <1>2, <2>1, ConnectFindsOwner
  <1>3. ASSUME NEW e \in Daemons, e # d, pc'[e] = "remove"
        PROVE  path' \notin Daemons
    <2>1. pc[e] = "remove" /\ path \notin Daemons
      BY <1>1, <1>3 DEF RemovesStale
    <2>2. pc[d] # "bind"
      BY <1>3, <2>1 DEF OneStarts, Starting
    <2>3. QED
      BY <2>1, <2>2, PathChanges DEF PathGoesFrom
  <1>4. QED
    BY <1>2, <1>3 DEF RemovesStale

LEMMA OwnerInvariant ==
  ASSUME ~Together
  PROVE  Spec => [](TypeOK /\ OneStarts /\ OwnerLives /\ RemovesStale)
  <1>1. Init => OneStarts /\ OwnerLives /\ RemovesStale
    BY DEF Init, OneStarts, Starting, OwnerLives, RemovesStale
  <1>2. TypeOK /\ OneStarts /\ OwnerLives /\ RemovesStale /\ [Next]_vars
          => TypeOK' /\ OneStarts' /\ OwnerLives' /\ RemovesStale'
    <2> SUFFICES ASSUME TypeOK, OneStarts, OwnerLives, RemovesStale, [Next]_vars
                 PROVE  TypeOK' /\ OneStarts' /\ OwnerLives' /\ RemovesStale'
      OBVIOUS
    <2>1. CASE UNCHANGED vars
      BY <2>1 DEF vars, TypeOK, OneStarts, Starting, OwnerLives, RemovesStale
    <2>2. CASE \E d \in Daemons : Load(d) \/ Boot(d) \/ Record(d) \/ Kill(d)
      BY <2>2, NextTypes, NextOneStarts, NextOwnerLives, NextRemovesStale
    <2>3. QED
      BY <2>1, <2>2 DEF Next
  <1>3. QED
    BY <1>1, <1>2, InitTypes, PTL DEF Spec

(* As long as no copy starts while another is starting, none takes the     *)
(* path of one that lives; when two start at once, one can (LiveIsKept is  *)
(* violated then).                                                         *)
THEOREM LiveSocketsAreSafe == ~Together => (Spec => LiveIsKept)
  <1> SUFFICES ASSUME ~Together PROVE Spec => LiveIsKept
    OBVIOUS
  <1>1. /\ TypeOK /\ RemovesStale
        /\ [Next]_vars
        => [\A d \in Daemons : path = d /\ Answers(d) /\ pc'[d] # "down" => path' = d]_vars
    <2> SUFFICES ASSUME TypeOK, RemovesStale, Next, NEW d \in Daemons,
                        path = d, Answers(d), pc'[d] # "down"
                 PROVE  path' = d
      OBVIOUS
    <2>1. PICK e \in Daemons : Load(e) \/ Boot(e) \/ Record(e) \/ Kill(e)
      BY DEF Next
    <2>2. pc[e] # "remove"
      BY DEF RemovesStale
    <2>3. QED
      BY <2>1, <2>2, PathChanges DEF PathGoesFrom
  <1>2. QED
    BY <1>1, OwnerInvariant, PTL DEF Spec, LiveIsKept
=============================================================================
