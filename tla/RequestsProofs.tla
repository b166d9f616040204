--------------------------- MODULE RequestsProofs ---------------------------
(***************************************************************************)
(* Proofs about the commands of Requests.tla, from the command lines to    *)
(* what is printed.                                                        *)
(*                                                                         *)
(* Each command line is taken argument by argument with a fold, so what is *)
(* known of it is known of every stage of the fold: a fold is the value of *)
(* a function on sets of places, which exists (FoldExists), and its stages *)
(* are those at 1 .. k. The invariant, Exchange, says that each part of an *)
(* exchange comes from the one before: the request from the command line,  *)
(* the call on the store from the request, the answer from the call, what  *)
(* is shown from the answer.                                               *)
(***************************************************************************)
EXTENDS Requests, FiniteSetTheorems, SequenceTheorems, WellFoundedInduction, TLAPS

-----------------------------------------------------------------------------
(* Induction and folds.                                                    *)

(* A set of numbers that is not empty has a least one.                     *)
LEMMA LeastNumber ==
  ASSUME NEW T \in SUBSET Nat, T # {}
  PROVE  \E x \in T : \A y \in T : x <= y
  <1> DEFINE Less == {ss \in Nat \X Nat : ss[1] < ss[2]}
  <1>1. IsWellFoundedOn(Less, Nat) BY NatLessThanWellFounded DEF OpToRel
  <1>2. \A x, y \in Nat : y < x => <<y, x>> \in Less
    OBVIOUS
  <1> HIDE DEF Less
  <1>3. PICK x \in T : \A y \in T : ~ (<<y, x>> \in Less)
    BY <1>1, WFMin
  <1>4. ASSUME NEW y \in T PROVE x <= y
    <2>1. x \in Nat /\ y \in Nat OBVIOUS
    <2>2. ~ (y < x) BY <1>2, <1>3, <2>1
    <2>3. QED BY <2>1, <2>2
  <1>5. QED BY <1>4

(* Induction over the naturals, with a set in place of a predicate.        *)
LEMMA Induction ==
  ASSUME NEW S \in SUBSET Nat, 0 \in S, \A n \in S : n + 1 \in S
  PROVE  Nat \subseteq S
  <1> SUFFICES ASSUME Nat \ S # {} PROVE FALSE OBVIOUS
  <1>1. PICK n \in Nat \ S : \A m \in Nat \ S : n <= m
    BY LeastNumber
  <1>2. n # 0 /\ n - 1 \in Nat BY <1>1
  <1>3. n - 1 \in S BY <1>1, <1>2
  <1>4. QED BY <1>1, <1>2, <1>3

(* The same up to a number.                                                *)
LEMMA InductionUpTo ==
  ASSUME NEW n \in Nat, NEW S, 0 \in S, \A k \in 1 .. n : k - 1 \in S => k \in S
  PROVE  \A k \in 0 .. n : k \in S
  <1> DEFINE T == {k \in Nat : k <= n => k \in S}
  <1>1. 0 \in T OBVIOUS
  <1>2. ASSUME NEW k \in T PROVE k + 1 \in T
    <2>1. SUFFICES ASSUME k + 1 <= n PROVE k + 1 \in S OBVIOUS
    <2>2. k \in Nat /\ k \in S /\ k + 1 \in 1 .. n /\ (k + 1) - 1 = k BY <2>1
    <2>3. QED BY <2>2
  <1>3. T \in SUBSET Nat OBVIOUS
  <1> HIDE DEF T
  <1>4. Nat \subseteq T BY <1>1, <1>2, <1>3, Induction
  <1>5. QED BY <1>4 DEF T

(* The greatest of a set, where it is known.                               *)
LEMMA MaxIs ==
  ASSUME NEW S, NEW m \in S, S \subseteq Int, \A x \in S : x <= m
  PROVE  Max(S) = m
  <1>1. \E x \in S : \A y \in S : x >= y OBVIOUS
  <1>2. Max(S) \in S /\ \A y \in S : Max(S) >= y BY <1>1 DEF Max
  <1> DEFINE top == Max(S)
  <1>3. top \in Int /\ m \in Int /\ top <= m /\ top >= m BY <1>2
  <1> HIDE DEF top
  <1>4. top = m BY <1>3
  <1>5. QED BY <1>4 DEF top

(* A fold takes the first k items from the last of them on.                *)
LEMMA FirstItems ==
  ASSUME NEW n \in Nat, NEW k \in 1 .. n
  PROVE  /\ 1 .. k \in SUBSET (1 .. n) /\ 1 .. k # {}
         /\ Max(1 .. k) = k /\ (1 .. k) \ {Max(1 .. k)} = 1 .. k - 1
  <1>1. k \in 1 .. k /\ 1 .. k \subseteq Int /\ \A x \in 1 .. k : x <= k OBVIOUS
  <1>2. Max(1 .. k) = k BY <1>1, MaxIs
  <1>3. (1 .. k) \ {k} = 1 .. k - 1 OBVIOUS
  <1>4. QED BY <1>1, <1>2, <1>3

(* The greatest of the places up to m.                                     *)
LEMMA MaxUpTo ==
  ASSUME NEW m \in Nat, NEW T \in SUBSET (1 .. m), T # {}
  PROVE  Max(T) \in T
  <1> DEFINE over == {x \in Nat : \A y \in T : y <= x}
  <1>1. m \in over OBVIOUS
  <1>2. PICK top \in over : \A x \in over : top <= x
    <2>1. over \in SUBSET Nat /\ over # {} BY <1>1
    <2> HIDE DEF over
    <2>2. QED BY <2>1, LeastNumber
  <1>3. top \in T
    <2>1. SUFFICES ASSUME top \notin T PROVE FALSE OBVIOUS
    <2>2. \A y \in T : y \in Nat /\ y > 0 /\ y <= top /\ y # top BY <1>2, <2>1
    <2>3. PICK y \in T : TRUE OBVIOUS
    <2>4. top > 0 /\ top \in Nat BY <2>2, <2>3
    <2>5. \A z \in T : z <= top - 1 BY <2>2, <2>4
    <2>6. top - 1 \in over BY <2>4, <2>5
    <2>7. top <= top - 1 BY <1>2, <2>6
    <2>8. QED BY <2>4, <2>7
  <1>4. T \subseteq Int /\ \A x \in T : x <= top BY <1>2
  <1>5. QED BY <1>3, <1>4, MaxIs

(* What a fold is the solution of has one, over the sets of places.        *)
FoldEquation(it, n, s, base, g) ==
  it = [T \in SUBSET (1 .. n) |->
         IF T = {} THEN base ELSE g[<<it[T \ {Max(T)}], s[Max(T)]>>]]

LEMMA FoldExists ==
  ASSUME NEW S, NEW X, NEW n \in Nat, NEW s, \A k \in 1 .. n : s[k] \in X,
         NEW base \in S, NEW g \in [S \X X -> S]
  PROVE  \E it \in [SUBSET (1 .. n) -> S] : FoldEquation(it, n, s, base, g)
  <1> DEFINE Upto(m) == \E it \in [SUBSET (1 .. m) -> S] : FoldEquation(it, m, s, base, g)
             Good == {m \in Nat : Upto(m)}
  <1>1. 0 \in Good
    <2> DEFINE it == [T \in SUBSET (1 .. 0) |-> base]
    <2>1. 1 .. 0 = {} OBVIOUS
    <2>2. it \in [SUBSET (1 .. 0) -> S] OBVIOUS
    <2>3. ASSUME NEW T \in SUBSET (1 .. 0) PROVE T = {} BY <2>1
    <2>4. FoldEquation(it, 0, s, base, g) BY <2>3 DEF FoldEquation
    <2>5. QED BY <2>2, <2>4
  <1>2. ASSUME NEW m \in Nat, m + 1 \in 1 .. n, m \in Good PROVE m + 1 \in Good
    <2>1. PICK it \in [SUBSET (1 .. m) -> S] : FoldEquation(it, m, s, base, g) BY <1>2
    <2> DEFINE new == m + 1
               h == [T \in SUBSET (1 .. new) |->
                      IF new \in T THEN g[<<it[T \ {new}], s[new]>>] ELSE it[T]]
    <2>2. \A T \in SUBSET (1 .. new) : T \ {new} \in SUBSET (1 .. m) OBVIOUS
    <2>3. s[new] \in X BY <1>2
    <2>4. h \in [SUBSET (1 .. new) -> S]
      <3>1. ASSUME NEW T \in SUBSET (1 .. new)
            PROVE  (IF new \in T THEN g[<<it[T \ {new}], s[new]>>] ELSE it[T]) \in S
        <4>1. it[T \ {new}] \in S BY <2>1, <2>2
        <4>2. g[<<it[T \ {new}], s[new]>>] \in S BY <2>3, <4>1
        <4>3. new \notin T => T = T \ {new} OBVIOUS
        <4>4. QED BY <4>1, <4>2, <4>3
      <3> HIDE DEF new
      <3>2. QED BY <3>1
    <2>5. ASSUME NEW T \in SUBSET (1 .. new)
          PROVE  h[T] = IF T = {} THEN base ELSE g[<<h[T \ {Max(T)}], s[Max(T)]>>]
      <3>1. CASE new \in T
        <4>1. Max(T) = new
          <5>1. T \subseteq Int /\ \A x \in T : x <= new BY <1>2
          <5>2. QED BY <3>1, <5>1, MaxIs
        <4>2. h[T] = g[<<it[T \ {new}], s[new]>>] BY <3>1
        <4>3. h[T \ {new}] = it[T \ {new}] BY <2>2
        <4>4. QED BY <3>1, <4>1, <4>2, <4>3
      <3>2. CASE new \notin T
        <4>1. T \in SUBSET (1 .. m) /\ T \ {Max(T)} \in SUBSET (1 .. m) BY <2>2, <3>2
        <4>2. h[T] = it[T] /\ h[T \ {Max(T)}] = it[T \ {Max(T)}] BY <3>2
        <4>3. it[T] = IF T = {} THEN base ELSE g[<<it[T \ {Max(T)}], s[Max(T)]>>]
          BY <2>1, <4>1 DEF FoldEquation
        <4>4. QED BY <4>2, <4>3
      <3>3. QED BY <3>1, <3>2
    <2>6. FoldEquation(h, new, s, base, g)
      <3>1. h = [T \in SUBSET (1 .. new) |-> h[T]] OBVIOUS
      <3> HIDE DEF h
      <3>2. QED BY <2>5, <3>1 DEF FoldEquation
    <2> HIDE DEF h
    <2>7. Upto(new) BY <2>4, <2>6
    <2>8. QED BY <2>7
  <1>3. n \in Good
    <2>1. ASSUME NEW k \in 1 .. n, k - 1 \in Good PROVE k \in Good
      <3>1. k - 1 \in Nat /\ (k - 1) + 1 = k OBVIOUS
      <3> HIDE DEF Good
      <3>2. QED BY <1>2, <2>1, <3>1
    <2> HIDE DEF Good
    <2>2. \A k \in 0 .. n : k \in Good BY <1>1, <2>1, InductionUpTo
    <2>3. QED BY <2>2
  <1>4. QED BY <1>3

(* The sums of the first items.                                            *)
LEMMA SumsOf ==
  ASSUME NEW n \in Nat, NEW s, DOMAIN s = 1 .. n, \A k \in 1 .. n : s[k] \in Int
  PROVE  \E t \in [0 .. n -> Int] :
           t[0] = 0 /\ t[n] = FoldLeft(+, 0, s) /\ \A k \in 1 .. n : t[k] = t[k - 1] + s[k]
  <1> DEFINE Is(it) == it = [T \in SUBSET (1 .. n) |->
                              IF T = {} THEN 0 ELSE it[T \ {Max(T)}] + s[Max(T)]]
             fold == CHOOSE it : Is(it)
  <1>1. \E it : Is(it)
    <2> DEFINE g == [pair \in Int \X Int |-> pair[1] + pair[2]]
    <2>1. g \in [Int \X Int -> Int] OBVIOUS
    <2>2. \A a, b \in Int : g[<<a, b>>] = a + b OBVIOUS
    <2> HIDE DEF g
    <2>3. PICK it \in [SUBSET (1 .. n) -> Int] : FoldEquation(it, n, s, 0, g)
      <3>1. 0 \in Int /\ \A k \in 1 .. n : s[k] \in Int OBVIOUS
      <3>2. QED BY <2>1, <3>1, FoldExists
    <2>4. ASSUME NEW T \in SUBSET (1 .. n), T # {}
          PROVE  it[T \ {Max(T)}] + s[Max(T)] = g[<<it[T \ {Max(T)}], s[Max(T)]>>]
      <3>1. Max(T) \in 1 .. n BY <2>4, MaxUpTo
      <3>2. it[T \ {Max(T)}] \in Int /\ s[Max(T)] \in Int BY <2>3, <3>1
      <3>3. QED BY <2>2, <3>2
    <2>5. Is(it) BY <2>3, <2>4 DEF FoldEquation
    <2>6. QED BY <2>5
  <1>2. FoldLeft(+, 0, s) = fold[1 .. n] BY DEF FoldLeft, MapThenFoldSet
  <1>3. Is(fold) BY <1>1
  <1> HIDE DEF fold
  <1> DEFINE t == [k \in 0 .. n |-> fold[1 .. k]]
  <1>4. t[0] = 0
    <2>1. 1 .. 0 = {} /\ {} \in SUBSET (1 .. n) OBVIOUS
    <2>2. QED BY <1>3, <2>1
  <1>5. ASSUME NEW k \in 1 .. n PROVE t[k] = t[k - 1] + s[k]
    <2>1. fold[1 .. k] = fold[1 .. k - 1] + s[k] BY <1>3, FirstItems
    <2>2. k \in 0 .. n /\ k - 1 \in 0 .. n OBVIOUS
    <2>3. QED BY <2>1, <2>2
  <1>6. t[n] = FoldLeft(+, 0, s)
    <2>1. n \in 0 .. n OBVIOUS
    <2>2. QED BY <1>2, <2>1
  <1>7. t = [k \in 0 .. n |-> t[k]] OBVIOUS
  <1> HIDE DEF t
  <1>8. \A k \in 0 .. n : t[k] \in Int
    <2> DEFINE Good == {k \in 0 .. n : t[k] \in Int}
    <2>1. 0 \in Good BY <1>4
    <2>2. \A k \in 1 .. n : k - 1 \in Good => k \in Good BY <1>5
    <2> HIDE DEF Good
    <2>3. \A k \in 0 .. n : k \in Good BY <2>1, <2>2, InductionUpTo
    <2>4. QED BY <2>3 DEF Good
  <1>9. t \in [0 .. n -> Int] BY <1>7, <1>8
  <1>10. QED BY <1>4, <1>5, <1>6, <1>9

YearOf(d) == (d - d \div 1460 + d \div 36524 - d \div 146096) \div 365

(* A day of an era: of a century, of four years, of a year, of that year.  *)
InEra(c, q, r, d) ==
  /\ c \in Nat /\ c <= 3 /\ q \in Nat /\ q <= 24 /\ r \in Nat /\ r <= 3
  /\ d \in Nat /\ d <= 365
  /\ d = 365 => r = 3 /\ (q # 24 \/ c = 3)

Placed(n, c, q, r, d) == InEra(c, q, r, d) /\ n = 36524 * c + 1461 * q + 365 * r + d

(* The year of a day of an era.                                            *)
LEMMA YearIs ==
  ASSUME NEW c, NEW q, NEW r, NEW d, InEra(c, q, r, d)
  PROVE  YearOf(36524 * c + 1461 * q + 365 * r + d) = 100 * c + 4 * q + r
  <1>1. /\ c \in 0 .. 3 /\ q \in 0 .. 24 /\ r \in 0 .. 3 /\ d \in 0 .. 365
        /\ d = 365 => r = 3 /\ (q # 24 \/ c = 3)
    BY SMT DEF InEra
  <1> USE <1>1
  <1> DEFINE n == 36524 * c + 1461 * q + 365 * r + d
             e == IF 24 * c + q + 365 * r + d >= 1460 THEN 1 ELSE 0
             y == 100 * c + 4 * q + r
  <1>2. n \div 36524 - n \div 146096 = c
    OBVIOUS
  <1>3. n \div 1460 = 25 * c + q + e
    OBVIOUS
  <1>4. d - e \in 0 .. 364 OBVIOUS
  <1>5. n - (25 * c + q + e) + c = 365 * y + (d - e) OBVIOUS
  <1>6. n \in Int /\ n \div 36524 \in Int /\ n \div 146096 \in Int /\ y \in Int OBVIOUS
  <1>7. e \in 0 .. 1 OBVIOUS
  <1> HIDE DEF n, e, y
  <1> DEFINE p == n \div 1460
             s == n \div 36524
             t == n \div 146096
  <1>8. s - t = c /\ p = 25 * c + q + e /\ s \in Int /\ t \in Int BY <1>2, <1>3, <1>6
  <1> HIDE DEF p, s, t
  <1>9. n - p + s - t = 365 * y + (d - e)
    BY <1>4, <1>5, <1>6, <1>7, <1>8
  <1>10. (365 * y + (d - e)) \div 365 = y BY <1>4, <1>6
  <1>11. YearOf(n) = y BY <1>9, <1>10 DEF YearOf, p, s, t
  <1>12. QED BY <1>11 DEF n, y

LEMMA CenturyOf ==
  ASSUME NEW n \in Nat, n <= 146096
  PROVE  \E c \in 0 .. 3, a \in Nat : n = 36524 * c + a /\ a <= 36524 /\ (a = 36524 => c = 3)
  <1>1. CASE n = 146096
    <2>1. n = 36524 * 3 + 36524 /\ 3 \in 0 .. 3 /\ 36524 \in Nat BY <1>1, SMT
    <2>2. QED BY <2>1, SMT
  <1>2. CASE n < 146096
    <2> DEFINE c == n \div 36524
               a == n % 36524
    <2>1. c \in Nat /\ a \in Nat /\ a < 36524 /\ n = 36524 * c + a BY SMT
    <2> HIDE DEF c, a
    <2>2. c \in 0 .. 3 BY <1>2, <2>1, SMT
    <2>3. QED BY <2>1, <2>2, SMT
  <1>3. QED BY <1>1, <1>2, SMT

LEMMA FourYearsOf ==
  ASSUME NEW a \in Nat, a <= 36524
  PROVE  \E q \in 0 .. 24, b \in Nat :
           a = 1461 * q + b /\ b <= 1460 /\ (q = 24 /\ b = 1460 => a = 36524)
  <1> DEFINE q == a \div 1461
             b == a % 1461
  <1>1. q \in Nat /\ b \in Nat /\ b <= 1460 /\ a = 1461 * q + b BY SMT
  <1> HIDE DEF q, b
  <1>2. q \in 0 .. 24 /\ (q = 24 /\ b = 1460 => a = 36524) BY <1>1, SMT
  <1>3. QED BY <1>1, <1>2, SMT

LEMMA YearAndDayOf ==
  ASSUME NEW b \in Nat, b <= 1460
  PROVE  \E r \in 0 .. 3, d \in 0 .. 365 : b = 365 * r + d /\ (d = 365 => r = 3 /\ b = 1460)
  <1>1. CASE b = 1460
    <2>1. b = 365 * 3 + 365 /\ 3 \in 0 .. 3 /\ 365 \in 0 .. 365 BY <1>1, SMT
    <2>2. QED BY <1>1, <2>1, SMT
  <1>2. CASE b < 1460
    <2> DEFINE r == b \div 365
               d == b % 365
    <2>1. r \in Nat /\ d \in Nat /\ d < 365 /\ b = 365 * r + d BY SMT
    <2> HIDE DEF r, d
    <2>2. r \in 0 .. 3 /\ d \in 0 .. 365 /\ d # 365 BY <1>2, <2>1, SMT
    <2>3. QED BY <2>1, <2>2, SMT
  <1>3. QED BY <1>1, <1>2, SMT

LEMMA Decompose ==
  ASSUME NEW n \in Nat, n <= 146096
  PROVE  \E c, q, r, d : Placed(n, c, q, r, d)
  <1>1. PICK c \in 0 .. 3, a \in Nat : n = 36524 * c + a /\ a <= 36524 /\ (a = 36524 => c = 3)
    BY CenturyOf, SMT
  <1>2. PICK q \in 0 .. 24, b \in Nat :
          a = 1461 * q + b /\ b <= 1460 /\ (q = 24 /\ b = 1460 => a = 36524)
    BY <1>1, FourYearsOf, SMT
  <1>3. PICK r \in 0 .. 3, d \in 0 .. 365 : b = 365 * r + d /\ (d = 365 => r = 3 /\ b = 1460)
    BY <1>2, YearAndDayOf, SMT
  <1>4. n = 36524 * c + 1461 * q + 365 * r + d BY <1>1, <1>2, <1>3, SMT
  <1>5. InEra(c, q, r, d) BY <1>1, <1>2, <1>3, SMT DEF InEra
  <1>6. QED BY <1>4, <1>5, SMT DEF Placed

(* The months that are counted from March on: the first day of one.        *)
StartOf(mp) == (153 * mp + 2) \div 5

LEMMA MonthIs ==
  ASSUME NEW d \in 0 .. 365, NEW mp, mp = (5 * d + 2) \div 153
  PROVE  /\ mp \in 0 .. 11
         /\ StartOf(mp) \in Nat /\ StartOf(mp) <= d
         /\ mp < 11 => d < StartOf(mp + 1)
  <1>1. mp \in 0 .. 11 BY SMT
  <1>2. 153 * mp <= 5 * d + 2 /\ 5 * d + 2 < 153 * mp + 153 BY SMT
  <1>3. StartOf(mp) \in Nat /\ 5 * StartOf(mp) <= 153 * mp + 2 BY <1>1, SMT DEF StartOf
  <1>4. 153 * (mp + 1) + 2 < 5 * StartOf(mp + 1) + 5 /\ StartOf(mp + 1) \in Nat
    BY <1>1, SMT DEF StartOf
  <1>5. QED BY <1>1, <1>2, <1>3, <1>4, SMT

(* The days of such a month.                                               *)
LEMMA Starts ==
  /\ StartOf(0) = 0 /\ StartOf(1) = 31 /\ StartOf(2) = 61 /\ StartOf(3) = 92
  /\ StartOf(4) = 122 /\ StartOf(5) = 153 /\ StartOf(6) = 184 /\ StartOf(7) = 214
  /\ StartOf(8) = 245 /\ StartOf(9) = 275 /\ StartOf(10) = 306 /\ StartOf(11) = 337
  BY SMT DEF StartOf

(* The leap days that have been when a year ends, and one more.            *)
LEMMA LeapDays ==
  ASSUME NEW year \in Nat, year > 0
  PROVE  (year - 1) \div 4 - (year - 1) \div 100 + (year - 1) \div 400 + (IF Leap(year) THEN 1 ELSE 0)
           = year \div 4 - year \div 100 + year \div 400
  BY SMT DEF Leap

LEMMA YearBegins ==
  ASSUME NEW c, NEW q, NEW r, NEW d, InEra(c, q, r, d)
  PROVE  /\ 100 * c + 4 * q + r \in 0 .. 399
         /\ 365 * (100 * c + 4 * q + r) + (100 * c + 4 * q + r) \div 4
              - (100 * c + 4 * q + r) \div 100
              = 36524 * c + 1461 * q + 365 * r
  BY SMT DEF InEra

LEMMA LongYearIsLeap ==
  ASSUME NEW c \in 0 .. 3, NEW q \in 0 .. 24, NEW era \in Nat, q # 24 \/ c = 3
  PROVE  Leap(100 * c + 4 * q + 3 + era * 400 + 1)
  BY SMT DEF Leap

-----------------------------------------------------------------------------
(* The command line of smq.                                                *)

(* What is known of it after some of these arguments.                      *)
SmqSockets(arguments) == {Absent, LocalSocket} \cup {arg.text : arg \in arguments}

Commanding == {Absent, "read", "raw"} \cup PlainOps

SmqEnds ==
  {Absent, [print |-> "help"], [print |-> "version"], [error |-> "unknown argument"]}

SmqStates(arguments) ==
  [socket : SmqSockets(arguments), json : BOOLEAN, word : Commanding, rest : Seq(arguments),
   wants : {Absent, "--socket"}, result : SmqEnds]

SmqStart ==
  [socket |-> Absent, json |-> FALSE, word |-> Absent, rest |-> << >>,
   wants |-> Absent, result |-> Absent]

LEMMA SmqStartIs == ASSUME NEW X PROVE SmqStart \in SmqStates(X)
  <1>1. << >> \in Seq(X) OBVIOUS
  <1>2. QED BY <1>1 DEF SmqStart, SmqStates, SmqSockets, Commanding, SmqEnds

LEMMA SmqArgumentIs ==
  ASSUME NEW X, NEW state \in SmqStates(X), NEW arg \in X
  PROVE  SmqArgument(state, arg) \in SmqStates(X)
  <1> DEFINE known == {Absent, LocalSocket} \cup {a.text : a \in X}
             words == {Absent, "read", "raw"} \cup PlainOps
             truths == BOOLEAN
             ends == {Absent, [print |-> "help"], [print |-> "version"],
                      [error |-> "unknown argument"]}
  <1>1. TRUE \in truths OBVIOUS
  <1>2. arg.text \in known /\ LocalSocket \in known /\ Absent \in known OBVIOUS
  <1>3. arg.text \in PlainOps \cup {"read", "raw"} => arg.text \in words OBVIOUS
  <1>4. /\ [print |-> "help"] \in ends /\ [print |-> "version"] \in ends
        /\ [error |-> "unknown argument"] \in ends
    OBVIOUS
  <1>5. Append(state.rest, arg) \in Seq(X)
    <2>1. state.rest \in Seq(X) BY DEF SmqStates
    <2>2. QED BY <2>1
  <1>6. SmqStates(X) = [socket : known, json : truths, word : words, rest : Seq(X),
                        wants : {Absent, "--socket"}, result : ends]
    BY DEF SmqStates, SmqSockets, Commanding, SmqEnds
  <1> HIDE DEF known, words, ends, truths
  <1>7. CASE state.result # Absent BY <1>7 DEF SmqArgument
  <1>8. CASE state.result = Absent /\ state.wants # Absent
    <2>1. SmqArgument(state, arg) = [state EXCEPT !.wants = Absent, !.socket = arg.text]
      BY <1>8 DEF SmqArgument
    <2>2. [state EXCEPT !.wants = Absent] \in SmqStates(X) BY <1>6
    <2>3. QED BY <1>2, <1>6, <2>1, <2>2
  <1>9. CASE state.result = Absent /\ state.wants = Absent /\ state.word # Absent
    BY <1>5, <1>6, <1>9 DEF SmqArgument
  <1>10. CASE state.result = Absent /\ state.wants = Absent /\ state.word = Absent
    <2> DEFINE text == arg.text
    <2>1. SmqArgument(state, arg) =
            CASE text = "--socket" -> [state EXCEPT !.wants = text]
              [] text \in {"-h", "--help"} -> [state EXCEPT !.result = [print |-> "help"]]
              [] text \in {"-V", "--version"} -> [state EXCEPT !.result = [print |-> "version"]]
              [] text = "--json" -> [state EXCEPT !.json = TRUE]
              [] text = "--local" -> [state EXCEPT !.socket = LocalSocket]
              [] text \in PlainOps \cup {"read", "raw"} -> [state EXCEPT !.word = text]
              [] OTHER -> [state EXCEPT !.result = [error |-> "unknown argument"]]
      BY <1>10 DEF SmqArgument
    <2>2. text = "--socket" => [state EXCEPT !.wants = text] \in SmqStates(X) BY <1>6
    <2>3. /\ [state EXCEPT !.result = [print |-> "help"]] \in SmqStates(X)
          /\ [state EXCEPT !.result = [print |-> "version"]] \in SmqStates(X)
          /\ [state EXCEPT !.result = [error |-> "unknown argument"]] \in SmqStates(X)
      BY <1>4, <1>6
    <2>4. [state EXCEPT !.json = TRUE] \in SmqStates(X)
      <3> DEFINE yes == TRUE
      <3>1. yes \in truths BY <1>1
      <3> HIDE DEF yes
      <3>2. [state EXCEPT !.json = yes] \in SmqStates(X) BY <1>6, <3>1
      <3>3. QED BY <3>2 DEF yes
    <2>5. [state EXCEPT !.socket = LocalSocket] \in SmqStates(X) BY <1>2, <1>6
    <2>6. text \in PlainOps \cup {"read", "raw"} => [state EXCEPT !.word = text] \in SmqStates(X)
      BY <1>3, <1>6
    <2> HIDE DEF text
    <2>7. QED BY <2>1, <2>2, <2>3, <2>4, <2>5, <2>6
  <1>11. QED BY <1>7, <1>8, <1>9, <1>10

(* The command line is taken argument by argument.                         *)
LEMMA SmqStages ==
  ASSUME NEW X, NEW args \in Seq(X)
  PROVE  \E t \in [0 .. Len(args) -> SmqStates(X)] :
           /\ t[0] = SmqStart /\ t[Len(args)] = FoldLeft(SmqArgument, SmqStart, args)
           /\ \A k \in 1 .. Len(args) : t[k] = SmqArgument(t[k - 1], args[k])
  <1> DEFINE S == SmqStates(X)
             n == Len(args)
             Is(it) == it = [T \in SUBSET (1 .. n) |->
                              IF T = {} THEN SmqStart
                              ELSE SmqArgument(it[T \ {Max(T)}], args[Max(T)])]
             fold == CHOOSE it : Is(it)
             t == [k \in 0 .. n |-> fold[1 .. k]]
  <1>1. n \in Nat /\ DOMAIN args = 1 .. n /\ \A k \in 1 .. n : args[k] \in X OBVIOUS
  <1>2. FoldLeft(SmqArgument, SmqStart, args) = fold[1 .. n]
    BY <1>1 DEF FoldLeft, MapThenFoldSet
  <1> HIDE DEF n
  <1>3. \E it : Is(it)
    <2> DEFINE g == [pair \in S \X X |-> SmqArgument(pair[1], pair[2])]
    <2>1. g \in [S \X X -> S] BY SmqArgumentIs
    <2>2. \A a \in S, b \in X : g[<<a, b>>] = SmqArgument(a, b) OBVIOUS
    <2> HIDE DEF g, S
    <2>3. PICK it \in [SUBSET (1 .. n) -> S] : FoldEquation(it, n, args, SmqStart, g)
      <3>1. SmqStart \in S BY SmqStartIs DEF S
      <3>2. QED BY <1>1, <2>1, <3>1, FoldExists
    <2>4. ASSUME NEW T \in SUBSET (1 .. n), T # {}
          PROVE  SmqArgument(it[T \ {Max(T)}], args[Max(T)])
                   = g[<<it[T \ {Max(T)}], args[Max(T)]>>]
      <3>1. Max(T) \in 1 .. n BY <1>1, <2>4, MaxUpTo
      <3>2. it[T \ {Max(T)}] \in S /\ args[Max(T)] \in X BY <1>1, <2>3, <3>1
      <3>3. QED BY <2>2, <3>2
    <2>5. Is(it) BY <2>3, <2>4 DEF FoldEquation
    <2>6. QED BY <2>5
  <1>4. Is(fold) BY <1>3
  <1> HIDE DEF fold
  <1>5. t[0] = SmqStart
    <2>1. 1 .. 0 = {} /\ {} \in SUBSET (1 .. n) /\ 0 \in 0 .. n BY <1>1
    <2>2. QED BY <1>4, <2>1
  <1>6. ASSUME NEW k \in 1 .. n PROVE t[k] = SmqArgument(t[k - 1], args[k])
    <2>1. /\ 1 .. k \in SUBSET (1 .. n) /\ 1 .. k # {}
          /\ Max(1 .. k) = k /\ (1 .. k) \ {Max(1 .. k)} = 1 .. k - 1
      BY <1>1, FirstItems
    <2>2. fold[1 .. k] = SmqArgument(fold[1 .. k - 1], args[k]) BY <1>4, <2>1
    <2>3. k \in 0 .. n /\ k - 1 \in 0 .. n BY <1>1
    <2>4. QED BY <2>2, <2>3
  <1>7. t[n] = FoldLeft(SmqArgument, SmqStart, args)
    <2>1. n \in 0 .. n BY <1>1
    <2>2. QED BY <1>2, <2>1
  <1>8. t = [k \in 0 .. n |-> t[k]] OBVIOUS
  <1> HIDE DEF t
  <1> DEFINE Good == {k \in 0 .. n : t[k] \in S}
  <1>9. 0 \in Good BY <1>1, <1>5, SmqStartIs
  <1>10. \A k \in 1 .. n : k - 1 \in Good => k \in Good BY <1>1, <1>6, SmqArgumentIs
  <1> HIDE DEF Good, S
  <1>11. \A k \in 0 .. n : k \in Good BY <1>1, <1>9, <1>10, InductionUpTo
  <1>12. t \in [0 .. n -> S] BY <1>8, <1>11 DEF Good
  <1>13. QED BY <1>5, <1>6, <1>7, <1>12 DEF S, n

LEMMA SmqArgumentsTaken ==
  ASSUME NEW X, NEW args \in Seq(X)
  PROVE  FoldLeft(SmqArgument, SmqStart, args) \in SmqStates(X)
  <1>1. Len(args) \in 0 .. Len(args) OBVIOUS
  <1>2. PICK t \in [0 .. Len(args) -> SmqStates(X)] :
          t[Len(args)] = FoldLeft(SmqArgument, SmqStart, args)
    BY SmqStages
  <1>3. QED BY <1>1, <1>2

-----------------------------------------------------------------------------
(* The options of `smq read`.                                              *)

TimesToAsk == [ago : BOOLEAN, ms : Nat]

(* What they may be, after some of these arguments.                        *)
ReadSettings(arguments) ==
  {read \in [ReadNames -> {Absent} \cup TimesToAsk \cup Nat \cup BOOLEAN
                          \cup Seq({arg.text : arg \in arguments})] :
     /\ read["--from"] \in {Absent} \cup TimesToAsk /\ read["--to"] \in {Absent} \cup TimesToAsk
     /\ read["--metric"] \in Seq({arg.text : arg \in arguments})
     /\ read["--step"] \in {Absent} \cup (Nat \ {0}) /\ read["--points"] \in {Absent} \cup Nat
     /\ read["--extremes"] \in BOOLEAN}

ReadWants == {Absent} \cup (ReadNames \ {"--extremes"})

ReadEnds == {Absent, [error |-> "unknown read option"]} \cup [error : Problems]

ReadStates(arguments) ==
  [read : ReadSettings(arguments), wants : ReadWants, result : ReadEnds]

ReadStart == [read |-> NoOptions, wants |-> Absent, result |-> Absent]

LEMMA NoOptionsAre ==
  /\ DOMAIN NoOptions = ReadNames
  /\ NoOptions["--from"] = Absent /\ NoOptions["--to"] = Absent /\ NoOptions["--metric"] = << >>
  /\ NoOptions["--step"] = Absent /\ NoOptions["--points"] = Absent
  /\ NoOptions["--extremes"] = FALSE
  BY DEF NoOptions, ReadNames

LEMMA ReadStartIs == ASSUME NEW X PROVE ReadStart \in ReadStates(X)
  <1> DEFINE texts == {arg.text : arg \in X}
             values == {Absent} \cup TimesToAsk \cup Nat \cup BOOLEAN \cup Seq(texts)
  <1>1. << >> \in Seq(texts) OBVIOUS
  <1>2. FALSE \in BOOLEAN OBVIOUS
  <1>3. NoOptions = [name \in ReadNames |-> NoOptions[name]] BY DEF NoOptions
  <1>4. ASSUME NEW name \in ReadNames PROVE NoOptions[name] \in values
    <2>1. << >> \in values /\ FALSE \in values /\ Absent \in values BY <1>1, <1>2
    <2> HIDE DEF values
    <2>2. QED BY <2>1, NoOptionsAre DEF ReadNames
  <1> HIDE DEF values
  <1>5. NoOptions \in [ReadNames -> values] BY <1>3, <1>4
  <1> HIDE DEF texts
  <1>6. NoOptions \in ReadSettings(X)
    BY <1>1, <1>2, <1>5, NoOptionsAre DEF ReadSettings, texts, values
  <1>7. Absent \in ReadWants /\ Absent \in ReadEnds BY DEF ReadWants, ReadEnds
  <1>8. QED BY <1>6, <1>7 DEF ReadStart, ReadStates

LEMMA LookIs ==
  ASSUME NEW text
  PROVE  Look(text).number \in Nat \cup {Absent} /\ Look(text).octal \in Nat \cup {Absent}
  <1>1. CASE text \in DOMAIN Looks
    <2>1. Look(text) = Looks[text] BY <1>1 DEF Look
    <2>2. QED BY <1>1, <2>1, LooksAssumption
  <1>2. CASE text \notin DOMAIN Looks
    <2>1. Look(text) = [number |-> Absent, unit |-> text, octal |-> Absent, length |-> 10,
                        plain |-> FALSE]
      BY <1>2 DEF Look
    <2>2. Look(text).number = Absent /\ Look(text).octal = Absent BY <2>1
    <2>3. QED BY <2>2
  <1>3. QED BY <1>1, <1>2

LEMMA MillisPerIs == ASSUME NEW unit \in Units PROVE MillisPer[unit] \in Nat \ {0}
  <1> DEFINE minute == 60 * 1000
             hour == 60 * 60 * 1000
             day == 24 * 60 * 60 * 1000
  <1>1. minute \in Nat \ {0} /\ hour \in Nat \ {0} /\ day \in Nat \ {0} OBVIOUS
  <1>2. MillisPer[unit] = CASE unit = "ms" -> 1
                            [] unit = "m" -> minute
                            [] unit = "h" -> hour
                            [] unit = "d" -> day
                            [] OTHER -> 1000
    BY DEF MillisPer
  <1> HIDE DEF minute, hour, day
  <1>3. QED BY <1>1, <1>2

LEMMA ProductIs ==
  ASSUME NEW x \in Nat \ {0}, NEW y \in Nat \ {0}
  PROVE  x * y \in Nat \ {0}
  OBVIOUS

(* A duration that is accepted is of some milliseconds.                    *)
LEMMA DurationIs ==
  ASSUME NEW text
  PROVE  /\ DurationProblem(text) \in {Absent} \cup Problems
         /\ DurationProblem(text) = Absent => Millis(text) \in Nat \ {0}
  <1>1. DurationProblem(text) \in {Absent} \cup Problems BY DEF DurationProblem, Problems
  <1>2. ASSUME DurationProblem(text) = Absent PROVE Millis(text) \in Nat \ {0}
    <2>1. /\ Look(text).number # Absent /\ Look(text).unit \in Units
          /\ Look(text).number # 0
      BY <1>2, AbsentAssumption DEF DurationProblem, Problems
    <2>2. Look(text).number \in Nat \ {0} BY <2>1, LookIs
    <2>3. QED BY <2>1, <2>2, MillisPerIs, ProductIs DEF Millis
  <1>3. QED BY <1>1, <1>2

LEMMA ReadValueIs ==
  ASSUME NEW X, NEW read \in ReadSettings(X), NEW option \in ReadNames \ {"--extremes"},
         NEW text \in {arg.text : arg \in X}
  PROVE  /\ ReadProblem(option, text) \in {Absent} \cup Problems
         /\ ReadProblem(option, text) = Absent =>
              [read EXCEPT ![option] = ReadValue(read, option, text)] \in ReadSettings(X)
  <1> DEFINE texts == {arg.text : arg \in X}
             values == {Absent} \cup TimesToAsk \cup Nat \cup BOOLEAN \cup Seq(texts)
             value == ReadValue(read, option, text)
             given == [read EXCEPT ![option] = value]
  <1>1. ReadProblem(option, text) \in {Absent} \cup Problems
    <2>1. DurationProblem(text) \in {Absent} \cup Problems BY DurationIs
    <2>2. "no whole number" \in Problems BY DEF Problems
    <2>3. QED BY <2>1, <2>2 DEF ReadProblem, TimeProblem
  <1>2. ASSUME ReadProblem(option, text) = Absent PROVE given \in ReadSettings(X)
    <2>1. /\ read \in [ReadNames -> values]
          /\ read["--from"] \in {Absent} \cup TimesToAsk /\ read["--to"] \in {Absent} \cup TimesToAsk
          /\ read["--metric"] \in Seq(texts)
          /\ read["--step"] \in {Absent} \cup (Nat \ {0}) /\ read["--points"] \in {Absent} \cup Nat
          /\ read["--extremes"] \in BOOLEAN
      BY DEF ReadSettings
    <2>2. option \in {"--from", "--to"} => value \in TimesToAsk
      <3>1. SUFFICES ASSUME option \in {"--from", "--to"} PROVE Time(text) \in TimesToAsk
        BY DEF ReadValue
      <3>2. CASE text = "now" BY <3>2 DEF Time, TimesToAsk
      <3>3. CASE text # "now" /\ IsDigits(text)
        <4>1. Look(text).number \in Nat BY <3>3, LookIs DEF IsDigits
        <4>2. QED BY <3>3, <4>1 DEF Time, TimesToAsk
      <3>4. CASE text # "now" /\ ~IsDigits(text)
        <4>1. DurationProblem(text) = Absent BY <1>2, <3>1, <3>4 DEF ReadProblem, TimeProblem
        <4>2. Millis(text) \in Nat BY <4>1, DurationIs
        <4>3. QED BY <3>4, <4>2 DEF Time, TimesToAsk
      <3>5. QED BY <3>2, <3>3, <3>4
    <2>3. option = "--step" => value \in Nat \ {0}
      <3>1. SUFFICES ASSUME option = "--step" PROVE Millis(text) \in Nat \ {0}
        BY DEF ReadValue
      <3>2. QED BY <1>2, <3>1, DurationIs DEF ReadProblem
    <2>4. option = "--points" => value \in Nat
      <3>1. SUFFICES ASSUME option = "--points" PROVE Look(text).number \in Nat
        BY DEF ReadValue
      <3>2. IsDigits(text)
        <4>1. "no whole number" # Absent BY AbsentAssumption DEF Problems
        <4>2. QED BY <1>2, <3>1, <4>1 DEF ReadProblem
      <3>3. QED BY <3>2, LookIs DEF IsDigits
    <2>5. option = "--metric" => value \in Seq(texts)
      <3>1. SUFFICES ASSUME option = "--metric" PROVE Append(read[option], text) \in Seq(texts)
        BY DEF ReadValue
      <3>2. QED BY <2>1, <3>1
    <2>6. option \in {"--from", "--to", "--step", "--points", "--metric"} BY DEF ReadNames
    <2>7. value \in values BY <2>2, <2>3, <2>4, <2>5, <2>6
    <2> HIDE DEF value, values, texts
    <2>8. given \in [ReadNames -> values] BY <2>1, <2>7
    <2>9. given[option] = value /\ \A name \in ReadNames \ {option} : given[name] = read[name]
      BY <2>1
    <2> HIDE DEF given
    <2>10. /\ given["--from"] \in {Absent} \cup TimesToAsk /\ given["--to"] \in {Absent} \cup TimesToAsk
           /\ given["--metric"] \in Seq(texts)
           /\ given["--step"] \in {Absent} \cup (Nat \ {0}) /\ given["--points"] \in {Absent} \cup Nat
           /\ given["--extremes"] \in BOOLEAN
      <3>1. /\ "--from" \in ReadNames /\ "--to" \in ReadNames /\ "--metric" \in ReadNames
            /\ "--step" \in ReadNames /\ "--points" \in ReadNames /\ "--extremes" \in ReadNames
        BY DEF ReadNames
      <3>2. QED BY <2>1, <2>2, <2>3, <2>4, <2>5, <2>9, <3>1
    <2>11. QED BY <2>8, <2>10 DEF ReadSettings, values, texts
  <1>3. QED BY <1>1, <1>2

LEMMA SetReadOptionIs ==
  ASSUME NEW X, NEW state \in ReadStates(X), NEW option \in ReadNames \ {"--extremes"},
         NEW text \in {arg.text : arg \in X}
  PROVE  SetReadOption(state, option, text) \in ReadStates(X)
  <1> DEFINE problem == ReadProblem(option, text)
             given == [state.read EXCEPT ![option] = ReadValue(state.read, option, text)]
  <1>1. ReadStates(X) = [read : ReadSettings(X), wants : ReadWants, result : ReadEnds]
    BY DEF ReadStates
  <1>2. state.read \in ReadSettings(X) BY <1>1
  <1>3. problem \in {Absent} \cup Problems /\ (problem = Absent => given \in ReadSettings(X))
    BY <1>2, ReadValueIs
  <1>4. problem # Absent => [error |-> problem] \in ReadEnds BY <1>3 DEF ReadEnds
  <1>5. SetReadOption(state, option, text) =
          IF problem # Absent THEN [state EXCEPT !.result = [error |-> problem]]
          ELSE [state EXCEPT !.read = given]
    <2>1. [state EXCEPT !.read[option] = ReadValue(state.read, option, text)]
            = [state EXCEPT !.read = given]
      OBVIOUS
    <2>2. QED BY <2>1 DEF SetReadOption
  <1> HIDE DEF problem, given
  <1>6. QED BY <1>1, <1>3, <1>4, <1>5

LEMMA ReadOptionIs ==
  ASSUME NEW X, NEW state \in ReadStates(X), NEW arg \in X
  PROVE  ReadOption(state, arg) \in ReadStates(X)
  <1> DEFINE text == arg.text
             extremes == [state.read EXCEPT !["--extremes"] = TRUE]
  <1>1. ReadStates(X) = [read : ReadSettings(X), wants : ReadWants, result : ReadEnds]
    BY DEF ReadStates
  <1>2. state.read \in ReadSettings(X) /\ state.wants \in ReadWants BY <1>1
  <1>3. Absent \in ReadWants /\ [error |-> "unknown read option"] \in ReadEnds
        /\ (text \in ReadNames \ {"--extremes"} => text \in ReadWants)
    BY DEF ReadWants, ReadEnds
  <1>4. CASE state.result # Absent BY <1>4 DEF ReadOption
  <1>5. CASE state.result = Absent /\ state.wants # Absent
    <2> DEFINE none == Absent
    <2>1. none \in ReadWants BY <1>3
    <2> HIDE DEF none
    <2>2. [state EXCEPT !.wants = none] \in ReadStates(X) BY <1>1, <2>1
    <2> USE DEF none
    <2>3. state.wants \in ReadNames \ {"--extremes"} BY <1>2, <1>5 DEF ReadWants
    <2>4. arg.text \in {a.text : a \in X} OBVIOUS
    <2>5. SetReadOption([state EXCEPT !.wants = Absent], state.wants, arg.text) \in ReadStates(X)
      BY <2>2, <2>3, <2>4, SetReadOptionIs
    <2>6. QED BY <1>5, <2>5 DEF ReadOption
  <1>6. CASE state.result = Absent /\ state.wants = Absent
    <2>1. extremes \in ReadSettings(X)
      <3> DEFINE values == {Absent} \cup TimesToAsk \cup Nat \cup BOOLEAN \cup Seq({a.text : a \in X})
                 yes == TRUE
                 given == [state.read EXCEPT !["--extremes"] = yes]
      <3>1. /\ state.read \in [ReadNames -> values]
            /\ state.read["--from"] \in {Absent} \cup TimesToAsk
            /\ state.read["--to"] \in {Absent} \cup TimesToAsk
            /\ state.read["--metric"] \in Seq({a.text : a \in X})
            /\ state.read["--step"] \in {Absent} \cup (Nat \ {0})
            /\ state.read["--points"] \in {Absent} \cup Nat
        BY <1>2 DEF ReadSettings
      <3>2. yes \in BOOLEAN /\ yes \in values OBVIOUS
      <3>3. /\ "--from" \in ReadNames /\ "--to" \in ReadNames /\ "--metric" \in ReadNames
            /\ "--step" \in ReadNames /\ "--points" \in ReadNames /\ "--extremes" \in ReadNames
        BY DEF ReadNames
      <3> HIDE DEF yes, values
      <3>4. given \in [ReadNames -> values] BY <3>1, <3>2
      <3>5. /\ given["--extremes"] = yes
            /\ \A name \in ReadNames \ {"--extremes"} : given[name] = state.read[name]
        BY <3>1, <3>3
      <3>6. extremes = given BY DEF yes
      <3> HIDE DEF given, extremes
      <3>7. given \in ReadSettings(X) BY <3>1, <3>2, <3>3, <3>4, <3>5 DEF ReadSettings, values
      <3>8. QED BY <3>6, <3>7
    <2>2. [state EXCEPT !.read["--extremes"] = TRUE] = [state EXCEPT !.read = extremes] OBVIOUS
    <2>3. ReadOption(state, arg) =
            CASE text = "--extremes" -> [state EXCEPT !.read = extremes]
              [] text \in ReadNames \ {"--extremes"} -> [state EXCEPT !.wants = text]
              [] OTHER -> [state EXCEPT !.result = [error |-> "unknown read option"]]
      BY <1>6, <2>2 DEF ReadOption
    <2> HIDE DEF extremes, text
    <2>4. [state EXCEPT !.read = extremes] \in ReadStates(X) BY <1>1, <2>1
    <2>5. ASSUME text \in ReadNames \ {"--extremes"}
          PROVE  [state EXCEPT !.wants = text] \in ReadStates(X)
      <3>1. text \in ReadWants BY <1>3, <2>5
      <3>2. QED BY <1>1, <3>1
    <2>6. [state EXCEPT !.result = [error |-> "unknown read option"]] \in ReadStates(X)
      BY <1>1, <1>3
    <2>7. QED BY <2>3, <2>4, <2>5, <2>6
  <1>7. QED BY <1>4, <1>5, <1>6

(* They are taken argument by argument as well.                            *)
LEMMA ReadStages ==
  ASSUME NEW X, NEW args \in Seq(X)
  PROVE  \E t \in [0 .. Len(args) -> ReadStates(X)] :
           /\ t[0] = ReadStart /\ t[Len(args)] = ReadOptions(args)
           /\ \A k \in 1 .. Len(args) : t[k] = ReadOption(t[k - 1], args[k])
  <1> DEFINE S == ReadStates(X)
             n == Len(args)
             Is(it) == it = [T \in SUBSET (1 .. n) |->
                              IF T = {} THEN ReadStart
                              ELSE ReadOption(it[T \ {Max(T)}], args[Max(T)])]
             fold == CHOOSE it : Is(it)
             t == [k \in 0 .. n |-> fold[1 .. k]]
  <1>1. n \in Nat /\ DOMAIN args = 1 .. n /\ \A k \in 1 .. n : args[k] \in X OBVIOUS
  <1>2. ReadOptions(args) = fold[1 .. n]
    BY <1>1 DEF ReadOptions, ReadStart, FoldLeft, MapThenFoldSet
  <1> HIDE DEF n
  <1>3. \E it : Is(it)
    <2> DEFINE g == [pair \in S \X X |-> ReadOption(pair[1], pair[2])]
    <2>1. g \in [S \X X -> S] BY ReadOptionIs
    <2>2. \A a \in S, b \in X : g[<<a, b>>] = ReadOption(a, b) OBVIOUS
    <2> HIDE DEF g, S
    <2>3. PICK it \in [SUBSET (1 .. n) -> S] : FoldEquation(it, n, args, ReadStart, g)
      <3>1. ReadStart \in S BY ReadStartIs DEF S
      <3>2. QED BY <1>1, <2>1, <3>1, FoldExists
    <2>4. ASSUME NEW T \in SUBSET (1 .. n), T # {}
          PROVE  ReadOption(it[T \ {Max(T)}], args[Max(T)])
                   = g[<<it[T \ {Max(T)}], args[Max(T)]>>]
      <3>1. Max(T) \in 1 .. n BY <1>1, <2>4, MaxUpTo
      <3>2. it[T \ {Max(T)}] \in S /\ args[Max(T)] \in X BY <1>1, <2>3, <3>1
      <3>3. QED BY <2>2, <3>2
    <2>5. Is(it) BY <2>3, <2>4 DEF FoldEquation
    <2>6. QED BY <2>5
  <1>4. Is(fold) BY <1>3
  <1> HIDE DEF fold
  <1>5. t[0] = ReadStart
    <2>1. 1 .. 0 = {} /\ {} \in SUBSET (1 .. n) /\ 0 \in 0 .. n BY <1>1
    <2>2. QED BY <1>4, <2>1
  <1>6. ASSUME NEW k \in 1 .. n PROVE t[k] = ReadOption(t[k - 1], args[k])
    <2>1. /\ 1 .. k \in SUBSET (1 .. n) /\ 1 .. k # {}
          /\ Max(1 .. k) = k /\ (1 .. k) \ {Max(1 .. k)} = 1 .. k - 1
      BY <1>1, FirstItems
    <2>2. fold[1 .. k] = ReadOption(fold[1 .. k - 1], args[k]) BY <1>4, <2>1
    <2>3. k \in 0 .. n /\ k - 1 \in 0 .. n BY <1>1
    <2>4. QED BY <2>2, <2>3
  <1>7. t[n] = ReadOptions(args)
    <2>1. n \in 0 .. n BY <1>1
    <2>2. QED BY <1>2, <2>1
  <1>8. t = [k \in 0 .. n |-> t[k]] OBVIOUS
  <1> HIDE DEF t
  <1> DEFINE Good == {k \in 0 .. n : t[k] \in S}
  <1>9. 0 \in Good BY <1>1, <1>5, ReadStartIs
  <1>10. \A k \in 1 .. n : k - 1 \in Good => k \in Good BY <1>1, <1>6, ReadOptionIs
  <1> HIDE DEF Good, S
  <1>11. \A k \in 0 .. n : k \in Good BY <1>1, <1>9, <1>10, InductionUpTo
  <1>12. t \in [0 .. n -> S] BY <1>8, <1>11 DEF Good
  <1>13. QED BY <1>5, <1>6, <1>7, <1>12 DEF S, n

LEMMA ReadOptionsTaken ==
  ASSUME NEW X, NEW args \in Seq(X)
  PROVE  ReadOptions(args) \in ReadStates(X)
  <1>1. Len(args) \in 0 .. Len(args) OBVIOUS
  <1>2. PICK t \in [0 .. Len(args) -> ReadStates(X)] : t[Len(args)] = ReadOptions(args)
    BY ReadStages
  <1>3. QED BY <1>1, <1>2

(* What a command line makes.                                              *)
ReadCommands(arguments) ==
  {made \in [op : {"read"}, read : ReadSettings(arguments)] : ~BadOptions(made.read)}

Commands(arguments) ==
  [op : PlainOps] \cup [op : {"raw"}, json : {arg.json : arg \in arguments}]
  \cup ReadCommands(arguments)

LEMMA ParseReadIs ==
  ASSUME NEW X, NEW rest \in Seq(X)
  PROVE  ParseRead(rest) \in ReadCommands(X) \/ \E why : ParseRead(rest) = [error |-> why]
  <1> DEFINE last == ReadOptions(rest)
  <1>1. last \in ReadStates(X) BY ReadOptionsTaken
  <1> HIDE DEF last
  <1>2. last.read \in ReadSettings(X) /\ last.result \in ReadEnds
    BY <1>1 DEF ReadStates
  <1>3. CASE Ended(last) # Absent
    <2>1. ParseRead(rest) = Ended(last) BY <1>3 DEF ParseRead, last
    <2>2. CASE last.result = Absent
      <3>1. Ended(last) = [error |-> "missing value"] BY <1>3, <2>2 DEF Ended
      <3>2. QED BY <2>1, <3>1
    <2>3. CASE last.result # Absent
      <3>1. Ended(last) = last.result BY <2>3 DEF Ended
      <3>2. last.result = [error |-> "unknown read option"] \/ last.result \in [error : Problems]
        BY <1>2, <2>3 DEF ReadEnds
      <3>3. last.result \in [error : Problems] => last.result = [error |-> last.result.error]
        OBVIOUS
      <3>4. QED BY <2>1, <3>1, <3>2, <3>3
    <2>4. QED BY <2>2, <2>3
  <1>4. CASE Ended(last) = Absent /\ BadOptions(last.read)
    <2>1. ParseRead(rest) = [error |-> "options that do not go together"]
      BY <1>4 DEF ParseRead, last
    <2>2. QED BY <2>1
  <1>5. CASE Ended(last) = Absent /\ ~BadOptions(last.read)
    <2>1. ParseRead(rest) = [op |-> "read", read |-> last.read] BY <1>5 DEF ParseRead, last
    <2> DEFINE made == [op |-> "read", read |-> last.read]
    <2>2. made \in [op : {"read"}, read : ReadSettings(X)] BY <1>2
    <2>3. made.read = last.read OBVIOUS
    <2> HIDE DEF made
    <2>4. made \in ReadCommands(X) BY <1>5, <2>2, <2>3 DEF ReadCommands
    <2>5. QED BY <2>1, <2>4 DEF made
  <1>6. QED BY <1>3, <1>4, <1>5

LEMMA CommandIs ==
  ASSUME NEW X, NEW word \in Commanding, NEW rest \in Seq(X)
  PROVE  CommandOf(word, rest) \in Commands(X) \/ \E why : CommandOf(word, rest) = [error |-> why]
  <1>1. CASE word = Absent BY <1>1 DEF CommandOf
  <1>2. CASE word # Absent /\ word \in PlainOps
    <2>1. CommandOf(word, rest) = [op |-> word] \/ CommandOf(word, rest) = [error |-> "no arguments"]
      BY <1>2 DEF CommandOf, PlainOps
    <2>2. [op |-> word] \in [op : PlainOps] BY <1>2
    <2>3. QED BY <2>1, <2>2 DEF Commands
  <1>3. CASE word # Absent /\ word = "raw"
    <2>1. \/ Len(rest) = 1 /\ CommandOf(word, rest) = [op |-> "raw", json |-> rest[1].json]
          \/ CommandOf(word, rest) = [error |-> "exactly one argument"]
      BY <1>3 DEF CommandOf, PlainOps
    <2>2. Len(rest) = 1 => rest[1] \in X OBVIOUS
    <2>3. Len(rest) = 1 => rest[1].json \in {arg.json : arg \in X} BY <2>2
    <2>4. Len(rest) = 1 =>
            [op |-> "raw", json |-> rest[1].json] \in [op : {"raw"}, json : {arg.json : arg \in X}]
      BY <2>3
    <2>5. QED BY <2>1, <2>4 DEF Commands
  <1>4. CASE word # Absent /\ word = "read"
    <2>1. CommandOf(word, rest) = ParseRead(rest) BY <1>4 DEF CommandOf, PlainOps
    <2>2. QED BY <2>1, ParseReadIs DEF Commands
  <1>5. QED BY <1>1, <1>2, <1>3, <1>4 DEF Commanding

LEMMA CommandIsNoError ==
  ASSUME NEW X, NEW made \in Commands(X)
  PROVE  "error" \notin DOMAIN made /\ "command" \notin DOMAIN made
  <1>1. CASE made \in [op : PlainOps] BY <1>1
  <1>2. CASE made \in [op : {"raw"}, json : {arg.json : arg \in X}] BY <1>2
  <1>3. CASE made \in ReadCommands(X)
    <2>1. made \in [op : {"read"}, read : ReadSettings(X)] BY <1>3 DEF ReadCommands
    <2>2. QED BY <2>1
  <1>4. QED BY <1>1, <1>2, <1>3 DEF Commands

(* It ends with one of these, or goes on to the command.                   *)
LEMMA SmqEndsIn ==
  ASSUME NEW X, NEW last \in SmqStates(X), Ended(last) # Absent
  PROVE  Ended(last) \in {[print |-> "help"], [print |-> "version"],
                          [error |-> "unknown argument"], [error |-> "missing value"]}
  <1>1. last.result \in SmqEnds BY DEF SmqStates
  <1>2. QED BY <1>1 DEF Ended, SmqEnds

LEMMA ParseSmqIs ==
  ASSUME NEW X, NEW args \in Seq(X), "command" \in DOMAIN ParseSmq(args)
  PROVE  \E socket, json : \E given \in Commands(X) :
           ParseSmq(args) = [socket |-> socket, json |-> json, command |-> given]
  <1> DEFINE last == FoldLeft(SmqArgument, SmqStart, args)
             made == CommandOf(last.word, last.rest)
  <1>1. last \in SmqStates(X) BY SmqArgumentsTaken
  <1>2. ParseSmq(args) =
          IF Ended(last) # Absent THEN Ended(last)
          ELSE IF "error" \in DOMAIN made THEN made
          ELSE [socket |-> last.socket, json |-> last.json, command |-> made]
    BY DEF ParseSmq, SmqStart
  <1> HIDE DEF last
  <1>3. last.word \in Commanding /\ last.rest \in Seq(X) BY <1>1 DEF SmqStates
  <1>4. made \in Commands(X) \/ \E why : made = [error |-> why] BY <1>3, CommandIs
  <1> HIDE DEF made
  <1>5. Ended(last) = Absent
    <2>1. SUFFICES ASSUME Ended(last) # Absent PROVE FALSE OBVIOUS
    <2> DEFINE end == Ended(last)
    <2>2. end \in {[print |-> "help"], [print |-> "version"],
                   [error |-> "unknown argument"], [error |-> "missing value"]}
      BY <1>1, <2>1, SmqEndsIn
    <2>3. "command" \in DOMAIN end BY <1>2, <2>1
    <2> HIDE DEF end
    <2>4. DOMAIN end = {"print"} \/ DOMAIN end = {"error"} BY <2>2
    <2>5. QED BY <2>3, <2>4
  <1>6. made \in Commands(X)
    <2>1. ASSUME NEW why, made = [error |-> why] PROVE FALSE
      <3>1. DOMAIN made = {"error"} BY <2>1
      <3>2. QED BY <1>2, <1>5, <3>1
    <2>2. QED BY <1>4, <2>1
  <1>7. ParseSmq(args) = [socket |-> last.socket, json |-> last.json, command |-> made]
    BY <1>2, <1>5, <1>6, CommandIsNoError
  <1>8. QED BY <1>6, <1>7

-----------------------------------------------------------------------------
(* The days of a year before a month.                                      *)

LeapDay(year) == IF Leap(year) THEN 1 ELSE 0

Before(leap) ==
  <<0, 31, 59 + leap, 90 + leap, 120 + leap, 151 + leap, 181 + leap, 212 + leap, 243 + leap,
    273 + leap, 304 + leap, 334 + leap>>

Lengths(leap) == <<31, 28 + leap, 31, 30, 31, 30, 31, 31, 30, 31, 30, 31>>

LEMMA LengthsAre ==
  ASSUME NEW year \in Nat
  PROVE  /\ LeapDay(year) \in 0 .. 1
         /\ MonthLengths(year) = Lengths(LeapDay(year))
  <1>1. CASE Leap(year)
    <2>1. LeapDay(year) = 1 /\ (IF Leap(year) THEN 29 ELSE 28) = 28 + 1 BY <1>1 DEF LeapDay
    <2>2. QED BY <2>1 DEF MonthLengths, Lengths
  <1>2. CASE ~Leap(year)
    <2>1. LeapDay(year) = 0 /\ (IF Leap(year) THEN 29 ELSE 28) = 28 + 0 BY <1>2 DEF LeapDay
    <2>2. QED BY <2>1 DEF MonthLengths, Lengths
  <1>3. QED BY <1>1, <1>2

LEMMA BeforeGrows ==
  ASSUME NEW leap \in 0 .. 1, NEW k \in 1 .. 11
  PROVE  /\ Before(leap)[k + 1] = Before(leap)[k] + Lengths(leap)[k]
         /\ Before(leap)[k] \in Nat
  <1>1. k \in {1, 2, 3, 4, 5, 6, 7, 8, 9, 10, 11} OBVIOUS
  <1>2. QED BY <1>1 DEF Before, Lengths

LEMMA LengthsTyped ==
  ASSUME NEW leap \in 0 .. 1
  PROVE  Lengths(leap) \in Seq(Int) /\ Len(Lengths(leap)) = 12
  BY DEF Lengths

LEMMA LengthIs ==
  ASSUME NEW leap \in 0 .. 1, NEW month \in 1 .. 12
  PROVE  Lengths(leap)[month] \in Int
  <1>1. month \in {1, 2, 3, 4, 5, 6, 7, 8, 9, 10, 11, 12} OBVIOUS
  <1>2. QED BY <1>1 DEF Lengths

LEMMA DaysBeforeIs ==
  ASSUME NEW year \in Nat, NEW month \in 1 .. 12
  PROVE  DaysBefore(year, month) = Before(LeapDay(year))[month]
  <1> DEFINE leap == LeapDay(year)
             n == month - 1
             s == SubSeq(Lengths(leap), 1, n)
  <1>1. leap \in 0 .. 1 /\ MonthLengths(year) = Lengths(leap) BY LengthsAre
  <1> HIDE DEF leap
  <1>2. /\ n \in Nat /\ n <= 11 /\ DOMAIN s = 1 .. n
        /\ \A k \in 1 .. n : s[k] = Lengths(leap)[k] /\ s[k] \in Int
    <2> DEFINE all == Lengths(leap)
    <2>1. n \in Nat /\ n <= 11 /\ n \in 0 .. 12 OBVIOUS
    <2>2. all \in Seq(Int) /\ Len(all) = 12 BY <1>1, LengthsTyped
    <2> HIDE DEF n, all
    <2>3. \A k \in 1 .. n : all[k] \in Int
      <3>1. \A k \in 1 .. n : k \in 1 .. 12 BY <2>1
      <3>2. QED BY <1>1, <3>1, LengthIs DEF all
    <2>4. DOMAIN SubSeq(all, 1, n) = 1 .. n /\ \A k \in 1 .. n : SubSeq(all, 1, n)[k] = all[k]
      BY <2>1, <2>2
    <2>5. s = SubSeq(all, 1, n) BY DEF all
    <2> HIDE DEF s
    <2>6. QED BY <2>1, <2>3, <2>4, <2>5 DEF all
  <1> HIDE DEF s, n
  <1>3. PICK t \in [0 .. n -> Int] :
          t[0] = 0 /\ t[n] = FoldLeft(+, 0, s) /\ \A k \in 1 .. n : t[k] = t[k - 1] + s[k]
    BY <1>2, SumsOf
  <1> DEFINE Good == {k \in 0 .. n : t[k] = Before(leap)[k + 1]}
  <1>4. 0 \in Good
    <2>1. Before(leap)[1] = 0 BY DEF Before
    <2>2. 0 \in 0 .. n /\ 0 + 1 = 1 BY <1>2
    <2>3. QED BY <1>3, <2>1, <2>2
  <1>5. ASSUME NEW k \in 1 .. n, k - 1 \in Good PROVE k \in Good
    <2>1. t[k - 1] = Before(leap)[k] BY <1>5
    <2>2. k \in 1 .. 11 BY <1>2
    <2>3. Before(leap)[k + 1] = Before(leap)[k] + Lengths(leap)[k] BY <1>1, <2>2, BeforeGrows
    <2>4. t[k] = t[k - 1] + Lengths(leap)[k] BY <1>2, <1>3
    <2>5. k \in 0 .. n BY <1>2
    <2>6. QED BY <2>1, <2>3, <2>4, <2>5
  <1> HIDE DEF Good
  <1>6. \A k \in 0 .. n : k \in Good BY <1>2, <1>4, <1>5, InductionUpTo
  <1>7. n \in 0 .. n /\ n + 1 = month BY <1>2 DEF n
  <1>8. t[n] = Before(leap)[month] BY <1>6, <1>7 DEF Good
  <1>9. DaysBefore(year, month) = FoldLeft(+, 0, s) BY <1>1 DEF DaysBefore, s, n
  <1>10. QED BY <1>3, <1>8, <1>9 DEF leap

-----------------------------------------------------------------------------
(* The date of a day.                                                      *)

DayOf(n) == n - (365 * YearOf(n) + YearOf(n) \div 4 - YearOf(n) \div 100)

MonthOf(mp) == IF mp < 10 THEN mp + 3 ELSE mp - 9

DateOf(era, y, d) ==
  LET mp == (5 * d + 2) \div 153
  IN  [year |-> y + era * 400 + (IF MonthOf(mp) <= 2 THEN 1 ELSE 0), month |-> MonthOf(mp),
       day |-> d - (153 * mp + 2) \div 5 + 1]

LEMMA CivilUnfolds ==
  ASSUME NEW days
  PROVE  Civil(days) = LET z == days + 719468
                           n == z % 146097
                       IN  DateOf(z \div 146097, YearOf(n), DayOf(n))
  BY SMT DEF Civil, DateOf, YearOf, DayOf, MonthOf

(* The months in the order of years that begin in March.                   *)
LEMMA MonthsFromMarch ==
  ASSUME NEW mp \in 0 .. 11, NEW leap \in 0 .. 1
  PROVE  /\ MonthOf(mp) \in 1 .. 12
         /\ mp < 10 => /\ MonthOf(mp) > 2
                       /\ Before(leap)[MonthOf(mp)] = 59 + leap + StartOf(mp)
         /\ mp >= 10 => /\ MonthOf(mp) <= 2
                        /\ Before(leap)[MonthOf(mp)] = StartOf(mp) - 306
         /\ mp < 11 => StartOf(mp + 1) = StartOf(mp) + Lengths(leap)[MonthOf(mp)]
         /\ mp = 11 => StartOf(mp) = 337 /\ Lengths(leap)[MonthOf(mp)] = 28 + leap
  <1>1. mp \in {0, 1, 2, 3, 4, 5, 6, 7, 8, 9, 10, 11} OBVIOUS
  <1> DEFINE p == mp + 1
  <1>2. mp < 11 => p \in {1, 2, 3, 4, 5, 6, 7, 8, 9, 10, 11} BY <1>1
  <1>3. MonthOf(mp) \in 1 .. 12 BY <1>1 DEF MonthOf
  <1>4. /\ mp < 10 => /\ MonthOf(mp) > 2
                      /\ Before(leap)[MonthOf(mp)] = 59 + leap + StartOf(mp)
        /\ mp >= 10 => /\ MonthOf(mp) <= 2
                       /\ Before(leap)[MonthOf(mp)] = StartOf(mp) - 306
    BY <1>1, Starts DEF MonthOf, Before
  <1>5. mp < 11 => StartOf(mp + 1) = StartOf(mp) + Lengths(leap)[MonthOf(mp)]
    BY <1>1, Starts DEF MonthOf, Lengths
  <1>6. mp = 11 => StartOf(mp) = 337 /\ Lengths(leap)[MonthOf(mp)] = 28 + leap
    BY Starts DEF MonthOf, Lengths
  <1>7. QED BY <1>3, <1>4, <1>5, <1>6

(* It is a day of its month, as many days after the epoch as it says.      *)
LEMMA DateIsRight ==
  ASSUME NEW era \in Nat, era > 0, NEW c, NEW q, NEW r, NEW d, InEra(c, q, r, d),
         NEW y, y = 100 * c + 4 * q + r, NEW date, date = DateOf(era, y, d)
  PROVE  /\ date.month \in 1 .. 12
         /\ date.day \in 1 .. MonthLengths(date.year)[date.month]
         /\ 146097 * era + (36524 * c + 1461 * q + 365 * r + d) - 719468
              = 365 * (date.year - 1970)
                + ((date.year - 1) \div 4 - (date.year - 1) \div 100 + (date.year - 1) \div 400 - 477)
                + DaysBefore(date.year, date.month) + date.day - 1
  <1>1. /\ c \in 0 .. 3 /\ q \in 0 .. 24 /\ r \in 0 .. 3 /\ d \in 0 .. 365
        /\ d = 365 => r = 3 /\ (q # 24 \/ c = 3)
    BY SMT DEF InEra
  <1>2. /\ 100 * c + 4 * q + r \in 0 .. 399
         /\ 365 * (100 * c + 4 * q + r) + (100 * c + 4 * q + r) \div 4
              - (100 * c + 4 * q + r) \div 100
              = 36524 * c + 1461 * q + 365 * r
    BY YearBegins
  <1> USE <1>1
  <1> DEFINE mp == (5 * d + 2) \div 153
             year == y + era * 400 + (IF MonthOf(mp) <= 2 THEN 1 ELSE 0)
             month == MonthOf(mp)
             day == d - StartOf(mp) + 1
             leap == LeapDay(year)
             past == year - 1
             past4 == past \div 4
             past100 == past \div 100
             past400 == past \div 400
  <1>3. date = [year |-> year, month |-> month, day |-> day] BY DEF DateOf, StartOf
  <1>4. date.year = year /\ date.month = month /\ date.day = day BY <1>3
  <1>5. /\ mp \in 0 .. 11 /\ StartOf(mp) \in Nat /\ StartOf(mp) <= d
        /\ mp < 11 => d < StartOf(mp + 1)
    BY MonthIs
  <1> HIDE DEF mp
  <1>6. /\ y \in 0 .. 399
        /\ 365 * y + y \div 4 - y \div 100 = 36524 * c + 1461 * q + 365 * r
    BY <1>2, SMT
  <1>7. month \in 1 .. 12 BY <1>5, MonthsFromMarch
  <1>8. year \in Nat /\ year > 0 BY <1>6
  <1>9. leap \in 0 .. 1 /\ MonthLengths(year) = Lengths(leap) BY <1>8, LengthsAre
  <1>10. mp = 11 /\ d = 365 => leap = 1
    <2>1. SUFFICES ASSUME mp = 11, d = 365 PROVE leap = 1 OBVIOUS
    <2>2. MonthOf(mp) <= 2 BY <2>1 DEF MonthOf
    <2>3. year = 100 * c + 4 * q + 3 + era * 400 + 1 BY <2>1, <2>2, SMT
    <2>4. Leap(year) BY <2>1, <2>3, LongYearIsLeap, SMT
    <2>5. QED BY <2>4 DEF LeapDay
  <1> DEFINE length == Lengths(leap)[month]
             start == StartOf(mp)
  <1>11. day \in 1 .. length
    <2>1. CASE mp < 11
      <3>1. StartOf(mp + 1) = start + length BY <1>5, <1>9, <2>1, MonthsFromMarch
      <3>2. length \in Int BY <1>7, <1>9, LengthIs
      <3> HIDE DEF length, start
      <3>3. d < start + length /\ start <= d /\ start \in Nat BY <1>5, <2>1, <3>1 DEF start
      <3>4. QED BY <3>2, <3>3 DEF start
    <2>2. CASE mp = 11
      <3>1. start = 337 /\ length = 28 + leap BY <1>9, <2>2, MonthsFromMarch
      <3> HIDE DEF length, start, leap
      <3>2. d < 365 \/ leap = 1 BY <1>10, <2>2
      <3>3. d - start + 1 \in 1 .. length BY <1>5, <1>9, <3>1, <3>2 DEF start
      <3>4. QED BY <3>3 DEF start
    <2>3. QED BY <1>5, <2>1, <2>2
  <1>12. DaysBefore(year, month) = Before(leap)[month] BY <1>7, <1>8, DaysBeforeIs
  <1> DEFINE y4 == y \div 4
             y100 == y \div 100
             before == Before(leap)[month]
  <1>13. y4 \in Int /\ y100 \in Int /\ past4 \in Int /\ past100 \in Int /\ past400 \in Int
    BY <1>6, <1>8, SMT
  <1>14. 365 * (year - 1970) + (past4 - past100 + past400 - 477) + before + day - 1
           = 146097 * era + (365 * y + y4 - y100 + d) - 719468
    <2>1. CASE mp < 10
      <3>1. before = 59 + leap + start /\ month > 2 BY <1>5, <1>9, <2>1, MonthsFromMarch
      <3>2. year = y + era * 400 BY <3>1, <1>6, <1>7
      <3>3. past4 - past100 + past400 + leap = year \div 4 - year \div 100 + year \div 400
        <4> HIDE DEF year
        <4>1. QED BY <1>8, LeapDays, SMT DEF LeapDay
      <3>4. year \div 4 - year \div 100 + year \div 400 = y4 - y100 + 97 * era
        <4>1. (y + era * 400) \div 4 - (y + era * 400) \div 100 + (y + era * 400) \div 400
               = y \div 4 - y \div 100 + 97 * era
          BY <1>6, SMT
        <4> HIDE DEF year
        <4>2. QED BY <3>2, <4>1
      <3>5. day = d - start + 1 /\ start \in Nat BY <1>5
      <3> HIDE DEF past4, past100, past400, leap, y4, y100, before, start, day, year
      <3>6. QED BY <1>6, <1>9, <1>13, <3>1, <3>2, <3>3, <3>4, <3>5, SMT
    <2>2. CASE mp >= 10
      <3>1. before = start - 306 /\ month <= 2 BY <1>5, <1>9, <2>2, MonthsFromMarch
      <3>2. year = y + era * 400 + 1 /\ past = y + era * 400 BY <3>1, <1>6
      <3>3. past4 - past100 + past400 = y4 - y100 + 97 * era
        <4>1. (y + era * 400) \div 4 - (y + era * 400) \div 100 + (y + era * 400) \div 400
               = y \div 4 - y \div 100 + 97 * era
          BY <1>6, SMT
        <4> HIDE DEF past
        <4>2. QED BY <3>2, <4>1
      <3>4. day = d - start + 1 /\ start \in Nat BY <1>5
      <3> HIDE DEF past4, past100, past400, leap, y4, y100, before, start, day, year
      <3>5. QED BY <1>6, <1>9, <1>13, <3>1, <3>2, <3>3, <3>4, SMT
    <2>3. QED BY <1>5, <2>1, <2>2
  <1> HIDE DEF before, leap, y4, y100, month, day, year
  <1>15. 365 * y + y4 - y100 = 36524 * c + 1461 * q + 365 * r BY <1>6 DEF y4, y100
  <1>16. 146097 * era + (36524 * c + 1461 * q + 365 * r + d) - 719468
           = 365 * (year - 1970) + (past4 - past100 + past400 - 477)
             + DaysBefore(year, month) + day - 1
    BY <1>12, <1>14, <1>15 DEF before
  <1>17. day \in 1 .. MonthLengths(year)[month] BY <1>9, <1>11
  <1>18. QED BY <1>4, <1>7, <1>16, <1>17, SMT

-----------------------------------------------------------------------------
(* An exchange: each part of it comes from the one before.                 *)

Understood(text) == text # Blank /\ Refusal(text) = Absent

(* The answers that a request may have.                                    *)
Refused == Refusal(request) # Absent /\ reply = Error(Refusal(request))

AnsweredAtOnce ==
  \/ request.op = "info" /\
       \E len \in {0, daemon.capacity} :
         reply = InfoAnswer(daemon.interval, daemon.capacity, len, Schema)
  \/ request.op = "metrics" /\ reply = MetricsAnswer(Schema)
  \/ request.op = "latest" /\ reply \in LatestAnswers

AnsweredByStore ==
  /\ request.op = "read"
  /\ ~Unknown(Schema, Params(request).metrics)
  /\ asked = StoreCall(Schema, Params(request))
  /\ \/ reply \in ReadAnswers(asked)
     \/ Params(request).step # Absent /\ reply = Error("too many buckets")

Answered ==
  \/ Refused
  \/ /\ Understood(request)
     /\ \/ AnsweredAtOnce
        \/ AnsweredByStore
        \/ /\ request.op = "read"
           /\ Unknown(Schema, Params(request).metrics) /\ reply = Error("unknown metric")

(* The config that a command line gives the daemon, if any.                *)
ConfigOf(args) ==
  IF ExitCode(ParseSettings(args)) = Absent THEN ParseSettings(args).config ELSE Absent

DaemonIsSet ==
  /\ pc = "launched" => line \in DaemonLines /\ daemon = ConfigOf(line)
  /\ pc \notin {"down", "launched"} => daemon # Absent
  /\ daemon # Absent => \E args \in DaemonLines : daemon = ConfigOf(args)

CommandIsSent ==
  command # Absent \/ pc \in {"sent", "parsed", "answered"} =>
    \/ command = Absent /\ request \in Texts
    \/ \E args \in SmqLines :
         /\ "command" \in DOMAIN ParseSmq(args)
         /\ command.command = ParseSmq(args).command /\ command.now \in Clock
         /\ request = RequestFor(command.command, command.now) /\ request # NotJson

(* Why smq has exited with 2.                                              *)
StopIsCaused ==
  pc = "done" /\ exit = 2 =>
    /\ line \in SmqLines
    /\ \/ "command" \notin DOMAIN ParseSmq(line) /\ "print" \notin DOMAIN ParseSmq(line)
       \/ "command" \in DOMAIN ParseSmq(line) /\ ParseSmq(line).command.op = "raw"

ParsedIsOfRequest == pc = "parsed" => Understood(request) /\ parsed = ParseRequest(request)

AskedForRequest ==
  asked # Absent =>
    /\ Understood(request) /\ request.op = "read"
    /\ ~Unknown(Schema, Params(request).metrics) /\ asked = StoreCall(Schema, Params(request))

ReplyIsToRequest == pc = "answered" \/ reply # Absent \/ shown # Absent => Answered

ShownIsReply ==
  shown # Absent =>
    /\ command # Absent
    /\ shown = IF command.json THEN reply
               ELSE IF reply.ok THEN Render(command.command.op, reply) ELSE Absent

(* How much of it there is.                                                *)
PartsInOrder ==
  /\ pc \in {"down", "launched", "idle", "sent", "parsed", "answered", "done"}
  /\ pc \in {"down", "launched", "idle"} => command = Absent /\ request = Absent
  /\ pc \in {"down", "launched", "idle", "sent"} => parsed = Absent
  /\ pc \in {"down", "launched", "idle", "sent", "parsed"} => asked = Absent /\ reply = Absent
  /\ pc \in {"down", "launched", "idle", "sent", "parsed", "answered"} => shown = Absent
  /\ pc = "done" /\ command = Absent => asked = Absent /\ reply = Absent /\ shown = Absent

Exchange ==
  /\ PartsInOrder /\ DaemonIsSet /\ CommandIsSent /\ StopIsCaused /\ ParsedIsOfRequest
  /\ AskedForRequest /\ ReplyIsToRequest /\ ShownIsReply

LEMMA ParsedIs ==
  ASSUME NEW text, Refusal(text) = Absent
  PROVE  /\ ParseRequest(text).op = text.op
         /\ text.op = "read" => ParseRequest(text).params = Params(text)
  <1>1. CASE text.op = "read"
    <2>1. ParseRequest(text) = [op |-> "read", params |-> Params(text)] BY <1>1 DEF ParseRequest
    <2>2. QED BY <1>1, <2>1
  <1>2. CASE text.op # "read"
    <2>1. ParseRequest(text) = [op |-> text.op] BY <1>2 DEF ParseRequest
    <2>2. QED BY <1>2, <2>1
  <1>3. QED BY <1>1, <1>2

LEMMA ExchangeStarts == Init => Exchange
  BY DEF Init, Exchange, PartsInOrder, DaemonIsSet, CommandIsSent, StopIsCaused,
         ParsedIsOfRequest, AskedForRequest, ReplyIsToRequest, ShownIsReply

(* What is answered depends on the parts named here only.                  *)
LEMMA AnsweredStays ==
  ASSUME Answered, UNCHANGED <<request, reply, asked, daemon>>
  PROVE  Answered'
  <1>1. Schema' = Schema BY DEF Schema
  <1>2. LatestAnswers' = LatestAnswers BY <1>1 DEF LatestAnswers
  <1>3. ReadAnswers(asked)' = ReadAnswers(asked)
    <2>1. Widths(asked)' = Widths(asked) BY DEF Widths
    <2>2. QED BY <2>1 DEF ReadAnswers
  <1>4. Refused => Refused' BY DEF Refused
  <1>5. Understood(request)' <=> Understood(request) BY DEF Understood
  <1>6. AnsweredAtOnce => AnsweredAtOnce' BY <1>1, <1>2 DEF AnsweredAtOnce
  <1>7. AnsweredByStore => AnsweredByStore'
    <2>1. Unknown(Schema, Params(request).metrics)' <=> Unknown(Schema, Params(request).metrics)
      BY <1>1
    <2>2. StoreCall(Schema, Params(request))' = StoreCall(Schema, Params(request)) BY <1>1
    <2>3. Params(request)' = Params(request) OBVIOUS
    <2>4. QED BY <1>3, <2>1, <2>2, <2>3 DEF AnsweredByStore
  <1>8. Unknown(Schema, Params(request).metrics)' <=> Unknown(Schema, Params(request).metrics)
    BY <1>1
  <1>9. QED BY <1>4, <1>5, <1>6, <1>7, <1>8 DEF Answered

(* Between requests nothing is left of one.                                *)
LEMMA NothingYet ==
  ASSUME pc' \in {"down", "launched", "idle", "sent"}, parsed' = Absent, asked' = Absent,
         reply' = Absent, shown' = Absent, CommandIsSent', DaemonIsSet',
         pc' # "sent" => command' = Absent /\ request' = Absent
  PROVE  Exchange'
  BY DEF Exchange, PartsInOrder, StopIsCaused, ParsedIsOfRequest, AskedForRequest,
         ReplyIsToRequest, ShownIsReply

(* The steps of the daemon on its way up and down.                         *)
LEMMA DaemonKeepsExchange ==
  ASSUME Exchange, Launch \/ Serve \/ DaemonEnds \/ Kill
  PROVE  Exchange'
  <1>1. /\ pc \in {"down", "launched", "idle"} /\ pc' \in {"down", "launched", "idle"}
        /\ UNCHANGED <<command, request, parsed, asked, reply, shown>>
    BY DEF Launch, Serve, DaemonEnds, Kill, exchange
  <1>2. /\ command = Absent /\ request = Absent /\ parsed = Absent
        /\ asked = Absent /\ reply = Absent /\ shown = Absent
    BY <1>1 DEF Exchange, PartsInOrder
  <1>3. CommandIsSent' BY <1>1, <1>2 DEF CommandIsSent
  <1>4. DaemonIsSet'
    <2>1. CASE Launch
      <3>1. PICK args \in DaemonLines :
              /\ pc' = "launched" /\ line' = args /\ exit' = ExitCode(ParseSettings(args))
              /\ daemon' = IF exit' = Absent THEN ParseSettings(args).config ELSE Absent
        BY <2>1 DEF Launch
      <3>2. daemon' = ConfigOf(args) BY <3>1 DEF ConfigOf
      <3>3. QED BY <3>1, <3>2 DEF DaemonIsSet
    <2>2. CASE Serve BY <2>2 DEF Serve, DaemonIsSet, Exchange
    <2>3. CASE DaemonEnds \/ Kill BY <2>3 DEF DaemonEnds, Kill, DaemonIsSet
    <2>4. QED BY <2>1, <2>2, <2>3
  <1>5. QED BY <1>1, <1>2, <1>3, <1>4, NothingYet

(* The steps that send a request.                                          *)
LEMMA SendKeepsExchange ==
  ASSUME Exchange, SmqSends \/ OtherClient
  PROVE  Exchange'
  <1>1. /\ pc = "idle" /\ pc' = "sent"
        /\ UNCHANGED <<line, daemon, parsed, asked, reply, shown>>
    BY DEF SmqSends, OtherClient, Send
  <1>2. command = Absent /\ parsed = Absent /\ asked = Absent /\ reply = Absent /\ shown = Absent
    BY <1>1 DEF Exchange, PartsInOrder
  <1>3. DaemonIsSet' BY <1>1 DEF DaemonIsSet, Exchange
  <1>4. CommandIsSent'
    <2>1. CASE SmqSends
      <3>1. PICK args \in SmqLines, env \in Environments, now \in Clock :
              LET smq == ParseSmq(args) IN
              /\ "command" \in DOMAIN smq
              /\ RequestFor(smq.command, now) # NotJson
              /\ command' = [socket |-> SocketFor(smq.socket, env), json |-> smq.json,
                             command |-> smq.command, now |-> now]
              /\ request' = RequestFor(smq.command, now)
        BY <2>1 DEF SmqSends, Send
      <3>2. command'.command = ParseSmq(args).command /\ command'.now = now BY <3>1
      <3>3. /\ command'.now \in Clock /\ request' # NotJson
            /\ request' = RequestFor(command'.command, command'.now)
        BY <3>1, <3>2
      <3>4. QED BY <3>1, <3>2, <3>3 DEF CommandIsSent
    <2>2. CASE OtherClient BY <1>1, <1>2, <2>2 DEF OtherClient, Send, CommandIsSent
    <2>3. QED BY <2>1, <2>2
  <1>5. QED BY <1>1, <1>2, <1>3, <1>4, NothingYet

(* The steps of smq that send none.                                        *)
LEMMA SmqStopKeepsExchange ==
  ASSUME Exchange, SmqStops \/ SmqHasNoRequest
  PROVE  Exchange'
  <1>1. PICK args \in SmqLines, code \in {0, 2} :
          /\ pc = "idle" /\ SmqExits(args, code)
          /\ code = 2 =>
               \/ "command" \notin DOMAIN ParseSmq(args) /\ "print" \notin DOMAIN ParseSmq(args)
               \/ "command" \in DOMAIN ParseSmq(args) /\ ParseSmq(args).command.op = "raw"
    <2>1. CASE SmqStops BY <2>1 DEF SmqStops
    <2>2. CASE SmqHasNoRequest BY <2>2 DEF SmqHasNoRequest
    <2>3. QED BY <2>1, <2>2
  <1>2. /\ pc' = "done" /\ line' = args /\ exit' = code
        /\ UNCHANGED <<daemon, command, request, parsed, asked, reply, shown>>
    BY <1>1 DEF SmqExits, exchange
  <1>3. /\ command = Absent /\ request = Absent /\ parsed = Absent
        /\ asked = Absent /\ reply = Absent /\ shown = Absent
    BY <1>1 DEF Exchange, PartsInOrder
  <1>4. DaemonIsSet' BY <1>1, <1>2 DEF DaemonIsSet, Exchange
  <1>5. StopIsCaused' BY <1>1, <1>2 DEF StopIsCaused
  <1>6. CommandIsSent' BY <1>2, <1>3 DEF CommandIsSent
  <1>7. PartsInOrder' BY <1>2, <1>3 DEF PartsInOrder
  <1>8. ParsedIsOfRequest' /\ AskedForRequest' /\ ReplyIsToRequest' /\ ShownIsReply'
    BY <1>2, <1>3 DEF ParsedIsOfRequest, AskedForRequest, ReplyIsToRequest, ShownIsReply
  <1>9. QED BY <1>4, <1>5, <1>6, <1>7, <1>8 DEF Exchange

(* The steps that end an exchange.                                         *)
LEMMA EndKeepsExchange ==
  ASSUME Exchange, Finish \/ SkipBlank
  PROVE  Exchange'
  <1>1. /\ pc \in {"sent", "answered", "done"} /\ pc' = "idle" /\ daemon' = daemon
        /\ command' = Absent /\ request' = Absent /\ parsed' = Absent
        /\ asked' = Absent /\ reply' = Absent /\ shown' = Absent
    <2>1. CASE Finish BY <2>1 DEF Finish
    <2>2. CASE SkipBlank
      BY <2>2 DEF SkipBlank, Exchange, PartsInOrder
    <2>3. QED BY <2>1, <2>2
  <1>2. DaemonIsSet' BY <1>1 DEF DaemonIsSet, Exchange
  <1>3. CommandIsSent' BY <1>1 DEF CommandIsSent
  <1>4. QED BY <1>1, <1>2, <1>3, NothingYet

(* What stays as it is while the daemon, the command and the request do.   *)
LEMMA SameRequest ==
  ASSUME Exchange, UNCHANGED <<daemon, command, request>>, pc \in {"sent", "parsed", "answered"},
         pc' \in {"parsed", "answered", "done"}, pc' = "done" => exit' # 2 /\ command # Absent
  PROVE  DaemonIsSet' /\ CommandIsSent' /\ StopIsCaused'
  <1>1. DaemonIsSet' BY DEF DaemonIsSet, Exchange
  <1>2. CommandIsSent' BY DEF CommandIsSent, Exchange
  <1>3. StopIsCaused' BY DEF StopIsCaused
  <1>4. QED BY <1>1, <1>2, <1>3

LEMMA ParseKeepsExchange ==
  ASSUME Exchange, Parse
  PROVE  Exchange'
  <1>1. /\ pc = "sent" /\ request # Blank /\ parsed' = ParseRequest(request)
        /\ UNCHANGED <<daemon, command, request, asked, shown>>
        /\ IF Refusal(request) = Absent
             THEN pc' = "parsed" /\ UNCHANGED reply
             ELSE pc' = "answered" /\ reply' = Error(Refusal(request))
    BY DEF Parse
  <1>2. asked = Absent /\ reply = Absent /\ shown = Absent BY <1>1 DEF Exchange, PartsInOrder
  <1>3. DaemonIsSet' /\ CommandIsSent' /\ StopIsCaused' BY <1>1, SameRequest
  <1>4. PartsInOrder' BY <1>1, <1>2 DEF PartsInOrder
  <1>5. ParsedIsOfRequest' BY <1>1 DEF ParsedIsOfRequest, Understood
  <1>6. AskedForRequest' /\ ShownIsReply' BY <1>1, <1>2 DEF AskedForRequest, ShownIsReply
  <1>7. ReplyIsToRequest'
    <2>1. CASE Refusal(request) = Absent BY <1>1, <1>2, <2>1 DEF ReplyIsToRequest
    <2>2. CASE Refusal(request) # Absent
      <3>1. Refused' BY <1>1, <2>2 DEF Refused
      <3>2. QED BY <3>1 DEF ReplyIsToRequest, Answered
    <2>3. QED BY <2>1, <2>2
  <1>8. QED BY <1>3, <1>4, <1>5, <1>6, <1>7 DEF Exchange

LEMMA RespondKeepsExchange ==
  ASSUME Exchange, NEW answer, pc = "parsed", Respond(answer), Answered', AskedForRequest'
  PROVE  Exchange'
  <1>1. pc' = "answered" /\ UNCHANGED <<daemon, command, request, parsed, shown>>
    BY DEF Respond
  <1>2. shown = Absent BY DEF Exchange, PartsInOrder
  <1>3. DaemonIsSet' /\ CommandIsSent' /\ StopIsCaused' BY <1>1, SameRequest
  <1>4. PartsInOrder' BY <1>1, <1>2 DEF PartsInOrder
  <1>5. ParsedIsOfRequest' /\ ShownIsReply' /\ ReplyIsToRequest'
    BY <1>1, <1>2 DEF ParsedIsOfRequest, ShownIsReply, ReplyIsToRequest
  <1>6. QED BY <1>3, <1>4, <1>5 DEF Exchange

LEMMA AnswerKeepsExchange ==
  ASSUME Exchange,
         AnswerInfo \/ AnswerMetrics \/ AnswerLatest \/ AnswerUnknownMetric \/ AnswerRead
  PROVE  Exchange'
  <1>1. pc = "parsed" /\ \E answer : Respond(answer)
    BY DEF AnswerInfo, AnswerMetrics, AnswerLatest, AnswerUnknownMetric, AnswerRead
  <1>2. PICK answer : Respond(answer) BY <1>1
  <1>3. UNCHANGED <<daemon, request>> /\ reply' = answer BY <1>2 DEF Respond
  <1>4. Understood(request) /\ parsed = ParseRequest(request)
    BY <1>1 DEF Exchange, ParsedIsOfRequest
  <1>5. /\ parsed.op = request.op
        /\ request.op = "read" => parsed.params = Params(request)
    BY <1>4, ParsedIs DEF Understood
  <1>6. asked = Absent BY <1>1 DEF Exchange, PartsInOrder
  <1>7. Schema' = Schema BY <1>3 DEF Schema
  <1>8. Understood(request)' BY <1>3, <1>4 DEF Understood
  <1>9. CASE AnswerInfo \/ AnswerMetrics \/ AnswerLatest
    <2>1. AskedForRequest' 
      BY <1>6, <1>9 DEF AskedForRequest, AnswerInfo, AnswerMetrics, AnswerLatest
    <2>2. LatestAnswers' = LatestAnswers BY <1>7 DEF LatestAnswers
    <2>3. AnsweredAtOnce'
      <3>1. CASE AnswerInfo
        <4>1. PICK len \in {0, daemon.capacity} :
                Respond(InfoAnswer(daemon.interval, daemon.capacity, len, Schema))
          BY <3>1 DEF AnswerInfo
        <4>2. reply' = InfoAnswer(daemon.interval, daemon.capacity, len, Schema)
          BY <4>1 DEF Respond
        <4>3. request'.op = "info" BY <1>3, <1>5, <3>1 DEF AnswerInfo
        <4>4. QED BY <1>3, <1>7, <4>2, <4>3 DEF AnsweredAtOnce
      <3>2. CASE AnswerMetrics
        BY <1>3, <1>5, <1>7, <3>2 DEF AnswerMetrics, AnsweredAtOnce, Respond
      <3>3. CASE AnswerLatest
        <4>1. reply' \in LatestAnswers BY <3>3 DEF AnswerLatest, Respond
        <4>2. request'.op = "latest" BY <1>3, <1>5, <3>3 DEF AnswerLatest
        <4>3. QED BY <2>2, <4>1, <4>2 DEF AnsweredAtOnce
      <3>4. QED BY <1>9, <3>1, <3>2, <3>3
    <2>4. Answered' BY <1>8, <2>3 DEF Answered
    <2>5. QED BY <1>1, <1>2, <2>1, <2>4, RespondKeepsExchange
  <1>10. CASE AnswerUnknownMetric
    <2>1. AskedForRequest' BY <1>6, <1>10 DEF AskedForRequest, AnswerUnknownMetric
    <2>2. /\ request.op = "read" /\ Unknown(Schema, Params(request).metrics)
          /\ reply' = Error("unknown metric")
      BY <1>5, <1>10 DEF AnswerUnknownMetric, Respond
    <2>3. Unknown(Schema, Params(request).metrics)' BY <1>3, <1>7, <2>2
    <2>4. Answered' BY <1>3, <1>8, <2>2, <2>3 DEF Answered
    <2>5. QED BY <1>1, <1>2, <2>1, <2>4, RespondKeepsExchange
  <1>11. CASE AnswerRead
    <2>1. /\ request.op = "read" /\ ~Unknown(Schema, Params(request).metrics)
          /\ asked' = StoreCall(Schema, Params(request))
          /\ \/ reply' \in ReadAnswers(asked')
             \/ Params(request).step # Absent /\ reply' = Error("too many buckets")
      BY <1>5, <1>11 DEF AnswerRead, Respond
    <2>2. ~Unknown(Schema, Params(request).metrics)' BY <1>3, <1>7, <2>1
    <2>3. asked' = StoreCall(Schema, Params(request))' BY <1>3, <1>7, <2>1
    <2>4. AskedForRequest' BY <1>3, <1>8, <2>1, <2>2, <2>3 DEF AskedForRequest
    <2>5. ReadAnswers(asked)' = ReadAnswers(asked')
      <3>1. Widths(asked)' = Widths(asked') BY <1>3 DEF Widths
      <3>2. QED BY <3>1 DEF ReadAnswers
    <2>6. AnsweredByStore'
      BY <1>3, <2>1, <2>2, <2>3, <2>5 DEF AnsweredByStore
    <2>7. Answered' BY <1>8, <2>6 DEF Answered
    <2>8. QED BY <1>1, <1>2, <2>4, <2>7, RespondKeepsExchange
  <1>12. QED BY <1>9, <1>10, <1>11

(* The answer reaches smq, or does not.                                    *)
LEMMA ReceiveKeepsExchange ==
  ASSUME Exchange, Receive \/ SendFails
  PROVE  Exchange'
  <1>1. /\ pc \in {"sent", "parsed", "answered"} /\ pc' = "done" /\ command # Absent
        /\ UNCHANGED <<daemon, command, request, parsed, asked, reply>> /\ exit' \in {0, 1}
        /\ shown' = shown \/ pc = "answered"
    BY DEF Receive, SendFails, NoResponse, exchange
  <1>2. shown = Absent BY <1>1 DEF Exchange, PartsInOrder
  <1>3. DaemonIsSet' /\ CommandIsSent' /\ StopIsCaused' BY <1>1, SameRequest
  <1>4. PartsInOrder' /\ ParsedIsOfRequest' BY <1>1 DEF PartsInOrder, ParsedIsOfRequest
  <1>5. AskedForRequest'
    <2>1. Schema' = Schema BY <1>1 DEF Schema
    <2>2. QED BY <1>1, <2>1 DEF Exchange, AskedForRequest, Understood
  <1>6. ShownIsReply'
    <2>1. CASE Receive BY <2>1 DEF Receive, ShownIsReply
    <2>2. CASE SendFails BY <1>2, <2>2 DEF SendFails, exchange, ShownIsReply
    <2>3. QED BY <2>1, <2>2
  <1>7. ReplyIsToRequest'
    <2>1. SUFFICES ASSUME reply' # Absent \/ shown' # Absent PROVE Answered'
      BY <1>1 DEF ReplyIsToRequest
    <2>2. pc = "answered" \/ reply # Absent BY <1>1, <1>2, <2>1
    <2>3. Answered BY <2>2 DEF Exchange, ReplyIsToRequest
    <2>4. QED BY <1>1, <2>3, AnsweredStays
  <1>8. QED BY <1>3, <1>4, <1>5, <1>6, <1>7 DEF Exchange

LEMMA StutterKeepsExchange ==
  ASSUME Exchange, UNCHANGED vars
  PROVE  Exchange'
  <1>1. UNCHANGED <<pc, line, daemon, command, request, parsed, asked, reply, shown, exit>>
    BY DEF vars, exchange
  <1>2. PartsInOrder' /\ DaemonIsSet' /\ CommandIsSent' /\ StopIsCaused' /\ ShownIsReply'
    BY <1>1 DEF Exchange, PartsInOrder, DaemonIsSet, CommandIsSent, StopIsCaused, ShownIsReply
  <1>3. ParsedIsOfRequest' BY <1>1 DEF Exchange, ParsedIsOfRequest, Understood
  <1>4. AskedForRequest'
    <2>1. Schema' = Schema BY <1>1 DEF Schema
    <2>2. QED BY <1>1, <2>1 DEF Exchange, AskedForRequest, Understood
  <1>5. ReplyIsToRequest'
    <2>1. pc' = "answered" \/ reply' # Absent \/ shown' # Absent => Answered
      BY <1>1 DEF Exchange, ReplyIsToRequest
    <2>2. QED BY <1>1, <2>1, AnsweredStays DEF ReplyIsToRequest
  <1>6. QED BY <1>2, <1>3, <1>4, <1>5 DEF Exchange

LEMMA AlwaysExchange == Spec => []Exchange
  <1>1. ASSUME Exchange, [Next]_vars PROVE Exchange'
    <2>1. CASE Launch \/ Serve \/ DaemonEnds \/ Kill BY <1>1, <2>1, DaemonKeepsExchange
    <2>2. CASE SmqSends \/ OtherClient BY <1>1, <2>2, SendKeepsExchange
    <2>3. CASE SmqStops \/ SmqHasNoRequest BY <1>1, <2>3, SmqStopKeepsExchange
    <2>4. CASE Finish \/ SkipBlank BY <1>1, <2>4, EndKeepsExchange
    <2>5. CASE Parse BY <1>1, <2>5, ParseKeepsExchange
    <2>6. CASE AnswerInfo \/ AnswerMetrics \/ AnswerLatest \/ AnswerUnknownMetric \/ AnswerRead
      BY <1>1, <2>6, AnswerKeepsExchange
    <2>7. CASE Receive \/ SendFails BY <1>1, <2>7, ReceiveKeepsExchange
    <2>8. CASE UNCHANGED vars BY <1>1, <2>8, StutterKeepsExchange
    <2>9. QED BY <1>1, <2>1, <2>2, <2>3, <2>4, <2>5, <2>6, <2>7, <2>8 DEF Next
  <1>2. QED BY <1>1, ExchangeStarts, PTL DEF Spec

-----------------------------------------------------------------------------
(* The date that is printed.                                               *)

LEMMA CivilIsRight ==
  ASSUME NEW days \in Nat
  PROVE  IsDay(Civil(days), days)
  <1> DEFINE date == Civil(days)
             z == days + 719468
             era == z \div 146097
             n == z % 146097
  <1>1. era \in Nat /\ era > 0 /\ n \in Nat /\ n <= 146096 /\ z = 146097 * era + n BY SMT
  <1>2. PICK c, q, r, d : Placed(n, c, q, r, d)
    <2>1. n \in Nat /\ n <= 146096 BY <1>1, SMT
    <2> HIDE DEF n
    <2>2. QED BY <2>1, Decompose, SMT
  <1>3. date = DateOf(era, YearOf(n), DayOf(n)) BY CivilUnfolds, SMT
  <1> HIDE DEF n, era
  <1> DEFINE y == 100 * c + 4 * q + r
  <1>4. /\ n = 36524 * c + 1461 * q + 365 * r + d
        /\ InEra(c, q, r, d)
    BY <1>2, SMT DEF Placed
  <1>5. YearOf(n) = y
    <2>1. YearOf(36524 * c + 1461 * q + 365 * r + d) = y BY <1>4, YearIs, SMT
    <2>2. QED BY <1>4, <2>1, SMT
  <1>6. 365 * y + y \div 4 - y \div 100 = 36524 * c + 1461 * q + 365 * r
    BY <1>4, YearBegins, SMT
  <1>7. y \in Nat BY <1>4, YearBegins, SMT
  <1>8. DayOf(n) = d
    <2>1. DayOf(n) = n - (365 * y + y \div 4 - y \div 100) BY <1>5, SMT DEF DayOf
    <2> DEFINE y4 == y \div 4
               y100 == y \div 100
    <2>2. y4 \in Int /\ y100 \in Int BY <1>7, SMT
    <2> HIDE DEF y, y4, y100
    <2>3. d \in Nat /\ c \in Nat /\ q \in Nat /\ r \in Nat BY <1>4, SMT DEF InEra
    <2>4. n - (365 * y + y4 - y100) = d BY <1>4, <1>6, <1>7, <2>2, <2>3, SMT DEF y4, y100
    <2>5. QED BY <2>1, <2>4, SMT DEF y4, y100
  <1>9. date = DateOf(era, y, d) BY <1>3, <1>5, <1>8
  <1>10. days = 146097 * era + (36524 * c + 1461 * q + 365 * r + d) - 719468
    <2>1. d \in Nat /\ c \in Nat /\ q \in Nat /\ r \in Nat BY <1>4, SMT DEF InEra
    <2>2. QED BY <1>1, <1>4, <2>1, SMT
  <1> HIDE DEF y, z, date
  <1>11. /\ date.month \in 1 .. 12
         /\ date.day \in 1 .. MonthLengths(date.year)[date.month]
         /\ 146097 * era + (36524 * c + 1461 * q + 365 * r + d) - 719468
              = 365 * (date.year - 1970)
                + ((date.year - 1) \div 4 - (date.year - 1) \div 100 + (date.year - 1) \div 400 - 477)
                + DaysBefore(date.year, date.month) + date.day - 1
    <2>1. era \in Nat /\ era > 0 /\ y = 100 * c + 4 * q + r BY <1>1, SMT DEF y
    <2>2. QED BY <1>4, <1>9, <2>1, DateIsRight, SMT
  <1>12. IsDay(date, days) BY <1>10, <1>11, SMT DEF IsDay
  <1>13. QED BY <1>12 DEF date

(* What comes from the store is one of two kinds of answer.                *)
LEMMA ReadAnswersAre ==
  \A answer \in ReadAnswers(asked) :
    \/ \E names, snapshot : answer = RawAnswer(names, snapshot)
    \/ \E names, result : answer = DownsampledAnswer(names, result)
  <1> DEFINE raw == asked.step = Absent /\ asked.points = Absent
             times(rows) == [k \in 1 .. rows |-> RowTime(k)]
             snapshot(rows) == [timestamps |-> times(rows),
                                columns |-> Found(asked.columns, rows, "value")]
             result(step, rows) ==
               Merged([step |-> step, timestamps |-> times(rows),
                       avg |-> Found(asked.columns, rows, "avg")],
                      IF asked.extremes
                        THEN [min |-> Found(asked.columns, rows, "min"),
                              max |-> Found(asked.columns, rows, "max")]
                        ELSE << >>)
             found == {RawAnswer(asked.names, snapshot(rows)) : rows \in 0 .. MaxRows}
             grouped == {DownsampledAnswer(asked.names, result(step, rows)) :
                           step \in Widths(asked), rows \in 0 .. MaxRows}
  <1>1. ReadAnswers(asked) = IF raw THEN found ELSE grouped BY DEF ReadAnswers
  <1> HIDE DEF snapshot, result, raw
  <1>2. \A answer \in found : \E names, some : answer = RawAnswer(names, some) OBVIOUS
  <1>3. \A answer \in grouped : \E names, some : answer = DownsampledAnswer(names, some) OBVIOUS
  <1> HIDE DEF found, grouped
  <1>4. QED BY <1>1, <1>2, <1>3

(* Only the table of `latest` has such a time.                             *)
LEMMA RepliesHaveNoDate ==
  ASSUME Answered
  PROVE  "at" \notin DOMAIN reply
  <1>1. ASSUME NEW why PROVE "at" \notin DOMAIN Error(why) BY DEF Error
  <1>2. ASSUME AnsweredAtOnce PROVE "at" \notin DOMAIN reply
    <2>1. ASSUME NEW len
          PROVE  "at" \notin DOMAIN InfoAnswer(daemon.interval, daemon.capacity, len, Schema)
      BY DEF InfoAnswer
    <2>2. "at" \notin DOMAIN MetricsAnswer(Schema) BY DEF MetricsAnswer
    <2>3. ASSUME NEW latest PROVE "at" \notin DOMAIN LatestAnswer(Schema, latest)
      <3>1. CASE latest = << >> BY <3>1 DEF LatestAnswer
      <3>2. CASE latest # << >> BY <3>2 DEF LatestAnswer
      <3>3. QED BY <3>1, <3>2
    <2>4. QED BY <1>2, <2>1, <2>2, <2>3 DEF AnsweredAtOnce, LatestAnswers
  <1>3. ASSUME reply \in ReadAnswers(asked) PROVE "at" \notin DOMAIN reply
    <2>1. ASSUME NEW names, NEW snapshot PROVE "at" \notin DOMAIN RawAnswer(names, snapshot)
      BY DEF RawAnswer
    <2>2. ASSUME NEW names, NEW result PROVE "at" \notin DOMAIN DownsampledAnswer(names, result)
      <3> DEFINE some == [ok |-> TRUE, step_ms |-> result.step, timestamps |-> result.timestamps,
                          series |-> Series(names, result.avg)]
                 more == IF "min" \in DOMAIN result
                           THEN [min |-> Series(names, result.min), max |-> Series(names, result.max)]
                           ELSE << >>
      <3>1. "at" \notin DOMAIN some /\ "at" \notin DOMAIN more OBVIOUS
      <3> HIDE DEF some, more
      <3>2. "at" \notin DOMAIN Merged(some, more) BY <3>1 DEF Merged
      <3>3. QED BY <3>2 DEF DownsampledAnswer, some, more
    <2>3. (\E names, snapshot : reply = RawAnswer(names, snapshot))
          \/ \E names, result : reply = DownsampledAnswer(names, result)
      BY <1>3, ReadAnswersAre
    <2>4. QED BY <2>1, <2>2, <2>3
  <1>4. QED BY <1>1, <1>2, <1>3 DEF Answered, Refused, AnsweredByStore

LEMMA DateIsOfLatest ==
  ASSUME NEW op, NEW answer, "at" \notin DOMAIN answer, "at" \in DOMAIN Render(op, answer)
  PROVE  /\ op = "latest" /\ answer.timestamp # Null
         /\ Render(op, answer).at = Iso(answer.timestamp)
  <1>1. CASE op = "info" BY <1>1 DEF Render, RenderInfo
  <1>2. CASE op = "metrics" BY <1>2 DEF Render, RenderMetrics
  <1>3. CASE op = "latest"
    <2>1. Render(op, answer) = RenderLatest(answer) BY <1>3 DEF Render
    <2>2. answer.timestamp # Null BY <2>1 DEF RenderLatest
    <2>3. RenderLatest(answer).at = Iso(answer.timestamp) BY <2>2 DEF RenderLatest
    <2>4. QED BY <1>3, <2>1, <2>2, <2>3
  <1>4. CASE op = "read"
    <2>1. DOMAIN RenderRead(answer) = {"times", "columns"} BY DEF RenderRead
    <2>2. QED BY <1>4, <2>1 DEF Render
  <1>5. CASE op \notin {"info", "metrics", "latest", "read"} BY <1>5 DEF Render
  <1>6. QED BY <1>1, <1>2, <1>3, <1>4, <1>5

(* What the daemon answers when it is asked for the newest record.         *)
LEMMA LatestIsOfInstant ==
  ASSUME Answered, request.op = "latest", reply.ok, reply.timestamp # Null
  PROVE  reply.timestamp \in Instants
  <1>1. ASSUME NEW why PROVE ~Error(why).ok BY DEF Error
  <1>2. reply \in LatestAnswers
    BY <1>1 DEF Answered, Refused, AnsweredAtOnce, AnsweredByStore
  <1>3. LatestAnswer(Schema, << >>).timestamp = Null BY DEF LatestAnswer
  <1>4. ASSUME NEW at, NEW row PROVE LatestAnswer(Schema, <<at, row>>).timestamp = at
    <2>1. <<at, row>> # << >> /\ <<at, row>>[1] = at OBVIOUS
    <2>2. QED BY <2>1 DEF LatestAnswer
  <1> DEFINE row == [i \in DOMAIN Schema |-> Measured(i - 1, 1, "value")]
  <1>5. LatestAnswers =
          {LatestAnswer(Schema, << >>)} \cup {LatestAnswer(Schema, <<at, row>>) : at \in Instants}
    BY DEF LatestAnswers
  <1> HIDE DEF row
  <1>6. reply # LatestAnswer(Schema, << >>) BY <1>3
  <1>7. PICK at \in Instants : reply = LatestAnswer(Schema, <<at, row>>) BY <1>2, <1>5, <1>6
  <1>8. QED BY <1>4, <1>7

LEMMA DateShown == Exchange => DatesAreRight
  <1> SUFFICES ASSUME Exchange, shown # Absent, "at" \in DOMAIN shown
      PROVE IsDay(shown.at.date, reply.timestamp.days)
    BY DEF DatesAreRight
  <1>1. /\ command # Absent
        /\ shown = IF command.json THEN reply
                   ELSE IF reply.ok THEN Render(command.command.op, reply) ELSE Absent
    BY DEF Exchange, ShownIsReply
  <1>2. Answered BY DEF Exchange, ReplyIsToRequest
  <1>3. "at" \notin DOMAIN reply BY <1>2, RepliesHaveNoDate
  <1>4. reply.ok /\ shown = Render(command.command.op, reply) BY <1>1, <1>3
  <1>5. /\ command.command.op = "latest" /\ reply.timestamp # Null
        /\ shown.at = Iso(reply.timestamp)
    BY <1>3, <1>4, DateIsOfLatest
  <1>6. request.op = "latest"
    <2>1. request = RequestFor(command.command, command.now)
      BY <1>1 DEF Exchange, CommandIsSent
    <2>2. request = Object("latest") BY <1>5, <2>1 DEF RequestFor
    <2>3. QED BY <2>2 DEF Object
  <1>7. reply.timestamp \in Instants BY <1>2, <1>4, <1>5, <1>6, LatestIsOfInstant
  <1>8. reply.timestamp.days \in Nat BY <1>7, InstantsAssumption
  <1>9. shown.at.date = Civil(reply.timestamp.days) BY <1>5 DEF Iso
  <1>10. QED BY <1>8, <1>9, CivilIsRight

(* The date printed for the newest record is that of its day, for every day*)
(* since the epoch: civil_from_days of query.rs.                           *)
THEOREM DatesPrintedAreRight == Spec => []DatesAreRight
  BY AlwaysExchange, DateShown, PTL

-----------------------------------------------------------------------------
(* The command line of the daemon.                                         *)

ValuesOf(words) == {Defaults[option] : option \in Options} \cup Nat \cup words \cup Seq(words)

(* What the settings may be, after words that are no more than these.      *)
SettingsOf(words) ==
  {settings \in [Options -> ValuesOf(words)] :
     /\ settings["--interval"] \in Nat \ {0} /\ settings["--retention"] \in Nat \ {0}
     /\ settings["--flush-interval"] \in Nat \ {0}
     /\ settings["--interface"] \in Seq(words) /\ IsInjective(settings["--interface"])}

SettingWants == {Absent} \cup Options

SettingEnds ==
  {Absent, [print |-> "help"], [print |-> "version"], [error |-> "unknown argument"]}
  \cup [error : Problems]

SettingStates(words) ==
  [settings : SettingsOf(words), wants : SettingWants, result : SettingEnds]

SettingStart == [settings |-> Defaults, wants |-> Absent, result |-> Absent]

LEMMA OptionsAre ==
  /\ {"--interval", "--retention", "--flush-interval", "--interface", "--socket-mode"} \subseteq Options
  /\ Options = {"--interval", "--retention", "--flush-interval", "--interface", "--socket-mode",
                "--socket", "--state-dir", "--root"}
  BY DEF Options, Times

LEMMA DefaultsAre ==
  /\ DOMAIN Defaults = Options
  /\ Defaults["--interval"] \in Nat \ {0} /\ Defaults["--retention"] \in Nat \ {0}
  /\ Defaults["--flush-interval"] \in Nat \ {0} /\ Defaults["--interface"] = << >>
  <1> DEFINE week == 168 * MillisPer["h"]
  <1>1. week \in Nat \ {0}
    <2>1. MillisPer["h"] \in Nat \ {0} BY MillisPerIs DEF Units
    <2>2. QED BY <2>1, ProductIs, SMT
  <1>2. /\ Defaults["--interval"] = 5000 /\ Defaults["--retention"] = week
        /\ Defaults["--flush-interval"] = 60000 /\ Defaults["--interface"] = << >>
    BY SMT, OptionsAre DEF Defaults
  <1> HIDE DEF week
  <1>3. DOMAIN Defaults = Options BY DEF Defaults
  <1>4. QED BY <1>1, <1>2, <1>3, SMT

LEMMA SettingStartIs ==
  ASSUME NEW words
  PROVE  SettingStart \in SettingStates(words)
  <1>1. Defaults = [option \in Options |-> Defaults[option]] BY SMT DEF Defaults
  <1>2. Defaults \in [Options -> ValuesOf(words)] BY <1>1 DEF ValuesOf
  <1>3. << >> \in Seq(words) /\ IsInjective(<< >>) BY DEF IsInjective
  <1>4. Defaults \in SettingsOf(words) BY <1>2, <1>3, DefaultsAre DEF SettingsOf
  <1>5. Absent \in SettingWants /\ Absent \in SettingEnds BY DEF SettingWants, SettingEnds
  <1>6. QED BY <1>4, <1>5 DEF SettingStart, SettingStates

(* A value that an option does not take is refused.                        *)
LEMMA ValueIs ==
  ASSUME NEW words, NEW settings \in SettingsOf(words), NEW option \in Options, NEW text \in words
  PROVE  /\ ValueProblem(settings, option, text) \in {Absent} \cup Problems
         /\ ValueProblem(settings, option, text) = Absent =>
              [settings EXCEPT ![option] = ValueOf(settings, option, text)] \in SettingsOf(words)
  <1> DEFINE value == ValueOf(settings, option, text)
             values == ValuesOf(words)
             given == [settings EXCEPT ![option] = value]
  <1>1. ValueProblem(settings, option, text) \in {Absent} \cup Problems
    <2>1. DurationProblem(text) \in {Absent} \cup Problems BY DurationIs
    <2>2. {"no permission bits", "no usable name", "given more than once"} \subseteq Problems
      BY DEF Problems
    <2>3. QED BY <2>1, <2>2 DEF ValueProblem, Times
  <1>2. ASSUME ValueProblem(settings, option, text) = Absent PROVE given \in SettingsOf(words)
    <2>1. /\ settings \in [Options -> values]
          /\ settings["--interval"] \in Nat \ {0} /\ settings["--retention"] \in Nat \ {0}
          /\ settings["--flush-interval"] \in Nat \ {0}
          /\ settings["--interface"] \in Seq(words) /\ IsInjective(settings["--interface"])
      BY DEF SettingsOf
    <2>2. option \in Times => value \in Nat \ {0}
      <3>1. SUFFICES ASSUME option \in Times PROVE Millis(text) \in Nat \ {0}
        BY DEF ValueOf, Times
      <3>2. DurationProblem(text) = Absent BY <1>2, <3>1 DEF ValueProblem, Times
      <3>3. QED BY <3>2, DurationIs
    <2>3. option = "--socket-mode" => value \in Nat
      <3>1. SUFFICES ASSUME option = "--socket-mode" PROVE Look(text).octal \in Nat
        BY DEF ValueOf, Times
      <3>2. "no permission bits" # Absent BY AbsentAssumption DEF Problems
      <3>3. Look(text).octal \in 0 .. 511 BY <1>2, <3>1, <3>2 DEF ValueProblem, Times
      <3>4. QED BY <3>3
    <2>4. option = "--interface" => value \in Seq(words) /\ IsInjective(value)
      <3> DEFINE list == settings["--interface"]
      <3>1. SUFFICES ASSUME option = "--interface"
            PROVE  Append(list, text) \in Seq(words) /\ IsInjective(Append(list, text))
        BY DEF ValueOf, Times
      <3>2. {"no usable name", "given more than once"} \cap {Absent} = {}
        BY AbsentAssumption DEF Problems
      <3>3. ~Contains(list, text) BY <1>2, <3>1, <3>2 DEF ValueProblem, Times
      <3>4. list \in Seq(words) /\ IsInjective(list) BY <2>1
      <3> HIDE DEF list
      <3>5. QED BY <3>3, <3>4 DEF IsInjective, Contains
    <2>5. option \notin Times \cup {"--socket-mode", "--interface"} => value = text
      BY DEF ValueOf
    <2>6. value \in values BY <2>2, <2>3, <2>4, <2>5 DEF ValuesOf
    <2> HIDE DEF value, values
    <2>7. given \in [Options -> values] BY <2>1, <2>6
    <2>8. given[option] = value /\ \A name \in Options \ {option} : given[name] = settings[name]
      BY <2>1
    <2> HIDE DEF given
    <2>9. /\ given["--interval"] \in Nat \ {0} /\ given["--retention"] \in Nat \ {0}
          /\ given["--flush-interval"] \in Nat \ {0}
          /\ given["--interface"] \in Seq(words) /\ IsInjective(given["--interface"])
      <3>1. /\ "--interval" \in Options /\ "--retention" \in Options
            /\ "--flush-interval" \in Options /\ "--interface" \in Options
        BY OptionsAre
      <3>2. QED BY <2>1, <2>2, <2>4, <2>8, <3>1 DEF Times
    <2>10. QED BY <2>7, <2>9 DEF SettingsOf, values
  <1>3. QED BY <1>1, <1>2

LEMMA SetOptionIs ==
  ASSUME NEW words, NEW state \in SettingStates(words), NEW option \in Options, NEW text \in words
  PROVE  SetOption(state, option, text) \in SettingStates(words)
  <1> DEFINE problem == ValueProblem(state.settings, option, text)
             given == [state.settings EXCEPT ![option] = ValueOf(state.settings, option, text)]
  <1>1. SettingStates(words) =
          [settings : SettingsOf(words), wants : SettingWants, result : SettingEnds]
    BY DEF SettingStates
  <1>2. state.settings \in SettingsOf(words) BY <1>1
  <1>3. problem \in {Absent} \cup Problems /\ (problem = Absent => given \in SettingsOf(words))
    BY <1>2, ValueIs
  <1>4. problem # Absent => [error |-> problem] \in SettingEnds BY <1>3 DEF SettingEnds
  <1>5. SetOption(state, option, text) =
          IF problem # Absent THEN [state EXCEPT !.result = [error |-> problem]]
          ELSE [state EXCEPT !.settings = given]
    <2>1. [state EXCEPT !.settings[option] = ValueOf(state.settings, option, text)]
            = [state EXCEPT !.settings = given]
      OBVIOUS
    <2>2. QED BY <2>1 DEF SetOption
  <1> HIDE DEF problem, given
  <1>6. QED BY <1>1, <1>3, <1>4, <1>5

LEMMA OtherArgumentIs ==
  ASSUME NEW words, NEW state \in SettingStates(words), NEW arg
  PROVE  /\ OtherArgument(state, arg) \in SettingStates(words)
         /\ OtherArgument(state, arg).result # Absent
  <1> DEFINE end == CASE arg.flag \in {"-h", "--help"} -> [print |-> "help"]
                      [] arg.flag \in {"-V", "--version"} -> [print |-> "version"]
                      [] OTHER -> [error |-> "unknown argument"]
  <1>1. end \in {[print |-> "help"], [print |-> "version"], [error |-> "unknown argument"]}
    OBVIOUS
  <1>2. OtherArgument(state, arg) = [state EXCEPT !.result = end] BY DEF OtherArgument
  <1>3. Absent \notin {[print |-> "help"], [print |-> "version"], [error |-> "unknown argument"]}
    <2>1. /\ [print |-> "help"] \in Endings /\ [print |-> "version"] \in Endings
          /\ [error |-> "unknown argument"] \in Endings
      BY DEF Endings
    <2>2. QED BY <2>1, AbsentAssumption
  <1> HIDE DEF end
  <1>4. end \in SettingEnds BY <1>1 DEF SettingEnds
  <1>5. QED BY <1>1, <1>2, <1>3, <1>4 DEF SettingStates

LEMMA ReadArgumentIs ==
  ASSUME NEW X, \A arg \in X : arg.text # Absent,
         NEW state \in SettingStates(WordsOf(X)), NEW arg \in X
  PROVE  ReadArgument(state, arg) \in SettingStates(WordsOf(X))
  <1> DEFINE words == WordsOf(X)
  <1>1. SettingStates(words) =
          [settings : SettingsOf(words), wants : SettingWants, result : SettingEnds]
    BY DEF SettingStates
  <1>2. arg.text \in words /\ (arg.inline # Absent => arg.inline \in words) BY DEF WordsOf
  <1> HIDE DEF words
  <1>3. state \in SettingStates(words) BY DEF words
  <1>4. Absent \in SettingWants /\ (arg.flag \in Options => arg.flag \in SettingWants)
    BY DEF SettingWants
  <1>5. CASE state.result # Absent BY <1>3, <1>5 DEF ReadArgument, words
  <1>6. CASE state.result = Absent /\ state.wants # Absent
    <2> DEFINE none == Absent
    <2>1. none \in SettingWants BY <1>4
    <2> HIDE DEF none
    <2>2. [state EXCEPT !.wants = none] \in SettingStates(words) BY <1>1, <1>3, <2>1
    <2> USE DEF none
    <2>3. state.wants \in Options BY <1>1, <1>3, <1>6 DEF SettingWants
    <2>4. SetOption([state EXCEPT !.wants = Absent], state.wants, arg.text) \in SettingStates(words)
      BY <1>2, <2>2, <2>3, SetOptionIs
    <2>5. QED BY <1>6, <2>4 DEF ReadArgument, words
  <1>7. CASE state.result = Absent /\ state.wants = Absent /\ arg.flag \notin Options
    BY <1>3, <1>7, OtherArgumentIs DEF ReadArgument, words
  <1>8. CASE /\ state.result = Absent /\ state.wants = Absent /\ arg.flag \in Options
             /\ arg.inline # Absent
    <2>1. SetOption(state, arg.flag, arg.inline) \in SettingStates(words)
      BY <1>2, <1>3, <1>8, SetOptionIs
    <2>2. QED BY <1>8, <2>1 DEF ReadArgument, words
  <1>9. CASE /\ state.result = Absent /\ state.wants = Absent /\ arg.flag \in Options
             /\ arg.inline = Absent
    <2>1. [state EXCEPT !.wants = arg.flag] \in SettingStates(words) BY <1>1, <1>3, <1>4, <1>9
    <2>2. QED BY <1>9, <2>1 DEF ReadArgument, words
  <1>10. QED BY <1>5, <1>6, <1>7, <1>8, <1>9

-----------------------------------------------------------------------------
(* The command line is taken argument by argument.                         *)
LEMMA SettingStages ==
  ASSUME NEW X, \A arg \in X : arg.text # Absent, NEW args \in Seq(X)
  PROVE  \E t \in [0 .. Len(args) -> SettingStates(WordsOf(X))] :
           /\ t[0] = SettingStart /\ t[Len(args)] = FoldLeft(ReadArgument, SettingStart, args)
           /\ \A k \in 1 .. Len(args) : t[k] = ReadArgument(t[k - 1], args[k])
  <1> DEFINE S == SettingStates(WordsOf(X))
             n == Len(args)
             Is(it) == it = [T \in SUBSET (1 .. n) |->
                              IF T = {} THEN SettingStart
                              ELSE ReadArgument(it[T \ {Max(T)}], args[Max(T)])]
             fold == CHOOSE it : Is(it)
             t == [k \in 0 .. n |-> fold[1 .. k]]
  <1>1. n \in Nat /\ DOMAIN args = 1 .. n /\ \A k \in 1 .. n : args[k] \in X OBVIOUS
  <1>2. FoldLeft(ReadArgument, SettingStart, args) = fold[1 .. n]
    BY <1>1 DEF FoldLeft, MapThenFoldSet
  <1> HIDE DEF n
  <1>3. \E it : Is(it)
    <2> DEFINE g == [pair \in S \X X |-> ReadArgument(pair[1], pair[2])]
    <2>1. g \in [S \X X -> S] BY ReadArgumentIs
    <2>2. \A a \in S, b \in X : g[<<a, b>>] = ReadArgument(a, b) OBVIOUS
    <2> HIDE DEF g, S
    <2>3. PICK it \in [SUBSET (1 .. n) -> S] : FoldEquation(it, n, args, SettingStart, g)
      <3>1. SettingStart \in S BY SettingStartIs DEF S
      <3>2. QED BY <1>1, <2>1, <3>1, FoldExists
    <2>4. ASSUME NEW T \in SUBSET (1 .. n), T # {}
          PROVE  ReadArgument(it[T \ {Max(T)}], args[Max(T)])
                   = g[<<it[T \ {Max(T)}], args[Max(T)]>>]
      <3>1. Max(T) \in 1 .. n BY <1>1, <2>4, MaxUpTo
      <3>2. it[T \ {Max(T)}] \in S /\ args[Max(T)] \in X BY <1>1, <2>3, <3>1
      <3>3. QED BY <2>2, <3>2
    <2>5. Is(it) BY <2>3, <2>4 DEF FoldEquation
    <2>6. QED BY <2>5
  <1>4. Is(fold) BY <1>3
  <1> HIDE DEF fold
  <1>5. t[0] = SettingStart
    <2>1. 1 .. 0 = {} /\ {} \in SUBSET (1 .. n) /\ 0 \in 0 .. n BY <1>1
    <2>2. QED BY <1>4, <2>1
  <1>6. ASSUME NEW k \in 1 .. n PROVE t[k] = ReadArgument(t[k - 1], args[k])
    <2>1. /\ 1 .. k \in SUBSET (1 .. n) /\ 1 .. k # {}
          /\ Max(1 .. k) = k /\ (1 .. k) \ {Max(1 .. k)} = 1 .. k - 1
      BY <1>1, FirstItems
    <2>2. fold[1 .. k] = ReadArgument(fold[1 .. k - 1], args[k]) BY <1>4, <2>1
    <2>3. k \in 0 .. n /\ k - 1 \in 0 .. n BY <1>1
    <2>4. QED BY <2>2, <2>3
  <1>7. t[n] = FoldLeft(ReadArgument, SettingStart, args)
    <2>1. n \in 0 .. n BY <1>1
    <2>2. QED BY <1>2, <2>1
  <1>8. t = [k \in 0 .. n |-> t[k]] OBVIOUS
  <1> HIDE DEF t
  <1> DEFINE Good == {k \in 0 .. n : t[k] \in S}
  <1>9. 0 \in Good BY <1>1, <1>5, SettingStartIs
  <1>10. \A k \in 1 .. n : k - 1 \in Good => k \in Good BY <1>1, <1>6, ReadArgumentIs
  <1> HIDE DEF Good, S
  <1>11. \A k \in 0 .. n : k \in Good BY <1>1, <1>9, <1>10, InductionUpTo
  <1>12. t \in [0 .. n -> S] BY <1>8, <1>11 DEF Good
  <1>13. QED BY <1>5, <1>6, <1>7, <1>12 DEF S, n

(* The config that comes of it.                                            *)
DaemonWords == WordsOf(ArgumentsOf(DaemonLines))

LEMMA DaemonLineIs ==
  ASSUME NEW args \in DaemonLines
  PROVE  /\ args \in Seq(ArgumentsOf(DaemonLines))
         /\ \A arg \in ArgumentsOf(DaemonLines) : arg.text # Absent
  <1>1. args \in Seq(ToSet(args)) BY LinesAssumption
  <1>2. ToSet(args) \subseteq ArgumentsOf(DaemonLines) BY DEF ArgumentsOf
  <1> DEFINE X == ArgumentsOf(DaemonLines)
             Y == ToSet(args)
  <1> HIDE DEF X, Y
  <1>3. args \in Seq(X) BY <1>1, <1>2 DEF X, Y
  <1>4. QED BY <1>3, LinesAssumption DEF X

LEMMA ConfigMade ==
  ASSUME NEW args \in DaemonLines, ConfigOf(args) # Absent
  PROVE  LET last == FoldLeft(ReadArgument, SettingStart, args) IN
         /\ Ended(last) = Absent /\ last.settings \in SettingsOf(DaemonWords)
         /\ "config" \in DOMAIN Finished(last.settings)
         /\ ParseSettings(args) = Finished(last.settings)
         /\ ConfigOf(args) = Finished(last.settings).config
  <1> DEFINE X == ArgumentsOf(DaemonLines)
             last == FoldLeft(ReadArgument, SettingStart, args)
             made == ParseSettings(args)
  <1>1. last \in SettingStates(WordsOf(X))
    <2>1. args \in Seq(X) /\ \A arg \in X : arg.text # Absent BY DaemonLineIs
    <2> HIDE DEF X
    <2>2. PICK t \in [0 .. Len(args) -> SettingStates(WordsOf(X))] : t[Len(args)] = last
      BY <2>1, SettingStages
    <2>3. Len(args) \in 0 .. Len(args) BY <2>1
    <2>4. QED BY <2>2, <2>3
  <1>2. made = IF Ended(last) # Absent THEN Ended(last) ELSE Finished(last.settings)
    BY DEF ParseSettings, SettingStart
  <1> HIDE DEF last, made
  <1>3. "config" \in DOMAIN made /\ ConfigOf(args) = made.config
    <2>1. ExitCode(made) = Absent /\ ConfigOf(args) = made.config BY DEF ConfigOf, made
    <2>2. 0 # Absent /\ 2 # Absent BY AbsentAssumption
    <2>3. QED BY <2>1, <2>2 DEF ExitCode
  <1>4. last.settings \in SettingsOf(DaemonWords) /\ last.result \in SettingEnds
    BY <1>1 DEF SettingStates, DaemonWords
  <1>5. Ended(last) = Absent
    <2>1. SUFFICES ASSUME Ended(last) # Absent PROVE FALSE OBVIOUS
    <2> DEFINE end == Ended(last)
    <2>2. \/ end \in {[print |-> "help"], [print |-> "version"], [error |-> "unknown argument"],
                     [error |-> "missing value"]}
          \/ end \in [error : Problems]
      BY <1>4, <2>1 DEF Ended, SettingEnds
    <2>3. "config" \in DOMAIN end BY <1>2, <1>3, <2>1
    <2> HIDE DEF end
    <2>4. DOMAIN end = {"print"} \/ DOMAIN end = {"error"} BY <2>2
    <2>5. QED BY <2>3, <2>4
  <1>6. QED BY <1>2, <1>3, <1>4, <1>5 DEF made, last

LEMMA ConfigIs ==
  ASSUME NEW args \in DaemonLines, ConfigOf(args) # Absent
  PROVE  \E settings \in SettingsOf(DaemonWords) :
           /\ "config" \in DOMAIN Finished(settings)
           /\ ParseSettings(args) = Finished(settings)
           /\ ConfigOf(args) = Finished(settings).config
  BY ConfigMade

(* The interfaces and the numbers in it.                                   *)
GoodConfig(config) ==
  /\ config.interfaces \in Seq(DaemonWords \cup ToSet(DefaultInterfaces))
  /\ IsInjective(config.interfaces)
  /\ config.interval \in Nat \ {0} /\ config.flush_interval \in Nat \ {0}
  /\ config.retention \in Nat \ {0}
  /\ config.capacity = B!AtLeast(B!DivCeil(config.retention, config.interval), 1)
  /\ config.capacity <= MaxStoreBytes \div BytesFor(WidthFor(Len(config.interfaces)))

LEMMA FinishedIs ==
  ASSUME NEW settings \in SettingsOf(DaemonWords), "config" \in DOMAIN Finished(settings)
  PROVE  GoodConfig(Finished(settings).config)
  <1> DEFINE given == settings["--interface"]
             interfaces == IF given = << >> THEN DefaultInterfaces ELSE given
             interval == settings["--interval"]
             retention == settings["--retention"]
             most == B!AtLeast(B!DivCeil(retention, interval), 1)
             capacity == CapacityFor(retention, interval, Len(interfaces))
             limit == MaxStoreBytes \div BytesFor(WidthFor(Len(interfaces)))
             names == DaemonWords \cup ToSet(DefaultInterfaces)
             config == [socket |-> settings["--socket"], socket_mode |-> settings["--socket-mode"],
                        interval |-> interval, retention |-> retention, capacity |-> capacity,
                        state_dir |-> settings["--state-dir"],
                        flush_interval |-> settings["--flush-interval"],
                        interfaces |-> interfaces, root |-> settings["--root"]]
  <1>1. /\ interval \in Nat \ {0} /\ retention \in Nat \ {0}
        /\ settings["--flush-interval"] \in Nat \ {0}
        /\ given \in Seq(DaemonWords) /\ IsInjective(given)
    BY DEF SettingsOf
  <1>2. interfaces \in Seq(names) /\ IsInjective(interfaces)
    <2>1. DefaultInterfaces \in Seq(ToSet(DefaultInterfaces)) /\ IsInjective(DefaultInterfaces)
      BY DEF DefaultInterfaces, ToSet, IsInjective
    <2> DEFINE some == ToSet(DefaultInterfaces)
               words == DaemonWords
    <2>2. DefaultInterfaces \in Seq(some) /\ given \in Seq(words) BY <1>1, <2>1
    <2> HIDE DEF some, words
    <2>3. DefaultInterfaces \in Seq(words \cup some) /\ given \in Seq(words \cup some) BY <2>2
    <2>4. QED BY <1>1, <2>1, <2>3 DEF some, words
  <1>3. Finished(settings) =
          IF capacity = Absent THEN [error |-> "too large"] ELSE [config |-> config]
    BY DEF Finished
  <1>4. capacity = IF most <= limit THEN most ELSE Absent BY DEF CapacityFor
  <1> HIDE DEF capacity, interfaces, most, limit
  <1>5. capacity # Absent /\ Finished(settings).config = config
    <2> HIDE DEF config
    <2> DEFINE made == Finished(settings)
    <2>1. /\ "config" \in DOMAIN made
          /\ made = IF capacity = Absent THEN [error |-> "too large"] ELSE [config |-> config]
      BY <1>3
    <2> HIDE DEF made
    <2>2. capacity # Absent BY <2>1
    <2>3. made = [config |-> config] BY <2>1, <2>2
    <2>4. QED BY <2>2, <2>3 DEF made
  <1>6. capacity = most /\ most <= limit BY <1>4, <1>5
  <1>7. /\ config.interfaces = interfaces /\ config.interval = interval
        /\ config.flush_interval = settings["--flush-interval"]
        /\ config.retention = retention /\ config.capacity = capacity
    OBVIOUS
  <1> HIDE DEF config
  <1>8. QED BY <1>1, <1>2, <1>5, <1>6, <1>7 DEF GoodConfig, most, limit

LEMMA DaemonIsGood == Exchange /\ daemon # Absent => GoodConfig(daemon)
  BY ConfigIs, FinishedIs DEF Exchange, DaemonIsSet

-----------------------------------------------------------------------------
(* The schema.                                                             *)

(* The metric of an interface in this place after the fixed ones.          *)
NetName(interfaces, k) ==
  IF k % 2 = 1 THEN RxName(interfaces[(k + 1) \div 2]) ELSE TxName(interfaces[(k + 1) \div 2])

LEMMA Joined ==
  ASSUME NEW T, NEW s \in Seq(T), NEW t \in Seq(T), NEW m \in Nat, NEW l \in Nat,
         Len(s) = l, Len(t) = m
  PROVE  /\ Len(s \o t) = l + m /\ DOMAIN (s \o t) = 1 .. l + m
         /\ \A i \in 1 .. l : (s \o t)[i] = s[i]
         /\ \A k \in 1 .. m : (s \o t)[l + k] = t[k]
  <1> DEFINE both == s \o t
  <1>1. /\ both \in Seq(T) /\ Len(both) = l + m
        /\ \A i \in 1 .. l + m : both[i] = IF i <= l THEN s[i] ELSE t[i - l]
    BY ConcatProperties
  <1> HIDE DEF both
  <1>2. DOMAIN both = 1 .. l + m BY <1>1
  <1>3. ASSUME NEW i \in 1 .. l PROVE both[i] = s[i] BY <1>1
  <1>4. ASSUME NEW k \in 1 .. m PROVE both[l + k] = t[k]
    <2>1. l + k \in 1 .. l + m /\ ~(l + k <= l) /\ (l + k) - l = k OBVIOUS
    <2>2. QED BY <1>1, <2>1
  <1>5. QED BY <1>1, <1>2, <1>3, <1>4 DEF both

LEMMA FixedAre == Len(Fixed) = 5 /\ Fixed \in Seq(ToSet(Fixed)) /\ IsInjective(Fixed)
  BY DEF Fixed, ToSet, IsInjective

LEMMA SchemaIs ==
  ASSUME NEW interfaces \in Seq(InterfaceNames)
  PROVE  /\ Len(SchemaOf(interfaces)) = WidthFor(Len(interfaces))
         /\ DOMAIN SchemaOf(interfaces) = 1 .. 5 + 2 * Len(interfaces)
         /\ \A i \in 1 .. 5 : SchemaOf(interfaces)[i] = Fixed[i]
         /\ \A k \in 1 .. 2 * Len(interfaces) :
              SchemaOf(interfaces)[5 + k] = NetName(interfaces, k)
  <1> DEFINE n == Len(interfaces)
             net == [k \in 1 .. 2 * n |-> NetName(interfaces, k)]
             known == ToSet(Fixed) \cup {NetName(interfaces, k) : k \in 1 .. 2 * n}
             fixed == ToSet(Fixed)
  <1>1. n \in Nat OBVIOUS
  <1>2. SchemaOf(interfaces) = Fixed \o net BY DEF SchemaOf, NetName
  <1> HIDE DEF n
  <1>3. /\ net \in Seq(known) /\ Len(net) = 2 * n
        /\ \A k \in 1 .. 2 * n : net[k] = NetName(interfaces, k)
    <2>1. 2 * n \in Nat BY <1>1
    <2>2. net \in [1 .. 2 * n -> known] OBVIOUS
    <2> HIDE DEF known, net
    <2>3. net \in Seq(known) /\ Len(net) = 2 * n BY <2>1, <2>2
    <2>4. QED BY <2>3 DEF net
  <1>4. Len(Fixed) = 5 /\ Fixed \in Seq(fixed) BY FixedAre
  <1>5. fixed \subseteq known OBVIOUS
  <1> HIDE DEF net, fixed, known
  <1>6. Fixed \in Seq(known) BY <1>4, <1>5
  <1>7. /\ Len(Fixed \o net) = 5 + 2 * n /\ DOMAIN (Fixed \o net) = 1 .. 5 + 2 * n
        /\ \A i \in 1 .. 5 : (Fixed \o net)[i] = Fixed[i]
        /\ \A k \in 1 .. 2 * n : (Fixed \o net)[5 + k] = net[k]
    <2> DEFINE m == 2 * n
               l == 5
               first == Fixed
    <2>1. /\ m \in Nat /\ l \in Nat /\ Len(net) = m /\ Len(first) = l
          /\ net \in Seq(known) /\ first \in Seq(known)
      BY <1>1, <1>3, <1>4, <1>6
    <2> HIDE DEF m, l, first
    <2>2. /\ Len(first \o net) = l + m /\ DOMAIN (first \o net) = 1 .. l + m
          /\ \A i \in 1 .. l : (first \o net)[i] = first[i]
          /\ \A k \in 1 .. m : (first \o net)[l + k] = net[k]
      BY <2>1, Joined
    <2>3. QED BY <2>2 DEF m, l, first
  <1>8. WidthFor(n) = 5 + 2 * n BY <1>4 DEF WidthFor
  <1>9. QED BY <1>2, <1>3, <1>7, <1>8 DEF n

LEMMA SchemaIsSeq ==
  ASSUME NEW interfaces \in Seq(InterfaceNames)
  PROVE  SchemaOf(interfaces) \in Seq(ToSet(SchemaOf(interfaces)))
  <1> DEFINE n == Len(interfaces)
             net == [k \in 1 .. 2 * n |-> NetName(interfaces, k)]
             known == ToSet(Fixed) \cup {NetName(interfaces, k) : k \in 1 .. 2 * n}
             fixed == ToSet(Fixed)
             first == Fixed
             schema == SchemaOf(interfaces)
  <1>1. schema = first \o net BY DEF SchemaOf, NetName
  <1>2. net \in Seq(known)
    <2>1. 2 * n \in Nat /\ net \in [1 .. 2 * n -> known] OBVIOUS
    <2> HIDE DEF known, net
    <2>2. QED BY <2>1
  <1>3. first \in Seq(fixed) /\ fixed \subseteq known BY FixedAre
  <1> HIDE DEF net, known, fixed, first, schema
  <1>4. first \in Seq(known) BY <1>3
  <1>5. schema \in Seq(known) BY <1>1, <1>2, <1>4
  <1>6. schema \in Seq(ToSet(schema)) BY <1>5 DEF ToSet
  <1>7. QED BY <1>6 DEF schema

(* No two metrics have the same name.                                      *)
LEMMA SchemaIsInjective ==
  ASSUME NEW interfaces \in Seq(InterfaceNames), IsInjective(interfaces)
  PROVE  IsInjective(SchemaOf(interfaces))
  <1> DEFINE n == Len(interfaces)
             schema == SchemaOf(interfaces)
  <1>1. n \in Nat /\ \A j \in 1 .. n : interfaces[j] \in InterfaceNames OBVIOUS
  <1>2. /\ DOMAIN schema = 1 .. 5 + 2 * n /\ \A i \in 1 .. 5 : schema[i] = Fixed[i]
        /\ \A k \in 1 .. 2 * n : schema[5 + k] = NetName(interfaces, k)
    BY SchemaIs
  <1>3. \A a, b \in 1 .. n : interfaces[a] = interfaces[b] => a = b BY DEF IsInjective
  <1> HIDE DEF n, schema
  <1>4. ASSUME NEW a \in 1 .. 5, NEW b \in 1 .. 5, schema[a] = schema[b] PROVE a = b
    BY <1>2, <1>4, FixedAre DEF IsInjective
  <1>5. ASSUME NEW k \in 1 .. 2 * n PROVE (k + 1) \div 2 \in 1 .. n BY <1>1, SMT
  <1>6. ASSUME NEW a \in 1 .. 5, NEW k \in 1 .. 2 * n PROVE schema[a] # schema[5 + k]
    <2>1. Fixed[a] \in ToSet(Fixed) BY FixedAre DEF ToSet
    <2>2. interfaces[(k + 1) \div 2] \in InterfaceNames BY <1>1, <1>5
    <2>3. \A name \in InterfaceNames : {RxName(name), TxName(name)} \cap ToSet(Fixed) = {}
      BY NamesAssumption
    <2>4. NetName(interfaces, k) \notin ToSet(Fixed) BY <2>2, <2>3 DEF NetName
    <2>5. QED BY <1>2, <2>1, <2>4
  <1>7. ASSUME NEW k \in 1 .. 2 * n, NEW l \in 1 .. 2 * n, schema[5 + k] = schema[5 + l]
        PROVE  k = l
    <2> DEFINE i == (k + 1) \div 2
               j == (l + 1) \div 2
    <2>1. i \in 1 .. n /\ j \in 1 .. n BY <1>5
    <2>2. NetName(interfaces, k) = NetName(interfaces, l) BY <1>2, <1>7
    <2>3. \A a, b \in InterfaceNames :
            /\ RxName(a) = RxName(b) \/ TxName(a) = TxName(b) => a = b
            /\ RxName(a) # TxName(b)
      BY NamesAssumption
    <2>4. interfaces[i] \in InterfaceNames /\ interfaces[j] \in InterfaceNames BY <1>1, <2>1
    <2>5. (k % 2 = 1 <=> l % 2 = 1) /\ interfaces[i] = interfaces[j]
      BY <2>2, <2>3, <2>4 DEF NetName
    <2>6. i = j BY <1>3, <2>1, <2>5
    <2>7. QED BY <1>1, <2>5, <2>6, SMT
  <1>8. ASSUME NEW a \in DOMAIN schema, NEW b \in DOMAIN schema, schema[a] = schema[b]
        PROVE  a = b
    <2>1. ASSUME NEW c \in DOMAIN schema
          PROVE  c \in 1 .. 5 \/ \E k \in 1 .. 2 * n : c = 5 + k
      <3>1. c \in Int /\ c <= 5 + 2 * n /\ c >= 1 BY <1>1, <1>2
      <3>2. CASE c > 5
        <4>1. c - 5 \in 1 .. 2 * n /\ c = 5 + (c - 5) BY <1>1, <3>1, <3>2
        <4>2. QED BY <4>1
      <3>3. QED BY <3>1, <3>2
    <2>2. CASE a \in 1 .. 5 /\ b \in 1 .. 5 BY <1>4, <1>8, <2>2
    <2>3. QED BY <1>4, <1>6, <1>7, <1>8, <2>1
  <1>9. QED BY <1>8 DEF IsInjective, schema

(* The settings.                                                           *)
LEMMA Division ==
  ASSUME NEW x \in Nat, NEW s \in Nat \ {0}
  PROVE  x \div s \in Nat /\ x % s \in 0 .. s - 1 /\ x = s * (x \div s) + (x % s)
  OBVIOUS

LEMMA CapacityIs ==
  ASSUME NEW retention \in Nat \ {0}, NEW interval \in Nat \ {0}, NEW capacity,
         capacity = B!AtLeast(B!DivCeil(retention, interval), 1)
  PROVE  /\ capacity * interval >= retention
         /\ capacity > 1 => (capacity - 1) * interval < retention
  <1> DEFINE y == retention + interval - 1
             q == y \div interval
             r == y % interval
  <1>1. y \in Nat OBVIOUS
  <1>2. q \in Nat /\ r \in 0 .. interval - 1 /\ y = interval * q + r BY <1>1, Division
  <1>3. y = retention + interval - 1 OBVIOUS
  <1>4. capacity = IF q < 1 THEN 1 ELSE q BY DEF B!AtLeast, B!DivCeil
  <1> HIDE DEF y, q, r
  <1>5. interval * q \in Nat /\ q * interval = interval * q BY <1>2
  <1>6. interval * q >= retention /\ interval * q < retention + interval
    BY <1>1, <1>2, <1>3, <1>5
  <1>7. q >= 1
    <2>1. SUFFICES ASSUME q < 1 PROVE FALSE BY <1>2
    <2>2. q = 0 BY <1>2, <2>1
    <2>3. interval * q = 0 BY <2>2
    <2>4. QED BY <1>6, <2>3
  <1>8. capacity = q BY <1>2, <1>4, <1>7
  <1>9. (q - 1) * interval = q * interval - interval BY <1>2
  <1>10. QED BY <1>5, <1>6, <1>8, <1>9

LEMMA GoodSettingsAreUsable == Exchange => SettingsAreUsable
  <1> SUFFICES ASSUME Exchange, pc = "launched", daemon # Absent
      PROVE  /\ daemon.interval > 0 /\ daemon.flush_interval > 0
             /\ daemon.capacity * daemon.interval >= daemon.retention
             /\ daemon.capacity > 1 => (daemon.capacity - 1) * daemon.interval < daemon.retention
             /\ daemon.capacity <= MaxStoreBytes \div (8 * (Len(Schema) + 1))
             /\ IsInjective(Schema)
    BY DEF SettingsAreUsable
  <1>1. GoodConfig(daemon) BY DaemonIsGood
  <1> DEFINE interfaces == daemon.interfaces
  <1>2. interfaces \in Seq(InterfaceNames) /\ IsInjective(interfaces)
    BY <1>1 DEF GoodConfig, InterfaceNames, DaemonWords
  <1>3. Len(Schema) = WidthFor(Len(interfaces)) /\ IsInjective(Schema)
    BY <1>2, SchemaIs, SchemaIsInjective DEF Schema
  <1>4. daemon.capacity <= MaxStoreBytes \div (8 * (Len(Schema) + 1))
    BY <1>1, <1>3 DEF GoodConfig, BytesFor
  <1>5. /\ daemon.interval \in Nat \ {0} /\ daemon.flush_interval \in Nat \ {0}
        /\ daemon.retention \in Nat \ {0}
        /\ daemon.capacity = B!AtLeast(B!DivCeil(daemon.retention, daemon.interval), 1)
    BY <1>1 DEF GoodConfig
  <1>6. /\ daemon.capacity * daemon.interval >= daemon.retention
        /\ daemon.capacity > 1 => (daemon.capacity - 1) * daemon.interval < daemon.retention
    BY <1>5, CapacityIs
  <1>7. daemon.interval > 0 /\ daemon.flush_interval > 0 BY <1>5
  <1>8. QED BY <1>3, <1>4, <1>6, <1>7

(* Every config the daemon starts with is usable, whatever it is launched  *)
(* with: parse and capacity_for of config.rs.                              *)
THEOREM ConfigsAreUsable == Spec => []SettingsAreUsable
  BY AlwaysExchange, GoodSettingsAreUsable, PTL

-----------------------------------------------------------------------------
(* What is checked of a request.                                           *)

LEMMA ItemsOfBoth ==
  ASSUME NEW s, NEW t, s \in Seq(ToSet(s)), t \in Seq(ToSet(t))
  PROVE  /\ (s \o t) \in Seq(ToSet(s \o t))
         /\ ToSet(s \o t) = ToSet(s) \cup ToSet(t)
  <1> DEFINE S == ToSet(s)
             T == ToSet(t)
             both == s \o t
             l == Len(s)
             m == Len(t)
  <1>1. s \in Seq(S) /\ t \in Seq(T) OBVIOUS
  <1>2. S = {s[i] : i \in DOMAIN s} /\ T = {t[i] : i \in DOMAIN t} BY DEF ToSet
  <1>3. ToSet(both) = {both[i] : i \in DOMAIN both} BY DEF ToSet
  <1> HIDE DEF S, T
  <1>4. s \in Seq(S \cup T) /\ t \in Seq(S \cup T) BY <1>1
  <1>5. l \in Nat /\ m \in Nat /\ DOMAIN s = 1 .. l /\ DOMAIN t = 1 .. m BY <1>1
  <1>6. /\ DOMAIN both = 1 .. l + m /\ Len(both) = l + m
        /\ \A i \in 1 .. l : both[i] = s[i]
        /\ \A k \in 1 .. m : both[l + k] = t[k]
    BY <1>4, <1>5, Joined
  <1>7. both \in Seq(S \cup T) BY <1>4
  <1> HIDE DEF both, l, m
  <1>8. ToSet(both) = S \cup T
    <2>1. ASSUME NEW i \in 1 .. l PROVE s[i] \in ToSet(both)
      <3>1. i \in DOMAIN both /\ both[i] = s[i] BY <1>5, <1>6
      <3>2. QED BY <1>3, <3>1
    <2>2. ASSUME NEW k \in 1 .. m PROVE t[k] \in ToSet(both)
      <3>1. l + k \in 1 .. l + m BY <1>5
      <3>2. l + k \in DOMAIN both /\ both[l + k] = t[k] BY <1>6, <3>1
      <3>3. QED BY <1>3, <3>2
    <2>3. ToSet(both) \subseteq S \cup T BY <1>3, <1>6, <1>7
    <2>4. QED BY <1>2, <1>5, <2>1, <2>2, <2>3
  <1>9. both \in Seq(ToSet(both)) BY <1>7, <1>8
  <1>10. QED BY <1>8, <1>9 DEF S, T, both

LEMMA Listed ==
  ASSUME NEW a, NEW b, NEW c, NEW d, NEW e
  PROVE  /\ <<a, b>> \in Seq(ToSet(<<a, b>>)) /\ <<a, b, c>> \in Seq(ToSet(<<a, b, c>>))
         /\ <<a, b, c, d>> \in Seq(ToSet(<<a, b, c, d>>))
         /\ <<a, b, c, d, e>> \in Seq(ToSet(<<a, b, c, d, e>>))
  BY DEF ToSet

LEMMA OneOfTwo ==
  ASSUME NEW a, NEW b
  PROVE  /\ \A check \in ToSet(<<a, b>>) : check = a \/ check = b
         /\ {a, b} \subseteq ToSet(<<a, b>>)
  BY DEF ToSet

LEMMA OneOfThree ==
  ASSUME NEW a, NEW b, NEW c
  PROVE  /\ \A check \in ToSet(<<a, b, c>>) : check = a \/ check = b \/ check = c
         /\ {a, b, c} \subseteq ToSet(<<a, b, c>>)
  BY DEF ToSet

LEMMA OneOfFour ==
  ASSUME NEW a, NEW b, NEW c, NEW d
  PROVE  /\ \A check \in ToSet(<<a, b, c, d>>) : check = a \/ check = b \/ check = c \/ check = d
         /\ {a, b, c, d} \subseteq ToSet(<<a, b, c, d>>)
  BY DEF ToSet

LEMMA OneOfFive ==
  ASSUME NEW a, NEW b, NEW c, NEW d, NEW e
  PROVE  /\ \A check \in ToSet(<<a, b, c, d, e>>) :
              check = a \/ check = b \/ check = c \/ check = d \/ check = e
         /\ {a, b, c, d, e} \subseteq ToSet(<<a, b, c, d, e>>)
  BY DEF ToSet

LEMMA Pair ==
  ASSUME NEW p \in BOOLEAN, NEW why, NEW check, check = <<p, why>>
  PROVE  check[2] = why /\ (check[1] => p)
  OBVIOUS

(* The checks in the order of the code, as a set.                          *)
LEMMA ChecksAre ==
  ASSUME NEW text
  PROVE  /\ Checks(text) \in Seq(ToSet(Checks(text)))
         /\ ToSet(Checks(text)) =
              ToSet(EnvelopeChecks(text)) \cup
              (IF text.op = "read"
                 THEN ToSet(RangeChecks(text)) \cup ToSet(MetricsChecks(text.metrics)) \cup
                      ToSet(DownsampleChecks(text)) \cup ToSet(ExtremesChecks(text))
                 ELSE {})
  <1> DEFINE e == EnvelopeChecks(text)
             r == RangeChecks(text)
             m == MetricsChecks(text.metrics)
             d == DownsampleChecks(text)
             x == ExtremesChecks(text)
  <1>1. /\ e \in Seq(ToSet(e)) /\ r \in Seq(ToSet(r)) /\ m \in Seq(ToSet(m))
        /\ d \in Seq(ToSet(d)) /\ x \in Seq(ToSet(x))
    <2>1. e \in Seq(ToSet(e))
      <3>1. PICK a, b, c, f, g : e = <<a, b, c, f, g>> BY DEF EnvelopeChecks
      <3> HIDE DEF e
      <3>2. QED BY <3>1, Listed
    <2>2. r \in Seq(ToSet(r)) BY Listed DEF RangeChecks
    <2>3. m \in Seq(ToSet(m)) BY Listed DEF MetricsChecks
    <2>4. d \in Seq(ToSet(d))
      <3>1. PICK a, b, c, f, g : d = <<a, b, c, f, g>> BY DEF DownsampleChecks
      <3> HIDE DEF d
      <3>2. QED BY <3>1, Listed
    <2>5. x \in Seq(ToSet(x)) BY Listed DEF ExtremesChecks
    <2> HIDE DEF e, r, m, d, x
    <2>6. QED BY <2>1, <2>2, <2>3, <2>4, <2>5
  <1>2. Checks(text) = e \o (IF text.op = "read" THEN r \o m \o d \o x ELSE << >>) BY DEF Checks
  <1> HIDE DEF e, r, m, d, x
  <1>3. /\ r \o m \o d \o x \in Seq(ToSet(r \o m \o d \o x))
        /\ ToSet(r \o m \o d \o x) = ToSet(r) \cup ToSet(m) \cup ToSet(d) \cup ToSet(x)
    <2>1. r \o m \in Seq(ToSet(r \o m)) /\ ToSet(r \o m) = ToSet(r) \cup ToSet(m)
      BY <1>1, ItemsOfBoth
    <2> DEFINE p == r \o m
    <2> HIDE DEF p
    <2>2. p \o d \in Seq(ToSet(p \o d)) /\ ToSet(p \o d) = ToSet(p) \cup ToSet(d)
      BY <1>1, <2>1, ItemsOfBoth DEF p
    <2> DEFINE q == p \o d
    <2> HIDE DEF q
    <2>3. q \o x \in Seq(ToSet(q \o x)) /\ ToSet(q \o x) = ToSet(q) \cup ToSet(x)
      BY <1>1, <2>2, ItemsOfBoth DEF q
    <2>4. QED BY <2>1, <2>2, <2>3 DEF p, q
  <1>4. << >> \in Seq(ToSet(<< >>)) /\ ToSet(<< >>) = {} BY DEF ToSet
  <1> DEFINE rest == IF text.op = "read" THEN r \o m \o d \o x ELSE << >>
  <1>5. /\ rest \in Seq(ToSet(rest))
        /\ ToSet(rest) = IF text.op = "read" THEN ToSet(r) \cup ToSet(m) \cup ToSet(d) \cup ToSet(x)
                         ELSE {}
    BY <1>3, <1>4
  <1>6. Checks(text) = e \o rest BY <1>2
  <1> HIDE DEF rest
  <1>7. /\ (e \o rest) \in Seq(ToSet(e \o rest))
        /\ ToSet(e \o rest) = ToSet(e) \cup ToSet(rest)
    BY <1>1, <1>5, ItemsOfBoth
  <1>8. QED BY <1>5, <1>6, <1>7 DEF e, r, m, d, x

(* What each check that fails says of the request.                         *)
LEMMA EnvelopeChecksAre ==
  ASSUME NEW object, NEW check \in ToSet(EnvelopeChecks(object))
  PROVE  /\ check[2] \in Reasons
         /\ check[1] =>
              \/ check[2] = "bad version" /\ object.v \in {Null, Junk}
              \/ check[2] = "unsupported version" /\ object.v \notin {Absent, 1}
              \/ check[2] = "missing op" /\ object.op = Absent
              \/ check[2] = "op not a string" /\ object.op \in {Null, Junk}
              \/ check[2] = "unknown op" /\ object.op \notin PlainOps \cup {"read"}
  <1> DEFINE first == object.v \in {Null, Junk}
             second == object.v \notin {Absent, 1}
             third == object.op = Absent
             fourth == object.op \in {Null, Junk}
             fifth == object.op \notin PlainOps \cup {"read"}
  <1>1. EnvelopeChecks(object) =
          <<<<first, "bad version">>, <<second, "unsupported version">>,
            <<third, "missing op">>, <<fourth, "op not a string">>,
            <<fifth, "unknown op">>>>
    BY DEF EnvelopeChecks
  <1>2. first \in BOOLEAN /\ second \in BOOLEAN /\ third \in BOOLEAN /\ fourth \in BOOLEAN /\ fifth \in BOOLEAN
    OBVIOUS
  <1> HIDE DEF first, second, third, fourth, fifth
  <1>3. \/ check = <<first, "bad version">>
        \/ check = <<second, "unsupported version">>
        \/ check = <<third, "missing op">>
        \/ check = <<fourth, "op not a string">>
        \/ check = <<fifth, "unknown op">>
    BY <1>1, OneOfFive
  <1>4. check = <<first, "bad version">> => check[2] = "bad version" /\ (check[1] => first)
    BY <1>2, Pair
  <1>5. check = <<second, "unsupported version">> => check[2] = "unsupported version" /\ (check[1] => second)
    BY <1>2, Pair
  <1>6. check = <<third, "missing op">> => check[2] = "missing op" /\ (check[1] => third)
    BY <1>2, Pair
  <1>7. check = <<fourth, "op not a string">> => check[2] = "op not a string" /\ (check[1] => fourth)
    BY <1>2, Pair
  <1>8. check = <<fifth, "unknown op">> => check[2] = "unknown op" /\ (check[1] => fifth)
    BY <1>2, Pair
  <1>9. {"bad version", "unsupported version", "missing op", "op not a string", "unknown op"} \subseteq Reasons
    BY DEF Reasons
  <1>10. QED BY <1>3, <1>4, <1>5, <1>6, <1>7, <1>8, <1>9 DEF first, second, third, fourth, fifth

LEMMA RangeChecksAre ==
  ASSUME NEW object, NEW check \in ToSet(RangeChecks(object))
  PROVE  /\ check[2] \in Reasons
         /\ check[1] =>
              \/ check[2] = "from" /\ object.from = Junk
              \/ check[2] = "to" /\ object.to = Junk
              \/ /\ check[2] = "from after to"
                 /\ Usable(object.from) /\ Usable(object.to) /\ object.from > object.to
  <1> DEFINE first == object.from = Junk
             second == object.to = Junk
             third == Usable(object.from) /\ Usable(object.to) /\ object.from > object.to
  <1>1. RangeChecks(object) =
          <<<<first, "from">>, <<second, "to">>, <<third, "from after to">>>>
    BY DEF RangeChecks
  <1>2. first \in BOOLEAN /\ second \in BOOLEAN /\ third \in BOOLEAN OBVIOUS
  <1> HIDE DEF first, second, third
  <1>3. \/ check = <<first, "from">>
        \/ check = <<second, "to">>
        \/ check = <<third, "from after to">>
    BY <1>1, OneOfThree
  <1>4. check = <<first, "from">> => check[2] = "from" /\ (check[1] => first) BY <1>2, Pair
  <1>5. check = <<second, "to">> => check[2] = "to" /\ (check[1] => second) BY <1>2, Pair
  <1>6. check = <<third, "from after to">> => check[2] = "from after to" /\ (check[1] => third)
    BY <1>2, Pair
  <1>7. {"from", "to", "from after to"} \subseteq Reasons BY DEF Reasons
  <1>8. QED BY <1>3, <1>4, <1>5, <1>6, <1>7 DEF first, second, third

LEMMA MetricsChecksAre ==
  ASSUME NEW metrics, NEW check \in ToSet(MetricsChecks(metrics))
  PROVE  /\ check[2] \in Reasons
         /\ check[1] =>
              \/ check[2] = "metrics" /\ metrics = Junk
              \/ check[2] = "no names" /\ metrics = << >>
              \/ check[2] = "too many names" /\ Usable(metrics) /\ Len(metrics) > MaxNames
              \/ /\ check[2] = "metrics"
                 /\ Usable(metrics) /\ \E i \in DOMAIN metrics : metrics[i] = Junk
  <1> DEFINE first == metrics = Junk
             second == metrics = << >>
             third == Usable(metrics) /\ Len(metrics) > MaxNames
             fourth == Usable(metrics) /\ \E i \in DOMAIN metrics : metrics[i] = Junk
  <1>1. MetricsChecks(metrics) =
          <<<<first, "metrics">>, <<second, "no names">>, <<third, "too many names">>,
            <<fourth, "metrics">>>>
    BY DEF MetricsChecks
  <1>2. first \in BOOLEAN /\ second \in BOOLEAN /\ third \in BOOLEAN /\ fourth \in BOOLEAN OBVIOUS
  <1> HIDE DEF first, second, third, fourth
  <1>3. \/ check = <<first, "metrics">>
        \/ check = <<second, "no names">>
        \/ check = <<third, "too many names">>
        \/ check = <<fourth, "metrics">>
    BY <1>1, OneOfFour
  <1>4. check = <<first, "metrics">> => check[2] = "metrics" /\ (check[1] => first) BY <1>2, Pair
  <1>5. check = <<second, "no names">> => check[2] = "no names" /\ (check[1] => second)
    BY <1>2, Pair
  <1>6. check = <<third, "too many names">> => check[2] = "too many names" /\ (check[1] => third)
    BY <1>2, Pair
  <1>7. check = <<fourth, "metrics">> => check[2] = "metrics" /\ (check[1] => fourth)
    BY <1>2, Pair
  <1>8. {"metrics", "no names", "too many names"} \subseteq Reasons BY DEF Reasons
  <1>9. QED BY <1>3, <1>4, <1>5, <1>6, <1>7, <1>8 DEF first, second, third, fourth

LEMMA DownsampleChecksAre ==
  ASSUME NEW object, NEW check \in ToSet(DownsampleChecks(object))
  PROVE  /\ check[2] \in Reasons
         /\ check[1] =>
              \/ check[2] = "step_ms" /\ object.step_ms = Junk
              \/ check[2] = "max_points" /\ object.max_points = Junk
              \/ check[2] = "both" /\ Given(object.step_ms) /\ Given(object.max_points)
              \/ check[2] = "step of 0" /\ object.step_ms = 0
              \/ /\ check[2] = "points out of range"
                 /\ Given(object.max_points) /\ object.max_points \notin 2 .. MaxPoints
  <1> DEFINE first == object.step_ms = Junk
             second == object.max_points = Junk
             third == Given(object.step_ms) /\ Given(object.max_points)
             fourth == object.step_ms = 0
             fifth == Given(object.max_points) /\ object.max_points \notin 2 .. MaxPoints
  <1>1. DownsampleChecks(object) =
          <<<<first, "step_ms">>, <<second, "max_points">>, <<third, "both">>,
            <<fourth, "step of 0">>, <<fifth, "points out of range">>>>
    BY DEF DownsampleChecks
  <1>2. first \in BOOLEAN /\ second \in BOOLEAN /\ third \in BOOLEAN /\ fourth \in BOOLEAN /\ fifth \in BOOLEAN
    OBVIOUS
  <1> HIDE DEF first, second, third, fourth, fifth
  <1>3. \/ check = <<first, "step_ms">>
        \/ check = <<second, "max_points">>
        \/ check = <<third, "both">>
        \/ check = <<fourth, "step of 0">>
        \/ check = <<fifth, "points out of range">>
    BY <1>1, OneOfFive
  <1>4. check = <<first, "step_ms">> => check[2] = "step_ms" /\ (check[1] => first) BY <1>2, Pair
  <1>5. check = <<second, "max_points">> => check[2] = "max_points" /\ (check[1] => second)
    BY <1>2, Pair
  <1>6. check = <<third, "both">> => check[2] = "both" /\ (check[1] => third) BY <1>2, Pair
  <1>7. check = <<fourth, "step of 0">> => check[2] = "step of 0" /\ (check[1] => fourth)
    BY <1>2, Pair
  <1>8. check = <<fifth, "points out of range">> => check[2] = "points out of range" /\ (check[1] => fifth)
    BY <1>2, Pair
  <1>9. {"step_ms", "max_points", "both", "step of 0", "points out of range"} \subseteq Reasons
    BY DEF Reasons
  <1>10. QED BY <1>3, <1>4, <1>5, <1>6, <1>7, <1>8, <1>9 DEF first, second, third, fourth, fifth

LEMMA ExtremesChecksAre ==
  ASSUME NEW object, NEW check \in ToSet(ExtremesChecks(object))
  PROVE  /\ check[2] \in Reasons
         /\ check[1] =>
              \/ check[2] = "extremes" /\ object.extremes = Junk
              \/ /\ check[2] = "extremes of what"
                 /\ object.extremes = TRUE /\ ~Given(object.step_ms) /\ ~Given(object.max_points)
  <1> DEFINE first == object.extremes = Junk
             second == object.extremes = TRUE /\ ~Given(object.step_ms) /\ ~Given(object.max_points)
  <1>1. ExtremesChecks(object) =
          <<<<first, "extremes">>, <<second, "extremes of what">>>>
    BY DEF ExtremesChecks
  <1>2. first \in BOOLEAN /\ second \in BOOLEAN OBVIOUS
  <1> HIDE DEF first, second
  <1>3. \/ check = <<first, "extremes">>
        \/ check = <<second, "extremes of what">>
    BY <1>1, OneOfTwo
  <1>4. check = <<first, "extremes">> => check[2] = "extremes" /\ (check[1] => first)
    BY <1>2, Pair
  <1>5. check = <<second, "extremes of what">> => check[2] = "extremes of what" /\ (check[1] => second)
    BY <1>2, Pair
  <1>6. {"extremes", "extremes of what"} \subseteq Reasons BY DEF Reasons
  <1>7. QED BY <1>3, <1>4, <1>5, <1>6 DEF first, second

LEMMA ReasonsAre ==
  ASSUME NEW text, NEW check \in ToSet(Checks(text))
  PROVE  check[2] \in Reasons
  <1>1. check \in ToSet(EnvelopeChecks(text)) \cup ToSet(RangeChecks(text)) \cup
                  ToSet(MetricsChecks(text.metrics)) \cup ToSet(DownsampleChecks(text)) \cup
                  ToSet(ExtremesChecks(text))
    BY ChecksAre
  <1>2. QED BY <1>1, EnvelopeChecksAre, RangeChecksAre, MetricsChecksAre, DownsampleChecksAre,
               ExtremesChecksAre

(* It is refused for a check that fails, if one does.                      *)
LEMMA RefusalIs ==
  ASSUME NEW text, text \notin {TooLong, NotUtf8, NotJson, NotAnObject}
  PROVE  \/ Refusal(text) = Absent /\ \A check \in ToSet(Checks(text)) : ~check[1]
         \/ \E check \in ToSet(Checks(text)) :
              check[1] /\ Refusal(text) = check[2] /\ Refusal(text) # Absent
  <1> DEFINE checks == Checks(text)
             I == {i \in 1 .. Len(checks) : checks[i][1]}
             first == SelectInSeq(checks, LAMBDA check : check[1])
  <1>1. first = IF I # {} THEN Min(I) ELSE 0 BY DEF SelectInSeq
  <1>2. Refusal(text) = IF first = 0 THEN Absent ELSE checks[first][2] BY DEF Refusal
  <1>3. checks \in Seq(ToSet(checks)) BY ChecksAre
  <1>4. ToSet(checks) = {checks[i] : i \in 1 .. Len(checks)} BY <1>3 DEF ToSet
  <1> HIDE DEF checks, first
  <1>5. CASE I = {}
    <2>1. \A i \in 1 .. Len(checks) : ~checks[i][1] BY <1>5
    <2>2. first = 0 BY <1>1, <1>5
    <2>3. QED BY <1>2, <1>4, <2>1, <2>2 DEF checks
  <1>6. CASE I # {}
    <2>1. I \subseteq Nat /\ 0 \notin I BY <1>3
    <2>2. \E x \in I : \A y \in I : x <= y
      <3> HIDE DEF I
      <3>1. QED BY <1>6, <2>1, LeastNumber
    <2>3. Min(I) \in I BY <2>2 DEF Min
    <2>4. first \in I /\ first # 0 BY <1>1, <1>6, <2>1, <2>3
    <2>5. Refusal(text) = checks[first][2] BY <1>2, <2>4
    <2>6. checks[first][1] /\ checks[first] \in ToSet(checks) BY <1>4, <2>4
    <2>7. Refusal(text) # Absent BY <2>5, <2>6, ReasonsAre, OddAssumption DEF checks
    <2>8. QED BY <2>5, <2>6, <2>7 DEF checks
  <1>7. QED BY <1>5, <1>6

LEMMA UnderstoodIs ==
  ASSUME NEW text, Understood(text)
  PROVE  text \notin NoObjects /\ \A check \in ToSet(Checks(text)) : ~check[1]
  <1>1. {"request too long", "not UTF-8", "not JSON", "not an object"} \cap {Absent} = {}
    BY OddAssumption DEF Reasons
  <1>2. text \notin {TooLong, NotUtf8, NotJson, NotAnObject}
    BY <1>1 DEF Understood, Refusal
  <1>3. QED BY <1>2, RefusalIs DEF Understood, NoObjects

(* And there is such a check for each of it.                              *)
LEMMA RangeChecksFail ==
  ASSUME NEW object,
         \/ object.from = Junk
         \/ object.to = Junk
         \/ Usable(object.from) /\ Usable(object.to) /\ object.from > object.to
  PROVE  \E check \in ToSet(RangeChecks(object)) : check[1]
  <1> DEFINE first == object.from = Junk
             second == object.to = Junk
             third == Usable(object.from) /\ Usable(object.to) /\ object.from > object.to
  <1>1. RangeChecks(object) =
          <<<<first, "from">>, <<second, "to">>, <<third, "from after to">>>>
    BY DEF RangeChecks
  <1>2. first \in BOOLEAN /\ second \in BOOLEAN /\ third \in BOOLEAN OBVIOUS
  <1>3. first \/ second \/ third OBVIOUS
  <1> HIDE DEF first, second, third
  <1>4. {<<first, "from">>, <<second, "to">>, <<third, "from after to">>}
          \subseteq ToSet(RangeChecks(object))
    BY <1>1, OneOfThree
  <1>5. first => <<first, "from">>[1] BY <1>2
  <1>6. second => <<second, "to">>[1] BY <1>2
  <1>7. third => <<third, "from after to">>[1] BY <1>2
  <1>8. QED BY <1>3, <1>4, <1>5, <1>6, <1>7

LEMMA MetricsChecksFail ==
  ASSUME NEW metrics,
         \/ metrics = Junk
         \/ metrics = << >>
         \/ Usable(metrics) /\ Len(metrics) > MaxNames
         \/ Usable(metrics) /\ \E i \in DOMAIN metrics : metrics[i] = Junk
  PROVE  \E check \in ToSet(MetricsChecks(metrics)) : check[1]
  <1> DEFINE first == metrics = Junk
             second == metrics = << >>
             third == Usable(metrics) /\ Len(metrics) > MaxNames
             fourth == Usable(metrics) /\ \E i \in DOMAIN metrics : metrics[i] = Junk
  <1>1. MetricsChecks(metrics) =
          <<<<first, "metrics">>, <<second, "no names">>, <<third, "too many names">>,
            <<fourth, "metrics">>>>
    BY DEF MetricsChecks
  <1>2. first \in BOOLEAN /\ second \in BOOLEAN /\ third \in BOOLEAN /\ fourth \in BOOLEAN OBVIOUS
  <1>3. first \/ second \/ third \/ fourth OBVIOUS
  <1> HIDE DEF first, second, third, fourth
  <1>4. {<<first, "metrics">>, <<second, "no names">>, <<third, "too many names">>,
         <<fourth, "metrics">>}
          \subseteq ToSet(MetricsChecks(metrics))
    BY <1>1, OneOfFour
  <1>5. first => <<first, "metrics">>[1] BY <1>2
  <1>6. second => <<second, "no names">>[1] BY <1>2
  <1>7. third => <<third, "too many names">>[1] BY <1>2
  <1>8. fourth => <<fourth, "metrics">>[1] BY <1>2
  <1>9. QED BY <1>3, <1>4, <1>5, <1>6, <1>7, <1>8

LEMMA DownsampleChecksFail ==
  ASSUME NEW object,
         \/ object.step_ms = Junk
         \/ object.max_points = Junk
         \/ Given(object.step_ms) /\ Given(object.max_points)
         \/ object.step_ms = 0
         \/ Given(object.max_points) /\ object.max_points \notin 2 .. MaxPoints
  PROVE  \E check \in ToSet(DownsampleChecks(object)) : check[1]
  <1> DEFINE first == object.step_ms = Junk
             second == object.max_points = Junk
             third == Given(object.step_ms) /\ Given(object.max_points)
             fourth == object.step_ms = 0
             fifth == Given(object.max_points) /\ object.max_points \notin 2 .. MaxPoints
  <1>1. DownsampleChecks(object) =
          <<<<first, "step_ms">>, <<second, "max_points">>, <<third, "both">>,
            <<fourth, "step of 0">>, <<fifth, "points out of range">>>>
    BY DEF DownsampleChecks
  <1>2. first \in BOOLEAN /\ second \in BOOLEAN /\ third \in BOOLEAN /\ fourth \in BOOLEAN /\ fifth \in BOOLEAN
    OBVIOUS
  <1>3. first \/ second \/ third \/ fourth \/ fifth OBVIOUS
  <1> HIDE DEF first, second, third, fourth, fifth
  <1>4. {<<first, "step_ms">>, <<second, "max_points">>, <<third, "both">>,
         <<fourth, "step of 0">>, <<fifth, "points out of range">>}
          \subseteq ToSet(DownsampleChecks(object))
    BY <1>1, OneOfFive
  <1>5. first => <<first, "step_ms">>[1] BY <1>2
  <1>6. second => <<second, "max_points">>[1] BY <1>2
  <1>7. third => <<third, "both">>[1] BY <1>2
  <1>8. fourth => <<fourth, "step of 0">>[1] BY <1>2
  <1>9. fifth => <<fifth, "points out of range">>[1] BY <1>2
  <1>10. QED BY <1>3, <1>4, <1>5, <1>6, <1>7, <1>8, <1>9

LEMMA ExtremesChecksFail ==
  ASSUME NEW object,
         \/ object.extremes = Junk
         \/ object.extremes = TRUE /\ ~Given(object.step_ms) /\ ~Given(object.max_points)
  PROVE  \E check \in ToSet(ExtremesChecks(object)) : check[1]
  <1> DEFINE first == object.extremes = Junk
             second == object.extremes = TRUE /\ ~Given(object.step_ms) /\ ~Given(object.max_points)
  <1>1. ExtremesChecks(object) =
          <<<<first, "extremes">>, <<second, "extremes of what">>>>
    BY DEF ExtremesChecks
  <1>2. first \in BOOLEAN /\ second \in BOOLEAN OBVIOUS
  <1>3. first \/ second OBVIOUS
  <1> HIDE DEF first, second
  <1>4. {<<first, "extremes">>, <<second, "extremes of what">>}
          \subseteq ToSet(ExtremesChecks(object))
    BY <1>1, OneOfTwo
  <1>5. first => <<first, "extremes">>[1] BY <1>2
  <1>6. second => <<second, "extremes of what">>[1] BY <1>2
  <1>7. QED BY <1>3, <1>4, <1>5, <1>6

(* What holds of a request to read that is understood.                     *)
LEMMA ReadIsChecked ==
  ASSUME NEW text, Understood(text), text.op = "read"
  PROVE  /\ text.from # Junk /\ text.to # Junk
         /\ ~(Usable(text.from) /\ Usable(text.to) /\ text.from > text.to)
         /\ text.metrics # Junk
         /\ text.step_ms # Junk /\ text.max_points # Junk /\ text.step_ms # 0
         /\ ~(Given(text.step_ms) /\ Given(text.max_points))
         /\ Given(text.max_points) => text.max_points \in 2 .. MaxPoints
         /\ text.extremes = TRUE => Given(text.step_ms) \/ Given(text.max_points)
  <1>1. \A check \in ToSet(RangeChecks(text)) \cup ToSet(MetricsChecks(text.metrics)) \cup
                     ToSet(DownsampleChecks(text)) \cup ToSet(ExtremesChecks(text)) : ~check[1]
    BY ChecksAre, UnderstoodIs
  <1>2. /\ text.from # Junk /\ text.to # Junk
        /\ ~(Usable(text.from) /\ Usable(text.to) /\ text.from > text.to)
    BY <1>1, RangeChecksFail
  <1>3. text.metrics # Junk BY <1>1, MetricsChecksFail
  <1>4. /\ text.step_ms # Junk /\ text.max_points # Junk /\ text.step_ms # 0
        /\ ~(Given(text.step_ms) /\ Given(text.max_points))
        /\ Given(text.max_points) => text.max_points \in 2 .. MaxPoints
    BY <1>1, DownsampleChecksFail
  <1>5. text.extremes = TRUE => Given(text.step_ms) \/ Given(text.max_points)
    BY <1>1, ExtremesChecksFail
  <1>6. QED BY <1>2, <1>3, <1>4, <1>5

-----------------------------------------------------------------------------
(* The columns that the store is asked for.                                *)

AddMetric(schema, found, name) ==
  IF Contains(found.columns, Position(schema, name)) THEN found
  ELSE [names |-> Append(found.names, name),
        columns |-> Append(found.columns, Position(schema, name))]

NoMetric == [names |-> << >>, columns |-> << >>]

(* Names and columns of a schema, no column twice.                         *)
FoundIn(schema) ==
  {found \in [names : Seq(ToSet(schema)), columns : Seq(0 .. Len(schema) - 1)] :
     /\ IsInjective(found.columns) /\ Len(found.names) = Len(found.columns)
     /\ \A i \in 1 .. Len(found.names) : found.columns[i] = Position(schema, found.names[i])}

LEMMA NoMetricIs == ASSUME NEW schema PROVE NoMetric \in FoundIn(schema)
  <1> DEFINE names == ToSet(schema)
             places == 0 .. Len(schema) - 1
             none == << >>
  <1>1. none \in Seq(names) /\ none \in Seq(places) /\ IsInjective(none) /\ Len(none) = 0
    BY DEF IsInjective
  <1>2. FoundIn(schema) =
          {found \in [names : Seq(names), columns : Seq(places)] :
             /\ IsInjective(found.columns) /\ Len(found.names) = Len(found.columns)
             /\ \A i \in 1 .. Len(found.names) : found.columns[i] = Position(schema, found.names[i])}
    BY DEF FoundIn
  <1> HIDE DEF names, places, none
  <1> DEFINE start == [names |-> none, columns |-> none]
  <1>3. /\ start \in [names : Seq(names), columns : Seq(places)]
        /\ start.names = none /\ start.columns = none
    BY <1>1
  <1> HIDE DEF start
  <1>4. start \in FoundIn(schema) BY <1>1, <1>2, <1>3
  <1>5. QED BY <1>4 DEF NoMetric, start, none

LEMMA PositionIs ==
  ASSUME NEW schema, schema \in Seq(ToSet(schema)), NEW name \in ToSet(schema)
  PROVE  /\ Position(schema, name) \in 0 .. Len(schema) - 1
         /\ schema[Position(schema, name) + 1] = name
  <1> DEFINE place == CHOOSE i \in DOMAIN schema : schema[i] = name
  <1>1. \E i \in DOMAIN schema : schema[i] = name BY DEF ToSet
  <1>2. place \in DOMAIN schema /\ schema[place] = name BY <1>1
  <1>3. DOMAIN schema = 1 .. Len(schema) /\ Len(schema) \in Nat OBVIOUS
  <1>4. Position(schema, name) = place - 1 BY DEF Position
  <1> HIDE DEF place
  <1>5. place - 1 \in 0 .. Len(schema) - 1 /\ (place - 1) + 1 = place BY <1>2, <1>3
  <1>6. QED BY <1>2, <1>4, <1>5

LEMMA AddMetricIs ==
  ASSUME NEW schema, schema \in Seq(ToSet(schema)), NEW found \in FoundIn(schema),
         NEW name \in ToSet(schema)
  PROVE  AddMetric(schema, found, name) \in FoundIn(schema)
  <1> DEFINE names == ToSet(schema)
             places == 0 .. Len(schema) - 1
             place == Position(schema, name)
             more == [names |-> Append(found.names, name), columns |-> Append(found.columns, place)]
  <1>1. FoundIn(schema) =
          {other \in [names : Seq(names), columns : Seq(places)] :
             /\ IsInjective(other.columns) /\ Len(other.names) = Len(other.columns)
             /\ \A i \in 1 .. Len(other.names) : other.columns[i] = Position(schema, other.names[i])}
    BY DEF FoundIn
  <1>2. place \in places /\ name \in names BY PositionIs
  <1>3. AddMetric(schema, found, name) = IF Contains(found.columns, place) THEN found ELSE more
    BY DEF AddMetric
  <1> HIDE DEF names, places, place
  <1>4. CASE Contains(found.columns, place) BY <1>3, <1>4
  <1>5. CASE ~Contains(found.columns, place)
    <2> DEFINE ns == found.names
               cs == found.columns
    <2>1. /\ ns \in Seq(names) /\ cs \in Seq(places) /\ IsInjective(cs) /\ Len(ns) = Len(cs)
          /\ \A i \in 1 .. Len(ns) : cs[i] = Position(schema, ns[i])
      BY <1>1
    <2>2. ~Contains(cs, place) BY <1>5
    <2> HIDE DEF ns, cs
    <2>3. Append(ns, name) \in Seq(names) /\ Append(cs, place) \in Seq(places) BY <1>2, <2>1
    <2>4. IsInjective(Append(cs, place)) BY <2>1, <2>2 DEF IsInjective, Contains
    <2>5. Len(Append(ns, name)) = Len(Append(cs, place)) BY <1>2, <2>1
    <2>6. ASSUME NEW i \in 1 .. Len(Append(ns, name))
          PROVE  Append(cs, place)[i] = Position(schema, Append(ns, name)[i])
      <3>1. CASE i <= Len(ns)
        <4>1. Append(cs, place)[i] = cs[i] /\ Append(ns, name)[i] = ns[i] BY <2>1, <3>1
        <4>2. QED BY <2>1, <3>1, <4>1
      <3>2. CASE i > Len(ns)
        <4>1. i = Len(ns) + 1 BY <2>1, <3>2
        <4>2. Append(cs, place)[i] = place /\ Append(ns, name)[i] = name BY <2>1, <4>1
        <4>3. QED BY <4>2 DEF place
      <3>3. QED BY <2>1, <3>1, <3>2
    <2> DEFINE names2 == Append(ns, name)
               columns2 == Append(cs, place)
               both == [names |-> names2, columns |-> columns2]
    <2>7. more = both BY DEF ns, cs
    <2> HIDE DEF names2, columns2
    <2>8. both \in [names : Seq(names), columns : Seq(places)] BY <2>3 DEF names2, columns2
    <2>9. both.names = names2 /\ both.columns = columns2 OBVIOUS
    <2> HIDE DEF both
    <2>10. both \in FoundIn(schema)
      BY <1>1, <2>4, <2>5, <2>6, <2>8, <2>9 DEF names2, columns2
    <2>11. QED BY <1>3, <1>5, <2>7, <2>10
  <1>6. QED BY <1>4, <1>5

(* The names wanted are resolved one by one.                               *)
LEMMA ResolveStages ==
  ASSUME NEW schema, schema \in Seq(ToSet(schema)),
         NEW X, X \subseteq ToSet(schema), NEW wanted \in Seq(X), wanted # Absent
  PROVE  \E t \in [0 .. Len(wanted) -> FoundIn(schema)] :
           /\ t[0] = NoMetric /\ t[Len(wanted)] = ResolveMetrics(schema, wanted)
           /\ \A k \in 1 .. Len(wanted) : t[k] = AddMetric(schema, t[k - 1], wanted[k])
  <1> DEFINE S == FoundIn(schema)
             n == Len(wanted)
             Is(it) == it = [T \in SUBSET (1 .. n) |->
                              IF T = {} THEN NoMetric
                              ELSE AddMetric(schema, it[T \ {Max(T)}], wanted[Max(T)])]
             fold == CHOOSE it : Is(it)
             t == [k \in 0 .. n |-> fold[1 .. k]]
  <1>1. n \in Nat /\ DOMAIN wanted = 1 .. n /\ \A k \in 1 .. n : wanted[k] \in X OBVIOUS
  <1>2. ResolveMetrics(schema, wanted) = fold[1 .. n]
    BY <1>1 DEF ResolveMetrics, AddMetric, NoMetric, FoldLeft, MapThenFoldSet
  <1> HIDE DEF n
  <1>3. \E it : Is(it)
    <2> DEFINE g == [pair \in S \X X |-> AddMetric(schema, pair[1], pair[2])]
    <2>1. g \in [S \X X -> S] BY AddMetricIs
    <2>2. \A a \in S, b \in X : g[<<a, b>>] = AddMetric(schema, a, b) OBVIOUS
    <2> HIDE DEF g, S
    <2>3. PICK it \in [SUBSET (1 .. n) -> S] : FoldEquation(it, n, wanted, NoMetric, g)
      <3>1. NoMetric \in S BY NoMetricIs DEF S
      <3>2. QED BY <1>1, <2>1, <3>1, FoldExists
    <2>4. ASSUME NEW T \in SUBSET (1 .. n), T # {}
          PROVE  AddMetric(schema, it[T \ {Max(T)}], wanted[Max(T)])
                   = g[<<it[T \ {Max(T)}], wanted[Max(T)]>>]
      <3>1. Max(T) \in 1 .. n BY <1>1, <2>4, MaxUpTo
      <3>2. it[T \ {Max(T)}] \in S /\ wanted[Max(T)] \in X BY <1>1, <2>3, <3>1
      <3>3. QED BY <2>2, <3>2
    <2>5. Is(it) BY <2>3, <2>4 DEF FoldEquation
    <2>6. QED BY <2>5
  <1>4. Is(fold) BY <1>3
  <1> HIDE DEF fold
  <1>5. t[0] = NoMetric
    <2>1. 1 .. 0 = {} /\ {} \in SUBSET (1 .. n) /\ 0 \in 0 .. n BY <1>1
    <2>2. QED BY <1>4, <2>1
  <1>6. ASSUME NEW k \in 1 .. n PROVE t[k] = AddMetric(schema, t[k - 1], wanted[k])
    <2>1. /\ 1 .. k \in SUBSET (1 .. n) /\ 1 .. k # {}
          /\ Max(1 .. k) = k /\ (1 .. k) \ {Max(1 .. k)} = 1 .. k - 1
      BY <1>1, FirstItems
    <2>2. fold[1 .. k] = AddMetric(schema, fold[1 .. k - 1], wanted[k]) BY <1>4, <2>1
    <2>3. k \in 0 .. n /\ k - 1 \in 0 .. n BY <1>1
    <2>4. QED BY <2>2, <2>3
  <1>7. t[n] = ResolveMetrics(schema, wanted)
    <2>1. n \in 0 .. n BY <1>1
    <2>2. QED BY <1>2, <2>1
  <1>8. t = [k \in 0 .. n |-> t[k]] OBVIOUS
  <1> HIDE DEF t
  <1> DEFINE Good == {k \in 0 .. n : t[k] \in S}
  <1>9. 0 \in Good BY <1>1, <1>5, NoMetricIs
  <1>10. \A k \in 1 .. n : k - 1 \in Good => k \in Good BY <1>1, <1>6, AddMetricIs
  <1> HIDE DEF Good, S
  <1>11. \A k \in 0 .. n : k \in Good BY <1>1, <1>9, <1>10, InductionUpTo
  <1>12. t \in [0 .. n -> S] BY <1>8, <1>11 DEF Good
  <1>13. QED BY <1>5, <1>6, <1>7, <1>12 DEF S, n

LEMMA MetricsAreResolved ==
  ASSUME NEW schema, schema \in Seq(ToSet(schema)), NEW wanted,
         wanted = Absent \/ wanted \in Seq(ToSet(wanted)), ~Unknown(schema, wanted)
  PROVE  /\ ResolveMetrics(schema, wanted).columns \in Seq(0 .. Len(schema) - 1)
         /\ IsInjective(ResolveMetrics(schema, wanted).columns)
  <1>1. CASE wanted = Absent
    <2> DEFINE n == Len(schema)
               places == 0 .. n - 1
               columns == [i \in 1 .. n |-> i - 1]
    <2>1. n \in Nat /\ DOMAIN schema = 1 .. n OBVIOUS
    <2>2. ResolveMetrics(schema, wanted).columns = columns BY <1>1, <2>1 DEF ResolveMetrics
    <2> HIDE DEF n
    <2>3. columns \in [1 .. n -> places] BY <2>1
    <2>4. IsInjective(columns) BY <2>1 DEF IsInjective
    <2> HIDE DEF columns, places
    <2>5. columns \in Seq(places) BY <2>1, <2>3
    <2>6. QED BY <2>2, <2>4, <2>5 DEF places, n
  <1>2. CASE wanted # Absent
    <2> DEFINE X == ToSet(wanted)
               found == ResolveMetrics(schema, wanted)
    <2>1. X \subseteq ToSet(schema) /\ wanted \in Seq(X) BY <1>2 DEF Unknown
    <2> HIDE DEF X, found
    <2>2. PICK t \in [0 .. Len(wanted) -> FoundIn(schema)] : t[Len(wanted)] = found
      BY <1>2, <2>1, ResolveStages DEF found
    <2>3. Len(wanted) \in 0 .. Len(wanted) BY <2>1
    <2>4. found \in FoundIn(schema) BY <2>2, <2>3
    <2>5. QED BY <2>4 DEF FoundIn, found
  <1>3. QED BY <1>1, <1>2

-----------------------------------------------------------------------------
(* What is sent.                                                           *)

SmqArguments == ArgumentsOf(SmqLines)

LEMMA SmqLineIs == ASSUME NEW args \in SmqLines PROVE args \in Seq(SmqArguments)
  <1> DEFINE X == SmqArguments
             Y == ToSet(args)
  <1>1. args \in Seq(Y) BY LinesAssumption
  <1>2. Y \subseteq X BY DEF ArgumentsOf, SmqArguments
  <1> HIDE DEF X, Y
  <1>3. args \in Seq(X) BY <1>1, <1>2
  <1>4. QED BY <1>3 DEF X

(* The request is one that smq made of its own arguments.                  *)
SentBySmq ==
  \E args \in SmqLines :
    /\ "command" \in DOMAIN ParseSmq(args)
    /\ command.command = ParseSmq(args).command /\ command.now \in Clock
    /\ request = RequestFor(command.command, command.now) /\ request # NotJson

LEMMA SomebodySent ==
  ASSUME Exchange, command # Absent \/ pc \in {"sent", "parsed", "answered"}
  PROVE  \/ command = Absent /\ request \in Texts
         \/ SentBySmq
  BY DEF Exchange, CommandIsSent, SentBySmq

LEMMA CommandSentIs ==
  ASSUME SentBySmq
  PROVE  /\ command.command \in Commands(SmqArguments) /\ command.now \in Clock
         /\ request = RequestFor(command.command, command.now)
  <1>1. PICK args \in SmqLines :
          /\ "command" \in DOMAIN ParseSmq(args)
          /\ command.command = ParseSmq(args).command /\ command.now \in Clock
          /\ request = RequestFor(command.command, command.now)
    BY DEF SentBySmq
  <1>2. PICK socket, json : \E made \in Commands(SmqArguments) :
          ParseSmq(args) = [socket |-> socket, json |-> json, command |-> made]
    BY <1>1, SmqLineIs, ParseSmqIs
  <1>3. PICK made \in Commands(SmqArguments) :
          ParseSmq(args) = [socket |-> socket, json |-> json, command |-> made]
    BY <1>2
  <1>4. ParseSmq(args).command = made BY <1>3
  <1>5. QED BY <1>1, <1>4

Numbers == {Absent} \cup Nat

LEMMA ObjectIs ==
  ASSUME NEW op \in PlainOps \cup {"read"}
  PROVE  Object(op) \in SmqObjects
  <1> DEFINE none == Absent
             ops == PlainOps \cup {"read"}
             lists == {Absent} \cup Seq(SmqWords)
             truths == {Absent, TRUE}
  <1>1. none \in Numbers /\ none \in lists /\ none \in truths /\ none \in {Absent} BY DEF Numbers
  <1>2. SmqObjects = [v : {Absent}, op : ops, from : Numbers, to : Numbers, metrics : lists,
                      step_ms : Numbers, max_points : Numbers, extremes : truths]
    BY DEF SmqObjects, Numbers
  <1>3. Object(op) = [v |-> none, op |-> op, from |-> none, to |-> none, metrics |-> none,
                      step_ms |-> none, max_points |-> none, extremes |-> none]
    BY DEF Object
  <1> DEFINE nothing == {Absent}
  <1>4. none \in nothing /\ op \in ops OBVIOUS
  <1> HIDE DEF none, ops, lists, truths, nothing
  <1>5. [v |-> none, op |-> op, from |-> none, to |-> none, metrics |-> none,
         step_ms |-> none, max_points |-> none, extremes |-> none]
          \in [v : nothing, op : ops, from : Numbers, to : Numbers, metrics : lists,
               step_ms : Numbers, max_points : Numbers, extremes : truths]
    BY <1>1, <1>4
  <1>6. QED BY <1>2, <1>3, <1>5 DEF nothing

LEMMA ResolveIs ==
  ASSUME NEW time \in TimesToAsk, NEW now \in Clock
  PROVE  Resolve(time, now) \in Nat
  <1>1. now \in Nat BY ClockAssumption
  <1>2. time.ms \in Nat BY DEF TimesToAsk
  <1>3. QED BY <1>1, <1>2 DEF Resolve

LEMMA ReadRequestIs ==
  ASSUME NEW read \in ReadSettings(SmqArguments), NEW now \in Clock
  PROVE  /\ ReadRequest(read, now) \in SmqObjects
         /\ ReadRequest(read, now).op = "read" /\ ReadRequest(read, now).v = Absent
         /\ ReadRequest(read, now).from =
              (IF read["--from"] = Absent THEN Absent ELSE Resolve(read["--from"], now))
         /\ ReadRequest(read, now).to =
              (IF read["--to"] = Absent THEN Absent ELSE Resolve(read["--to"], now))
         /\ ReadRequest(read, now).metrics =
              (IF read["--metric"] = << >> THEN Absent ELSE read["--metric"])
         /\ ReadRequest(read, now).step_ms = read["--step"]
         /\ ReadRequest(read, now).max_points = read["--points"]
         /\ ReadRequest(read, now).extremes = (IF read["--extremes"] THEN TRUE ELSE Absent)
  <1> DEFINE object == Object("read")
             from == IF read["--from"] = Absent THEN Absent ELSE Resolve(read["--from"], now)
             to == IF read["--to"] = Absent THEN Absent ELSE Resolve(read["--to"], now)
             metrics == IF read["--metric"] = << >> THEN Absent ELSE read["--metric"]
             extremes == IF read["--extremes"] THEN TRUE ELSE Absent
             step == read["--step"]
             points == read["--points"]
             made == [object EXCEPT !.from = from, !.to = to, !.metrics = metrics,
                                    !.step_ms = step, !.max_points = points,
                                    !.extremes = extremes]
             ops == PlainOps \cup {"read"}
             lists == {Absent} \cup Seq(SmqWords)
             truths == {Absent, TRUE}
             nothing == {Absent}
  <1>1. /\ read["--from"] \in {Absent} \cup TimesToAsk /\ read["--to"] \in {Absent} \cup TimesToAsk
        /\ read["--metric"] \in Seq(SmqWords) /\ step \in Numbers /\ points \in Numbers
        /\ read["--extremes"] \in BOOLEAN
    BY DEF ReadSettings, Numbers, SmqWords, SmqArguments
  <1>2. from \in Numbers /\ to \in Numbers BY <1>1, ResolveIs DEF Numbers
  <1>3. metrics \in lists BY <1>1
  <1>4. extremes \in truths
    <2>1. CASE read["--extremes"] BY <2>1
    <2>2. CASE ~read["--extremes"] BY <2>2
    <2>3. QED BY <2>1, <2>2
  <1>5. SmqObjects = [v : nothing, op : ops, from : Numbers, to : Numbers, metrics : lists,
                      step_ms : Numbers, max_points : Numbers, extremes : truths]
    BY DEF SmqObjects, Numbers
  <1>6. object \in SmqObjects BY ObjectIs
  <1>7. object.v = Absent /\ object.op = "read" BY DEF Object
  <1>8. ReadRequest(read, now) = made BY DEF ReadRequest
  <1> HIDE DEF object, from, to, metrics, extremes, step, points, ops, lists, truths, nothing
  <1>9. /\ made \in SmqObjects /\ made.v = Absent /\ made.op = "read" /\ made.from = from
        /\ made.to = to /\ made.metrics = metrics /\ made.step_ms = step
        /\ made.max_points = points /\ made.extremes = extremes
    BY <1>1, <1>2, <1>3, <1>4, <1>5, <1>6, <1>7
  <1> HIDE DEF made
  <1>10. QED BY <1>8, <1>9 DEF from, to, metrics, extremes, step, points

(* What smq sends by itself.                                               *)
LEMMA RequestIs ==
  ASSUME NEW made \in Commands(SmqArguments), NEW now \in Clock
  PROVE  \/ made.op = "raw" /\ RequestFor(made, now) \in {arg.json : arg \in SmqArguments}
         \/ made.op \in PlainOps /\ RequestFor(made, now) = Object(made.op)
         \/ /\ made.op = "read" /\ made.read \in ReadSettings(SmqArguments)
            /\ ~BadOptions(made.read) /\ RequestFor(made, now) = ReadRequest(made.read, now)
  <1>1. CASE made \in [op : {"raw"}, json : {arg.json : arg \in SmqArguments}]
    BY <1>1 DEF RequestFor
  <1>2. CASE made \in [op : PlainOps]
    <2>1. made.op \in PlainOps BY <1>2
    <2>2. made.op # "raw" /\ made.op # "read" BY <2>1 DEF PlainOps
    <2>3. QED BY <2>1, <2>2 DEF RequestFor
  <1>3. CASE made \in ReadCommands(SmqArguments)
    <2>1. /\ made \in [op : {"read"}, read : ReadSettings(SmqArguments)]
          /\ ~BadOptions(made.read)
      BY <1>3 DEF ReadCommands
    <2>2. made.op = "read" /\ made.read \in ReadSettings(SmqArguments) BY <2>1
    <2>3. QED BY <2>1, <2>2 DEF RequestFor
  <1>4. QED BY <1>1, <1>2, <1>3 DEF Commands

LEMMA SmqObjectIsTyped ==
  ASSUME NEW object \in SmqObjects
  PROVE  Typed(object) /\ object \notin NoObjects
  <1>1. /\ {object.from, object.to, object.step_ms, object.max_points} \subseteq Odd \cup Nat
        /\ object.metrics \in Odd \/ object.metrics \in Seq(SmqWords)
    BY DEF SmqObjects, Odd
  <1>2. object.metrics \in Seq(SmqWords) => object.metrics \in Seq(ToSet(object.metrics))
    BY DEF ToSet
  <1>3. QED BY <1>1, <1>2, OddAssumption DEF Typed

(* Nothing is understood but objects whose fields are of their types.      *)
LEMMA UnderstoodIsTyped ==
  ASSUME Exchange, Understood(request), pc = "answered" \/ command # Absent
  PROVE  Typed(request)
  <1>1. request \notin NoObjects BY UnderstoodIs
  <1>2. CASE request \in Texts BY <1>1, <1>2, TextsAssumption
  <1>3. CASE SentBySmq
    <2> DEFINE made == command.command
    <2>1. made \in Commands(SmqArguments) /\ command.now \in Clock
          /\ request = RequestFor(made, command.now)
      BY <1>3, CommandSentIs
    <2> HIDE DEF made
    <2>2. CASE request \in {arg.json : arg \in SmqArguments}
      BY <1>1, <2>2, TextsAssumption DEF SmqArguments
    <2>3. CASE made.op \in PlainOps /\ request = Object(made.op)
      BY <2>3, ObjectIs, SmqObjectIsTyped
    <2>4. CASE /\ made.read \in ReadSettings(SmqArguments)
               /\ request = ReadRequest(made.read, command.now)
      BY <2>1, <2>4, ReadRequestIs, SmqObjectIsTyped
    <2>5. QED BY <2>1, <2>2, <2>3, <2>4, RequestIs
  <1>4. QED BY <1>2, <1>3, SomebodySent

LEMMA ParamsAre ==
  ASSUME NEW object
  PROVE  LET optional(field) == IF Given(field) THEN field ELSE Absent IN
         /\ Params(object).from = optional(object.from) /\ Params(object).to = optional(object.to)
         /\ Params(object).metrics = optional(object.metrics)
         /\ Params(object).step = optional(object.step_ms)
         /\ Params(object).points = optional(object.max_points)
         /\ Params(object).extremes = (object.extremes = TRUE)
  BY DEF Params

LEMMA AskedSensibly == Exchange => StoreIsAskedSensibly
  <1> SUFFICES ASSUME Exchange, asked # Absent
      PROVE  /\ asked.from # Absent /\ asked.to # Absent => asked.from <= asked.to
             /\ ToSet(asked.columns) \subseteq 0 .. WidthFor(Len(daemon.interfaces)) - 1
             /\ IsInjective(asked.columns)
             /\ asked.step # 0
             /\ asked.points # Absent => asked.points >= 2
             /\ asked.step = Absent \/ asked.points = Absent
             /\ asked.extremes => asked.step # Absent \/ asked.points # Absent
    BY DEF StoreIsAskedSensibly
  <1> DEFINE params == Params(request)
  <1>1. /\ Understood(request) /\ request.op = "read"
        /\ ~Unknown(Schema, params.metrics) /\ asked = StoreCall(Schema, params)
    BY DEF Exchange, AskedForRequest
  <1>2. Typed(request)
    <2>1. pc \in {"answered", "done"} /\ (pc = "done" => command # Absent)
      BY DEF Exchange, PartsInOrder
    <2>2. QED BY <1>1, <2>1, UnderstoodIsTyped
  <1>3. /\ request.from # Junk /\ request.to # Junk
        /\ ~(Usable(request.from) /\ Usable(request.to) /\ request.from > request.to)
        /\ request.metrics # Junk
        /\ request.step_ms # Junk /\ request.max_points # Junk /\ request.step_ms # 0
        /\ ~(Given(request.step_ms) /\ Given(request.max_points))
        /\ Given(request.max_points) => request.max_points \in 2 .. MaxPoints
        /\ request.extremes = TRUE => Given(request.step_ms) \/ Given(request.max_points)
    BY <1>1, ReadIsChecked
  <1>4. /\ asked.from = params.from /\ asked.to = params.to
        /\ asked.columns = ResolveMetrics(Schema, params.metrics).columns
        /\ asked.step = params.step /\ asked.points = params.points
        /\ asked.extremes = params.extremes
    BY <1>1 DEF StoreCall
  <1>5. daemon # Absent
    BY DEF Exchange, PartsInOrder, DaemonIsSet
  <1>6. /\ daemon.interfaces \in Seq(InterfaceNames) /\ Schema \in Seq(ToSet(Schema))
        /\ Len(Schema) = WidthFor(Len(daemon.interfaces))
    <2>1. daemon.interfaces \in Seq(InterfaceNames)
      BY <1>5, DaemonIsGood DEF GoodConfig, InterfaceNames, DaemonWords
    <2>2. Len(Schema) = WidthFor(Len(daemon.interfaces)) BY <2>1, SchemaIs DEF Schema
    <2>3. Schema \in Seq(ToSet(Schema)) BY <2>1, SchemaIsSeq DEF Schema
    <2>4. QED BY <2>1, <2>2, <2>3
  <1>7. /\ asked.columns \in Seq(0 .. Len(Schema) - 1) /\ IsInjective(asked.columns)
    <2>1. params.metrics = Absent \/ params.metrics \in Seq(ToSet(params.metrics))
      BY <1>2, <1>3, ParamsAre DEF Typed, Odd, Given
    <2>2. QED BY <1>1, <1>4, <1>6, <2>1, MetricsAreResolved
  <1>8. ToSet(asked.columns) \subseteq 0 .. WidthFor(Len(daemon.interfaces)) - 1
    <2> DEFINE places == 0 .. Len(Schema) - 1
    <2>1. asked.columns \in Seq(places) BY <1>7
    <2> HIDE DEF places
    <2>2. ToSet(asked.columns) \subseteq places BY <2>1 DEF ToSet
    <2>3. QED BY <1>6, <2>2 DEF places
  <1>9. asked.from # Absent /\ asked.to # Absent => asked.from <= asked.to
    <2>1. SUFFICES ASSUME asked.from # Absent, asked.to # Absent PROVE asked.from <= asked.to
      OBVIOUS
    <2>2. Given(request.from) /\ asked.from = request.from BY <1>4, <2>1 DEF Params
    <2>3. Given(request.to) /\ asked.to = request.to BY <1>4, <2>1 DEF Params
    <2>4. request.from \in Nat /\ request.to \in Nat
      BY <1>2, <1>3, <2>2, <2>3 DEF Typed, Odd, Given
    <2>5. Usable(request.from) /\ Usable(request.to) BY <1>3, <2>2, <2>3 DEF Given, Usable
    <2>6. ~(request.from > request.to) BY <1>3, <2>5
    <2>7. QED BY <2>2, <2>3, <2>4, <2>6
  <1>10. asked.step # 0
    <2>1. asked.step = request.step_ms \/ asked.step = Absent BY <1>4 DEF Params
    <2>2. 0 # Absent BY AbsentAssumption
    <2>3. QED BY <1>3, <2>1, <2>2
  <1>11. asked.points # Absent => asked.points >= 2
    <2>1. SUFFICES ASSUME asked.points # Absent PROVE asked.points >= 2 OBVIOUS
    <2>2. Given(request.max_points) /\ asked.points = request.max_points BY <1>4, <2>1 DEF Params
    <2>3. request.max_points \in 2 .. MaxPoints /\ MaxPoints \in Nat
      BY <1>3, <2>2, LimitsAssumption
    <2>4. QED BY <2>2, <2>3
  <1>12. asked.step = Absent \/ asked.points = Absent BY <1>3, <1>4, ParamsAre
  <1>13. asked.extremes => asked.step # Absent \/ asked.points # Absent
    BY <1>3, <1>4, ParamsAre DEF Given
  <1>14. QED BY <1>7, <1>8, <1>9, <1>10, <1>11, <1>12, <1>13

(* Whoever asks, and whatever: the store is asked for what it can answer.  *)
THEOREM AlwaysAskedSensibly == Spec => []StoreIsAskedSensibly
  BY AlwaysExchange, AskedSensibly, PTL

-----------------------------------------------------------------------------
(* smq and the daemon understand each other.                               *)

(* Ages, the older one first, are times in order.                          *)
LEMMA AgesInOrder ==
  ASSUME NEW from \in TimesToAsk, NEW to \in TimesToAsk, NEW now \in Clock,
         from.ago, to.ago, from.ms >= to.ms
  PROVE  Resolve(from, now) <= Resolve(to, now)
  <1>1. now \in Nat BY ClockAssumption
  <1>2. from.ms \in Nat /\ to.ms \in Nat BY DEF TimesToAsk
  <1>3. Resolve(from, now) = IF from.ms > now THEN 0 ELSE now - from.ms BY DEF Resolve
  <1>4. Resolve(to, now) = IF to.ms > now THEN 0 ELSE now - to.ms BY DEF Resolve
  <1>5. QED BY <1>1, <1>2, <1>3, <1>4

(* The envelope of a request of smq's own is in order.                     *)
LEMMA EnvelopeIsGood ==
  ASSUME NEW object \in SmqObjects, NEW check \in ToSet(EnvelopeChecks(object))
  PROVE  ~check[1]
  <1>1. object.v = Absent /\ object.op \in PlainOps \cup {"read"} BY DEF SmqObjects
  <1>2. object.op # Absent BY <1>1, WordsAssumption
  <1>3. object.op \notin {Null, Junk} BY <1>1, OddAssumption DEF Odd
  <1>4. object.v \notin {Null, Junk} BY <1>1, OddAssumption
  <1>5. QED BY <1>1, <1>2, <1>3, <1>4, EnvelopeChecksAre

(* And so is the form of a request to read: what may be wrong is a value.  *)
ValueReasons == {"from after to", "points out of range", "too many names"}

LEMMA ReadIsGood ==
  ASSUME NEW read \in ReadSettings(SmqArguments), NEW now \in Clock, ~BadOptions(read),
         NEW object, object = ReadRequest(read, now),
         NEW check \in ToSet(Checks(object)), check[1]
  PROVE  /\ check[2] \in ValueReasons
         /\ check[2] = "from after to" =>
              ~(read["--from"].ago /\ read["--to"].ago /\ read["--from"].ms >= read["--to"].ms)
  <1>1. object \in SmqObjects /\ object.op = "read" BY ReadRequestIs
  <1>2. /\ object.from \in {Absent} \cup Nat /\ object.to \in {Absent} \cup Nat
        /\ object.metrics \in {Absent} \cup Seq(SmqWords)
        /\ object.step_ms \in {Absent} \cup Nat /\ object.max_points \in {Absent} \cup Nat
        /\ object.extremes \in {Absent, TRUE}
    BY <1>1 DEF SmqObjects
  <1>3. /\ Absent # Junk /\ Absent # Null /\ TRUE # Junk
        /\ \A n \in Nat : n # Junk /\ n # Null
        /\ \A words \in Seq(SmqWords) : words # Junk /\ words # Null /\ words # Absent
        /\ \A word \in SmqWords : word # Junk
    <2>1. /\ Odd \cap Nat = {} /\ Odd \cap BOOLEAN = {}
          /\ Odd \cap SmqWords = {} /\ Odd \cap Seq(SmqWords) = {}
      BY OddAssumption
    <2>2. {Absent, Null, Junk} = Odd BY DEF Odd
    <2>3. QED BY <2>1, <2>2, OddAssumption
  <1>4. /\ object.from =
             (IF read["--from"] = Absent THEN Absent ELSE Resolve(read["--from"], now))
        /\ object.to = (IF read["--to"] = Absent THEN Absent ELSE Resolve(read["--to"], now))
        /\ object.metrics = (IF read["--metric"] = << >> THEN Absent ELSE read["--metric"])
        /\ object.step_ms = read["--step"] /\ object.max_points = read["--points"]
        /\ object.extremes = (IF read["--extremes"] THEN TRUE ELSE Absent)
    BY ReadRequestIs
  <1>5. /\ read["--from"] \in {Absent} \cup TimesToAsk /\ read["--to"] \in {Absent} \cup TimesToAsk
        /\ read["--step"] \in {Absent} \cup (Nat \ {0}) /\ read["--points"] \in {Absent} \cup Nat
        /\ read["--extremes"] \in BOOLEAN /\ read["--metric"] \in Seq(SmqWords)
    BY DEF ReadSettings, SmqWords, SmqArguments
  <1>6. CASE check \in ToSet(EnvelopeChecks(object)) BY <1>1, <1>6, EnvelopeIsGood
  <1>7. CASE check \in ToSet(RangeChecks(object))
    <2>1. object.from # Junk /\ object.to # Junk BY <1>2, <1>3
    <2>2. /\ check[2] = "from after to"
          /\ Usable(object.from) /\ Usable(object.to) /\ object.from > object.to
      BY <1>7, <2>1, RangeChecksAre
    <2>3. /\ read["--from"] \in TimesToAsk /\ object.from = Resolve(read["--from"], now)
          /\ read["--to"] \in TimesToAsk /\ object.to = Resolve(read["--to"], now)
      BY <1>4, <1>5, <2>2 DEF Usable
    <2>4. object.from \in Nat /\ object.to \in Nat BY <2>3, ResolveIs
    <2>5. ~(object.from <= object.to)
      <3> DEFINE x == object.from
                 y == object.to
      <3>1. x > y /\ x \in Nat /\ y \in Nat BY <2>2, <2>4
      <3> HIDE DEF x, y
      <3>2. ~(x <= y) BY <3>1
      <3>3. QED BY <3>2 DEF x, y
    <2>6. ~(read["--from"].ago /\ read["--to"].ago /\ read["--from"].ms >= read["--to"].ms)
      BY <2>3, <2>5, AgesInOrder
    <2>7. QED BY <2>2, <2>6 DEF ValueReasons
  <1>8. CASE check \in ToSet(MetricsChecks(object.metrics))
    <2>1. object.metrics # Junk /\ object.metrics # << >>
      <3>1. << >> \in Seq(SmqWords) OBVIOUS
      <3>2. << >> # Absent BY <1>3, <3>1
      <3>3. QED BY <1>2, <1>3, <1>4, <3>2
    <2>2. ~(Usable(object.metrics) /\ \E i \in DOMAIN object.metrics : object.metrics[i] = Junk)
      <3>1. CASE object.metrics = Absent BY <3>1 DEF Usable
      <3>2. CASE object.metrics \in Seq(SmqWords)
        <4>1. \A i \in DOMAIN object.metrics : object.metrics[i] \in SmqWords BY <3>2
        <4>2. QED BY <1>3, <4>1
      <3>3. QED BY <1>2, <3>1, <3>2
    <2>3. check[2] = "too many names" BY <1>8, <2>1, <2>2, MetricsChecksAre
    <2>4. QED BY <2>3 DEF ValueReasons
  <1>9. CASE check \in ToSet(DownsampleChecks(object))
    <2>1. object.step_ms # Junk /\ object.max_points # Junk BY <1>2, <1>3
    <2>2. ~(Given(object.step_ms) /\ Given(object.max_points)) BY <1>4 DEF Given, BadOptions
    <2>3. object.step_ms # 0 BY <1>4, <1>5, AbsentAssumption
    <2>4. check[2] = "points out of range" BY <1>9, <2>1, <2>2, <2>3, DownsampleChecksAre
    <2>5. QED BY <2>4 DEF ValueReasons
  <1>10. CASE check \in ToSet(ExtremesChecks(object))
    <2>1. object.extremes # Junk BY <1>2, <1>3
    <2>2. ~(object.extremes = TRUE /\ ~Given(object.step_ms) /\ ~Given(object.max_points))
      <3>1. SUFFICES ASSUME object.extremes = TRUE, ~Given(object.step_ms), ~Given(object.max_points)
                     PROVE  FALSE
        OBVIOUS
      <3>2. object.step_ms = Absent /\ object.max_points = Absent BY <1>2, <1>3, <3>1 DEF Given
      <3>3. read["--extremes"]
        <4>1. Absent # TRUE
          <5>1. Odd \cap BOOLEAN = {} /\ Absent \in Odd BY OddAssumption DEF Odd
          <5>2. QED BY <5>1
        <4>2. QED BY <1>4, <1>5, <3>1, <4>1
      <3>4. QED BY <1>4, <3>2, <3>3 DEF BadOptions
    <2>3. QED BY <1>10, <2>1, <2>2, ExtremesChecksAre
  <1>11. QED BY <1>1, <1>6, <1>7, <1>8, <1>9, <1>10, ChecksAre

(* What smq sends by itself is refused for a value in it, or not at all.   *)
LEMMA RefusedForAValue ==
  ASSUME SentBySmq, command.command.op # "raw", Refusal(request) # Absent
  PROVE  LET read == command.command.read IN
         /\ command.command.op = "read" /\ Refusal(request) \in ValueReasons
         /\ Refusal(request) = "from after to" =>
              ~(read["--from"].ago /\ read["--to"].ago /\ read["--from"].ms >= read["--to"].ms)
  <1> DEFINE made == command.command
             now == command.now
  <1>1. made \in Commands(SmqArguments) /\ now \in Clock /\ request = RequestFor(made, now)
    BY CommandSentIs
  <1>2. made.op # "raw" /\ Refusal(request) # Absent OBVIOUS
  <1> HIDE DEF made, now
  <1>3. \/ made.op \in PlainOps /\ request = Object(made.op)
        \/ /\ made.op = "read" /\ made.read \in ReadSettings(SmqArguments)
           /\ ~BadOptions(made.read) /\ request = ReadRequest(made.read, now)
    BY <1>1, <1>2, RequestIs
  <1>4. request \in SmqObjects
    BY <1>1, <1>3, ObjectIs, ReadRequestIs
  <1>5. request \notin {TooLong, NotUtf8, NotJson, NotAnObject}
    BY <1>4, OddAssumption DEF NoObjects
  <1>6. PICK check \in ToSet(Checks(request)) : check[1] /\ Refusal(request) = check[2]
    BY <1>2, <1>5, RefusalIs
  <1>7. CASE made.op \in PlainOps /\ request = Object(made.op)
    <2>1. request.op = made.op BY <1>7 DEF Object
    <2>2. request.op # "read" BY <1>7, <2>1 DEF PlainOps
    <2>3. check \in ToSet(EnvelopeChecks(request)) BY <1>6, <2>2, ChecksAre
    <2>4. QED BY <1>4, <1>6, <2>3, EnvelopeIsGood
  <1>8. CASE /\ made.op = "read" /\ made.read \in ReadSettings(SmqArguments)
             /\ ~BadOptions(made.read) /\ request = ReadRequest(made.read, now)
    <2>1. /\ check[2] \in ValueReasons
          /\ check[2] = "from after to" =>
               ~(made.read["--from"].ago /\ made.read["--to"].ago
                 /\ made.read["--from"].ms >= made.read["--to"].ms)
      BY <1>1, <1>6, <1>8, ReadIsGood
    <2>2. QED BY <1>6, <1>8, <2>1 DEF made
  <1>9. QED BY <1>3, <1>7, <1>8

(* Other answers that are errors are the store's, or about a name.         *)
LEMMA ErrorsAre ==
  ASSUME Answered, ~reply.ok, ~Refused
  PROVE  request.op = "read" /\ reply.why \in {"unknown metric", "too many buckets"}
  <1>1. ASSUME AnsweredAtOnce PROVE FALSE
    <2>1. ASSUME NEW len PROVE InfoAnswer(daemon.interval, daemon.capacity, len, Schema).ok
      BY DEF InfoAnswer
    <2>2. MetricsAnswer(Schema).ok BY DEF MetricsAnswer
    <2>3. ASSUME NEW latest PROVE LatestAnswer(Schema, latest).ok
      <3>1. CASE latest = << >> BY <3>1 DEF LatestAnswer
      <3>2. CASE latest # << >> BY <3>2 DEF LatestAnswer
      <3>3. QED BY <3>1, <3>2
    <2>4. QED BY <1>1, <2>1, <2>2, <2>3 DEF AnsweredAtOnce, LatestAnswers
  <1>2. ASSUME reply \in ReadAnswers(asked) PROVE FALSE
    <2>1. ASSUME NEW names, NEW snapshot PROVE RawAnswer(names, snapshot).ok BY DEF RawAnswer
    <2>2. ASSUME NEW names, NEW result PROVE DownsampledAnswer(names, result).ok
      <3> DEFINE some == [ok |-> TRUE, step_ms |-> result.step, timestamps |-> result.timestamps,
                          series |-> Series(names, result.avg)]
                 more == IF "min" \in DOMAIN result
                           THEN [min |-> Series(names, result.min), max |-> Series(names, result.max)]
                           ELSE << >>
      <3>1. "ok" \in DOMAIN some /\ some.ok OBVIOUS
      <3> HIDE DEF some, more
      <3>2. Merged(some, more).ok BY <3>1 DEF Merged
      <3>3. QED BY <3>2 DEF DownsampledAnswer, some, more
    <2>3. QED BY <1>2, <2>1, <2>2, ReadAnswersAre
  <1>3. ASSUME NEW why PROVE Error(why).why = why BY DEF Error
  <1>4. \/ request.op = "read" /\ reply = Error("too many buckets")
        \/ request.op = "read" /\ reply = Error("unknown metric")
    BY <1>1, <1>2 DEF Answered, AnsweredByStore
  <1>5. QED BY <1>3, <1>4

(* An answer that is an error is about a value in the request.             *)
ErrorsAreAboutValues ==
  reply # Absent /\ command # Absent /\ command.command.op # "raw" /\ ~reply.ok =>
    /\ command.command.op = "read"
    /\ reply.why \in {"from after to", "points out of range", "too many names",
                      "unknown metric", "too many buckets"}
    /\ LET from == command.command.read["--from"]
           to == command.command.read["--to"]
       IN  reply.why = "from after to" => ~(from.ago /\ to.ago /\ from.ms >= to.ms)

LEMMA AnswersAreAboutValues == Exchange => ErrorsAreAboutValues
  <1> SUFFICES ASSUME Exchange, reply # Absent, command # Absent,
                      command.command.op # "raw", ~reply.ok
      PROVE  LET read == command.command.read IN
             /\ command.command.op = "read"
             /\ reply.why \in {"from after to", "points out of range", "too many names",
                               "unknown metric", "too many buckets"}
             /\ reply.why = "from after to" =>
                  ~(read["--from"].ago /\ read["--to"].ago /\ read["--from"].ms >= read["--to"].ms)
    BY DEF ErrorsAreAboutValues
  <1>1. Answered BY DEF Exchange, ReplyIsToRequest
  <1>2. SentBySmq BY SomebodySent
  <1>3. CASE Refused
    <2>1. Refusal(request) # Absent /\ reply.why = Refusal(request) BY <1>3 DEF Refused, Error
    <2>2. QED BY <1>2, <2>1, RefusedForAValue DEF ValueReasons
  <1>4. CASE ~Refused
    <2>1. request.op = "read" /\ reply.why \in {"unknown metric", "too many buckets"}
      BY <1>1, <1>4, ErrorsAre
    <2> DEFINE made == command.command
               now == command.now
    <2>2. made \in Commands(SmqArguments) /\ now \in Clock /\ request = RequestFor(made, now)
      BY <1>2, CommandSentIs
    <2>3. made.op # "raw" OBVIOUS
    <2> HIDE DEF made, now
    <2>4. request = Object(made.op) => made.op = "read"
      <3>1. Object(made.op).op = made.op BY DEF Object
      <3>2. QED BY <2>1, <3>1
    <2>5. made.op = "read" BY <2>2, <2>3, <2>4, RequestIs
    <2>6. QED BY <2>1, <2>5 DEF made
  <1>5. QED BY <1>3, <1>4

-----------------------------------------------------------------------------
(* A command line that begins with the word `read`.                        *)

ReadWordTaken(state, rest) ==
  state.result = Absent /\ state.wants = Absent /\ state.word = "read" /\ state.rest = rest

LEMMA ArgumentAfterRead ==
  ASSUME NEW X, NEW state \in SmqStates(X), NEW rest, ReadWordTaken(state, rest), NEW arg
  PROVE  ReadWordTaken(SmqArgument(state, arg), Append(rest, arg))
  <1>1. /\ state.result = Absent /\ state.wants = Absent /\ state.word = "read"
        /\ state.rest = rest
    BY DEF ReadWordTaken
  <1>2. "read" # Absent BY WordsAssumption
  <1>3. SmqArgument(state, arg) = [state EXCEPT !.rest = Append(state.rest, arg)]
    BY <1>1, <1>2 DEF SmqArgument
  <1>4. DOMAIN state = {"socket", "json", "word", "rest", "wants", "result"} BY DEF SmqStates
  <1>5. QED BY <1>1, <1>3, <1>4 DEF ReadWordTaken

LEMMA ReadIsTheCommand ==
  ASSUME NEW X, NEW args \in Seq(X), args # << >>, args[1].text = "read"
  PROVE  ReadWordTaken(FoldLeft(SmqArgument, SmqStart, args), Tail(args))
  <1> DEFINE n == Len(args)
             rest(k) == SubSeq(args, 2, k)
             last == FoldLeft(SmqArgument, SmqStart, args)
  <1>1. PICK t \in [0 .. n -> SmqStates(X)] :
          /\ t[0] = SmqStart /\ t[n] = last
          /\ \A k \in 1 .. n : t[k] = SmqArgument(t[k - 1], args[k])
    BY SmqStages
  <1>2. n \in Nat /\ n >= 1 OBVIOUS
  <1> DEFINE Good == {k \in 0 .. n : k = 0 \/ ReadWordTaken(t[k], rest(k))}
  <1>3. 0 \in Good BY <1>2
  <1>4. ReadWordTaken(t[1], rest(1))
    <2>1. t[1] = SmqArgument(SmqStart, args[1])
      <3>1. 1 \in 1 .. n /\ 1 - 1 = 0 BY <1>2
      <3>2. QED BY <1>1, <3>1
    <2>2. SmqArgument(SmqStart, args[1]) = [SmqStart EXCEPT !.word = "read"]
      <3> DEFINE arg == args[1]
      <3>1. arg.text = "read" OBVIOUS
      <3> HIDE DEF arg
      <3>2. SmqArgument(SmqStart, arg) = [SmqStart EXCEPT !.word = arg.text]
        BY <3>1 DEF SmqArgument, SmqStart, PlainOps
      <3>3. QED BY <3>1, <3>2 DEF arg
    <2>3. rest(1) = << >> BY <1>2
    <2>4. QED BY <2>1, <2>2, <2>3 DEF ReadWordTaken, SmqStart
  <1>5. \A k \in 1 .. n : k - 1 \in Good => k \in Good
    <2>1. SUFFICES ASSUME NEW k \in 1 .. n, k # 1, ReadWordTaken(t[k - 1], rest(k - 1))
                   PROVE  ReadWordTaken(t[k], rest(k))
      BY <1>2, <1>4
    <2>2. t[k] = SmqArgument(t[k - 1], args[k]) BY <1>1
    <2>3. rest(k) = Append(rest(k - 1), args[k]) BY <1>2, <2>1
    <2>4. k - 1 \in 0 .. n BY <1>2
    <2>5. t[k - 1] \in SmqStates(X) BY <1>1, <2>4
    <2> HIDE DEF rest
    <2>6. QED BY <2>1, <2>2, <2>3, <2>5, ArgumentAfterRead
  <1> HIDE DEF Good
  <1>6. \A k \in 0 .. n : k \in Good BY <1>2, <1>3, <1>5, InductionUpTo
  <1>7. ReadWordTaken(t[n], rest(n))
    <2>1. n \in Good /\ n # 0
      <3> HIDE DEF n
      <3>1. QED BY <1>2, <1>6
    <2>2. QED BY <2>1 DEF Good
  <1>8. rest(n) = Tail(args) OBVIOUS
  <1>9. QED BY <1>1, <1>7, <1>8

(* Options that don't go together would be refused as well.                *)
LEMMA BadOptionsAreRefused ==
  ASSUME NEW read \in ReadSettings(SmqArguments), NEW now \in Clock, BadOptions(read)
  PROVE  Refusal(ReadRequest(read, now)) # Absent
  <1> DEFINE object == ReadRequest(read, now)
  <1>1. object \in SmqObjects /\ object.op = "read" BY ReadRequestIs
  <1>2. /\ object.step_ms = read["--step"] /\ object.max_points = read["--points"]
        /\ object.extremes = (IF read["--extremes"] THEN TRUE ELSE Absent)
    BY ReadRequestIs
  <1>3. read["--step"] \in {Absent} \cup Nat /\ read["--points"] \in {Absent} \cup Nat
    BY DEF ReadSettings
  <1>4. Null \notin Nat BY OddAssumption DEF Odd
  <1> HIDE DEF object
  <1>5. \E check \in ToSet(DownsampleChecks(object)) \cup ToSet(ExtremesChecks(object)) : check[1]
    <2>1. CASE read["--step"] # Absent /\ read["--points"] # Absent
      <3>1. Given(object.step_ms) /\ Given(object.max_points) BY <1>2, <1>3, <1>4, <2>1 DEF Given
      <3>2. QED BY <3>1, DownsampleChecksFail
    <2>2. CASE read["--extremes"] /\ read["--step"] = Absent /\ read["--points"] = Absent
      <3>1. /\ object.extremes = TRUE
            /\ ~Given(object.step_ms) /\ ~Given(object.max_points)
        BY <1>2, <2>2 DEF Given
      <3>2. QED BY <3>1, ExtremesChecksFail
    <2>3. QED BY <2>1, <2>2 DEF BadOptions
  <1>6. \E check \in ToSet(Checks(object)) : check[1] BY <1>1, <1>5, ChecksAre
  <1>7. object \notin {TooLong, NotUtf8, NotJson, NotAnObject}
    BY <1>1, OddAssumption DEF NoObjects
  <1>8. QED BY <1>6, <1>7, RefusalIs DEF object

(* smq turns away only what the daemon would refuse.                       *)
OnlyBadOptionsAreTurnedAway ==
  pc = "done" /\ exit = 2 /\ line # << >> /\ line[1].text = "read" =>
    LET last == ReadOptions(Tail(line)) IN
    Ended(last) = Absent =>
      \A now \in Clock : Refusal(ReadRequest(last.read, now)) # Absent

LEMMA TurnedAwayRightly == Exchange => OnlyBadOptionsAreTurnedAway
  <1> DEFINE read == ReadOptions(Tail(line)).read
  <1> SUFFICES ASSUME Exchange, pc = "done", exit = 2, line # << >>, line[1].text = "read",
                      Ended(ReadOptions(Tail(line))) = Absent, NEW now \in Clock
      PROVE  Refusal(ReadRequest(read, now)) # Absent
    BY DEF OnlyBadOptionsAreTurnedAway
  <1>1. /\ line \in SmqLines
        /\ \/ "command" \notin DOMAIN ParseSmq(line)
           \/ "command" \in DOMAIN ParseSmq(line) /\ ParseSmq(line).command.op = "raw"
    BY DEF Exchange, StopIsCaused
  <1>2. line \in Seq(SmqArguments) BY <1>1, SmqLineIs
  <1>3. read \in ReadSettings(SmqArguments)
    <2>1. Tail(line) \in Seq(SmqArguments) BY <1>2
    <2>2. ReadOptions(Tail(line)) \in ReadStates(SmqArguments) BY <2>1, ReadOptionsTaken
    <2>3. QED BY <2>2 DEF ReadStates
  <1>4. ParseSmq(line) =
          LET last == FoldLeft(SmqArgument, SmqStart, line)
              made == CommandOf(last.word, last.rest)
          IN  IF Ended(last) # Absent THEN Ended(last)
              ELSE IF "error" \in DOMAIN made THEN made
              ELSE [socket |-> last.socket, json |-> last.json, command |-> made]
    BY DEF ParseSmq, SmqStart
  <1> DEFINE last == FoldLeft(SmqArgument, SmqStart, line)
             made == ParseRead(Tail(line))
  <1>5. ReadWordTaken(last, Tail(line)) BY <1>2, ReadIsTheCommand
  <1> HIDE DEF last
  <1>6. /\ Ended(last) = Absent /\ last.word = "read" /\ last.rest = Tail(line)
    BY <1>5 DEF ReadWordTaken, Ended
  <1>7. CommandOf(last.word, last.rest) = made
    <2>1. "read" # Absent BY WordsAssumption
    <2>2. QED BY <1>6, <2>1 DEF CommandOf, PlainOps
  <1> HIDE DEF made
  <1>8. ParseSmq(line) =
          IF "error" \in DOMAIN made THEN made
          ELSE [socket |-> last.socket, json |-> last.json, command |-> made]
    BY <1>4, <1>6, <1>7 DEF last
  <1>9. ASSUME ~BadOptions(read) PROVE FALSE
    <2>1. made = [op |-> "read", read |-> read] BY <1>9 DEF made, ParseRead
    <2> HIDE DEF read
    <2>2. "error" \notin DOMAIN made /\ made.op = "read" BY <2>1
    <2>3. ParseSmq(line) = [socket |-> last.socket, json |-> last.json, command |-> made]
      BY <1>8, <2>2
    <2>4. "command" \in DOMAIN ParseSmq(line) /\ ParseSmq(line).command = made BY <2>3
    <2>5. QED BY <1>1, <2>2, <2>4
  <1>10. QED BY <1>3, <1>9, BadOptionsAreRefused

(* The form of what smq sends is one that the daemon understands, and smq  *)
(* turns away only what the daemon would refuse.                           *)
THEOREM SmqAlwaysAgrees == Spec => []SmqAndDaemonAgree
  <1>1. Exchange => SmqAndDaemonAgree
    BY AnswersAreAboutValues, TurnedAwayRightly
    DEF SmqAndDaemonAgree, ErrorsAreAboutValues, OnlyBadOptionsAreTurnedAway
  <1>2. QED BY <1>1, AlwaysExchange, PTL

-----------------------------------------------------------------------------
(* The spelling of a command line.                                         *)

Word(text) == [text |-> text, flag |-> text, inline |-> Absent]

WordsApart(arg) == <<Word(arg.flag), Word(arg.inline)>>

AddWords(list, arg) == list \o WordsApart(arg)

Apart(args) == FoldLeft(AddWords, << >>, args)

(* The words that arguments are made of.                                   *)
ApartWords(X) == {Word(arg.flag) : arg \in X} \cup {Word(arg.inline) : arg \in X}

LEMMA WordsApartAre ==
  ASSUME NEW X, NEW arg \in X
  PROVE  /\ WordsApart(arg) \in Seq(ApartWords(X)) /\ Len(WordsApart(arg)) = 2
         /\ WordsApart(arg)[1] = Word(arg.flag) /\ WordsApart(arg)[2] = Word(arg.inline)
  <1> DEFINE W == ApartWords(X)
             a == Word(arg.flag)
             b == Word(arg.inline)
  <1>1. a \in W /\ b \in W BY DEF ApartWords
  <1> HIDE DEF W, a, b
  <1>2. /\ <<a, b>> \in Seq(W) /\ Len(<<a, b>>) = 2 /\ <<a, b>>[1] = a /\ <<a, b>>[2] = b
    BY <1>1
  <1>3. QED BY <1>2 DEF WordsApart, W, a, b

LEMMA AddWordsIs ==
  ASSUME NEW X, NEW list \in Seq(ApartWords(X)), NEW arg \in X
  PROVE  /\ AddWords(list, arg) \in Seq(ApartWords(X))
         /\ Len(AddWords(list, arg)) = Len(list) + 2
         /\ \A i \in 1 .. Len(list) : AddWords(list, arg)[i] = list[i]
         /\ AddWords(list, arg)[Len(list) + 1] = Word(arg.flag)
         /\ AddWords(list, arg)[Len(list) + 2] = Word(arg.inline)
  <1> DEFINE W == ApartWords(X)
             two == WordsApart(arg)
             l == Len(list)
             m == 2
  <1>1. two \in Seq(W) /\ Len(two) = m /\ two[1] = Word(arg.flag) /\ two[2] = Word(arg.inline)
    BY WordsApartAre
  <1>2. list \in Seq(W) /\ l \in Nat /\ Len(list) = l /\ m \in Nat /\ 1 \in 1 .. m /\ 2 \in 1 .. m
    OBVIOUS
  <1> HIDE DEF W, two, l, m
  <1>3. /\ list \o two \in Seq(W) /\ Len(list \o two) = l + m
        /\ \A i \in 1 .. l : (list \o two)[i] = list[i]
        /\ \A k \in 1 .. m : (list \o two)[l + k] = two[k]
    BY <1>1, <1>2, Joined
  <1>4. (list \o two)[l + 1] = two[1] /\ (list \o two)[l + 2] = two[2] BY <1>2, <1>3
  <1>5. AddWords(list, arg) = list \o two BY DEF AddWords, two
  <1>6. QED BY <1>1, <1>3, <1>4, <1>5 DEF W, l, m

(* They are put apart one by one.                                         *)
LEMMA ApartStages ==
  ASSUME NEW X, NEW args \in Seq(X)
  PROVE  \E t \in [0 .. Len(args) -> Seq(ApartWords(X))] :
           /\ t[0] = << >> /\ t[Len(args)] = Apart(args)
           /\ \A k \in 1 .. Len(args) : t[k] = AddWords(t[k - 1], args[k])
  <1> DEFINE S == Seq(ApartWords(X))
             n == Len(args)
             Is(it) == it = [T \in SUBSET (1 .. n) |->
                              IF T = {} THEN << >>
                              ELSE AddWords(it[T \ {Max(T)}], args[Max(T)])]
             fold == CHOOSE it : Is(it)
             t == [k \in 0 .. n |-> fold[1 .. k]]
  <1>1. << >> \in S OBVIOUS
  <1>2. n \in Nat /\ DOMAIN args = 1 .. n /\ \A k \in 1 .. n : args[k] \in X OBVIOUS
  <1>3. Apart(args) = fold[1 .. n]
    BY <1>2 DEF Apart, FoldLeft, MapThenFoldSet
  <1> HIDE DEF n
  <1>4. \E it : Is(it)
    <2> DEFINE g == [pair \in S \X X |-> AddWords(pair[1], pair[2])]
    <2>1. g \in [S \X X -> S] BY AddWordsIs
    <2>2. \A a \in S, b \in X : g[<<a, b>>] = AddWords(a, b) OBVIOUS
    <2> HIDE DEF g, S
    <2>3. PICK it \in [SUBSET (1 .. n) -> S] : FoldEquation(it, n, args, << >>, g)
      <3>1. << >> \in S BY <1>1 DEF S
      <3>2. QED BY <1>2, <2>1, <3>1, FoldExists
    <2>4. ASSUME NEW T \in SUBSET (1 .. n), T # {}
          PROVE  AddWords(it[T \ {Max(T)}], args[Max(T)])
                   = g[<<it[T \ {Max(T)}], args[Max(T)]>>]
      <3>1. Max(T) \in 1 .. n BY <1>2, <2>4, MaxUpTo
      <3>2. it[T \ {Max(T)}] \in S /\ args[Max(T)] \in X BY <1>2, <2>3, <3>1
      <3>3. QED BY <2>2, <3>2
    <2>5. Is(it) BY <2>3, <2>4 DEF FoldEquation
    <2>6. QED BY <2>5
  <1>5. Is(fold) BY <1>4
  <1> HIDE DEF fold
  <1>6. t[0] = << >>
    <2>1. 1 .. 0 = {} /\ {} \in SUBSET (1 .. n) /\ 0 \in 0 .. n BY <1>2
    <2>2. QED BY <1>5, <2>1
  <1>7. ASSUME NEW k \in 1 .. n PROVE t[k] = AddWords(t[k - 1], args[k])
    <2>1. /\ 1 .. k \in SUBSET (1 .. n) /\ 1 .. k # {}
          /\ Max(1 .. k) = k /\ (1 .. k) \ {Max(1 .. k)} = 1 .. k - 1
      BY <1>2, FirstItems
    <2>2. fold[1 .. k] = AddWords(fold[1 .. k - 1], args[k]) BY <1>5, <2>1
    <2>3. k \in 0 .. n /\ k - 1 \in 0 .. n BY <1>2
    <2>4. QED BY <2>2, <2>3
  <1>8. t[n] = Apart(args)
    <2>1. n \in 0 .. n BY <1>2
    <2>2. QED BY <1>3, <2>1
  <1>9. t = [k \in 0 .. n |-> t[k]] OBVIOUS
  <1> HIDE DEF t
  <1> DEFINE Good == {k \in 0 .. n : t[k] \in S}
  <1>10. 0 \in Good
    <2> HIDE DEF S
    <2>1. QED BY <1>2, <1>6, <1>1
  <1>11. \A k \in 1 .. n : k - 1 \in Good => k \in Good BY <1>2, <1>7, AddWordsIs
  <1> HIDE DEF Good, S
  <1>12. \A k \in 0 .. n : k \in Good BY <1>2, <1>10, <1>11, InductionUpTo
  <1>13. t \in [0 .. n -> S] BY <1>9, <1>12 DEF Good
  <1>14. QED BY <1>6, <1>7, <1>8, <1>13 DEF S, n

LEMMA ApartIs ==
  ASSUME NEW X, NEW args \in Seq(X)
  PROVE  /\ Apart(args) \in Seq(ApartWords(X)) /\ Len(Apart(args)) = 2 * Len(args)
         /\ \A k \in 1 .. Len(args) :
              /\ Apart(args)[2 * k - 1] = Word(args[k].flag)
              /\ Apart(args)[2 * k] = Word(args[k].inline)
  <1> DEFINE n == Len(args)
             W == ApartWords(X)
             Put(list, k) == list[2 * k - 1] = Word(args[k].flag)
                             /\ list[2 * k] = Word(args[k].inline)
  <1>1. n \in Nat /\ \A k \in 1 .. n : args[k] \in X OBVIOUS
  <1>2. PICK t \in [0 .. n -> Seq(W)] :
          /\ t[0] = << >> /\ t[n] = Apart(args)
          /\ \A k \in 1 .. n : t[k] = AddWords(t[k - 1], args[k])
    BY ApartStages
  <1> HIDE DEF n
  <1> DEFINE Good == {k \in 0 .. n : Len(t[k]) = 2 * k /\ \A j \in 1 .. n : j <= k => Put(t[k], j)}
  <1>3. 0 \in Good
    <2>1. Len(t[0]) = 2 * 0 BY <1>2
    <2>2. QED BY <1>1, <2>1
  <1>4. ASSUME NEW k \in 1 .. n, k - 1 \in Good PROVE k \in Good
    <2> DEFINE before == t[k - 1]
               after == t[k]
    <2>1. k - 1 \in 0 .. n /\ k \in 0 .. n BY <1>1
    <2>2. before \in Seq(W) BY <1>2, <2>1
    <2>3. /\ Len(before) = 2 * (k - 1) /\ \A j \in 1 .. n : j <= k - 1 => Put(before, j)
      BY <1>4
    <2>4. after = AddWords(before, args[k]) BY <1>2
    <2> HIDE DEF before, after
    <2>5. /\ Len(after) = Len(before) + 2
          /\ \A i \in 1 .. Len(before) : after[i] = before[i]
          /\ after[Len(before) + 1] = Word(args[k].flag)
          /\ after[Len(before) + 2] = Word(args[k].inline)
      <3> DEFINE arg == args[k]
      <3>1. arg \in X /\ after = AddWords(before, arg) BY <1>1, <2>4
      <3> HIDE DEF arg
      <3>2. /\ Len(after) = Len(before) + 2
            /\ \A i \in 1 .. Len(before) : after[i] = before[i]
            /\ after[Len(before) + 1] = Word(arg.flag)
            /\ after[Len(before) + 2] = Word(arg.inline)
        BY <2>2, <3>1, AddWordsIs
      <3>3. QED BY <3>2 DEF arg
    <2>6. Len(before) + 1 = 2 * k - 1 /\ Len(before) + 2 = 2 * k BY <1>1, <2>3
    <2>7. ASSUME NEW j \in 1 .. n, j <= k PROVE Put(after, j)
      <3>1. CASE j = k BY <2>5, <2>6, <3>1
      <3>2. CASE j # k
        <4>1. j <= k - 1 BY <1>1, <2>7, <3>2
        <4>2. 2 * j - 1 \in 1 .. Len(before) /\ 2 * j \in 1 .. Len(before)
          BY <1>1, <2>3, <4>1
        <4>3. after[2 * j - 1] = before[2 * j - 1] /\ after[2 * j] = before[2 * j]
          BY <2>5, <4>2
        <4>4. QED BY <2>3, <4>1, <4>3
      <3>3. QED BY <3>1, <3>2
    <2>8. Len(after) = 2 * k BY <2>5, <2>6
    <2> HIDE DEF Put
    <2>9. QED BY <2>1, <2>7, <2>8 DEF after
  <1> HIDE DEF Good
  <1>5. \A k \in 0 .. n : k \in Good BY <1>1, <1>3, <1>4, InductionUpTo
  <1>6. n \in 0 .. n BY <1>1
  <1>7. n \in Good BY <1>5, <1>6
  <1>8. /\ t[n] \in Seq(W) /\ Len(t[n]) = 2 * n /\ \A j \in 1 .. n : Put(t[n], j)
    BY <1>1, <1>2, <1>6, <1>7 DEF Good
  <1>9. QED BY <1>2, <1>8 DEF n

(* An option and its value, put apart, do what they do together.           *)
LEMMA TwoWordsAreOne ==
  ASSUME NEW words, NEW state \in SettingStates(words), state.wants = Absent,
         NEW arg, arg.flag # Absent, arg.inline # Absent
  PROVE  /\ ReadArgument(ReadArgument(state, Word(arg.flag)), Word(arg.inline))
              = ReadArgument(state, arg)
         /\ ReadArgument(state, arg).wants = Absent
  <1> DEFINE one == Word(arg.flag)
             two == Word(arg.inline)
  <1>1. /\ one.flag = arg.flag /\ one.inline = Absent /\ two.text = arg.inline BY DEF Word
  <1>2. SettingStates(words) =
          [settings : SettingsOf(words), wants : SettingWants, result : SettingEnds]
    BY DEF SettingStates
  <1> HIDE DEF one, two
  <1>3. CASE state.result # Absent
    <2>1. ReadArgument(state, one) = state /\ ReadArgument(state, two) = state
          /\ ReadArgument(state, arg) = state
      BY <1>3 DEF ReadArgument
    <2>2. QED BY <2>1 DEF one, two
  <1>4. CASE state.result = Absent /\ arg.flag \notin Options
    <2> DEFINE other == OtherArgument(state, arg)
    <2>1. ReadArgument(state, arg) = other BY <1>4 DEF ReadArgument
    <2>2. ReadArgument(state, one) = other BY <1>1, <1>4 DEF ReadArgument, OtherArgument
    <2>3. other.result # Absent BY OtherArgumentIs
    <2>4. other.wants = state.wants
      <3>1. ASSUME NEW end PROVE [state EXCEPT !.result = end].wants = state.wants BY <1>2
      <3>2. QED BY <3>1 DEF OtherArgument
    <2> HIDE DEF other
    <2>5. ReadArgument(other, two) = other BY <2>3 DEF ReadArgument
    <2>6. QED BY <2>1, <2>2, <2>4, <2>5 DEF one, two
  <1>5. CASE state.result = Absent /\ arg.flag \in Options
    <2> DEFINE waits == [state EXCEPT !.wants = arg.flag]
               set == SetOption(state, arg.flag, arg.inline)
    <2>1. ReadArgument(state, arg) = set BY <1>5 DEF ReadArgument
    <2>2. ReadArgument(state, one) = waits BY <1>1, <1>5 DEF ReadArgument
    <2>3. waits.wants = arg.flag /\ waits.result = Absent BY <1>2, <1>5
    <2>4. [waits EXCEPT !.wants = Absent] = state
      <3> DEFINE back == [waits EXCEPT !.wants = Absent]
                 fields == {"settings", "wants", "result"}
      <3>1. state = [field \in fields |-> state[field]] BY <1>2
      <3>2. waits = [field \in fields |-> IF field = "wants" THEN arg.flag ELSE state[field]]
        BY <3>1
      <3>3. back = [field \in fields |-> IF field = "wants" THEN Absent ELSE waits[field]]
        BY <3>2
      <3>4. ASSUME NEW field \in fields PROVE back[field] = state[field] BY <3>2, <3>3
      <3>5. QED BY <3>1, <3>3, <3>4
    <2>5. set.wants = state.wants
      <3>1. ASSUME NEW end, NEW settings
            PROVE  /\ [state EXCEPT !.result = end].wants = state.wants
                   /\ [state EXCEPT !.settings = settings].wants = state.wants
        BY <1>2
      <3>2. ASSUME NEW option, NEW value
            PROVE  [state EXCEPT !.settings[option] = value].wants = state.wants
        BY <1>2
      <3>3. QED BY <3>1, <3>2 DEF SetOption
    <2> HIDE DEF waits, set
    <2>6. ReadArgument(waits, two) =
            SetOption([waits EXCEPT !.wants = Absent], waits.wants, two.text)
      BY <2>3 DEF ReadArgument
    <2>7. ReadArgument(waits, two) = set BY <1>1, <2>3, <2>4, <2>6 DEF set
    <2>8. QED BY <2>1, <2>2, <2>5, <2>7 DEF one, two
  <1>6. QED BY <1>3, <1>4, <1>5

(* A command line in which every option has its value with it.             *)
Whole(args) ==
  /\ args \in Seq(ToSet(args))
  /\ \A arg \in ToSet(args) : arg.text # Absent /\ arg.flag # Absent /\ arg.inline # Absent

LEMMA WholeIs ==
  ASSUME NEW args \in DaemonLines, \A i \in DOMAIN args : args[i].inline # Absent
  PROVE  Whole(args)
  <1>1. args \in Seq(ToSet(args)) BY LinesAssumption
  <1>2. ToSet(args) \subseteq ArgumentsOf(DaemonLines) BY DEF ArgumentsOf
  <1>3. \A arg \in ToSet(args) : arg.text # Absent /\ arg.flag # Absent BY <1>2, LinesAssumption
  <1>4. \A arg \in ToSet(args) : arg.inline # Absent BY DEF ToSet
  <1>5. QED BY <1>1, <1>3, <1>4 DEF Whole

LEMMA ApartIsTheSame ==
  ASSUME NEW args, Whole(args)
  PROVE  FoldLeft(ReadArgument, SettingStart, Apart(args))
           = FoldLeft(ReadArgument, SettingStart, args)
  <1> DEFINE X == ToSet(args)
             W == ApartWords(X)
             apart == Apart(args)
             n == Len(args)
  <1>1. /\ args \in Seq(X)
        /\ \A arg \in X : arg.text # Absent /\ arg.flag # Absent /\ arg.inline # Absent
    BY DEF Whole
  <1> HIDE DEF X
  <1>2. n \in Nat /\ \A k \in 1 .. n : args[k] \in X BY <1>1
  <1>3. /\ apart \in Seq(W) /\ Len(apart) = 2 * n
        /\ \A k \in 1 .. n : /\ apart[2 * k - 1] = Word(args[k].flag)
                             /\ apart[2 * k] = Word(args[k].inline)
    BY <1>1, ApartIs
  <1>4. \A word \in W : word.text # Absent BY <1>1 DEF ApartWords, Word
  <1> HIDE DEF W
  <1>5. PICK t \in [0 .. n -> SettingStates(WordsOf(X))] :
          /\ t[0] = SettingStart /\ t[n] = FoldLeft(ReadArgument, SettingStart, args)
          /\ \A k \in 1 .. n : t[k] = ReadArgument(t[k - 1], args[k])
    BY <1>1, SettingStages
  <1>6. PICK u \in [0 .. Len(apart) -> SettingStates(WordsOf(W))] :
          /\ u[0] = SettingStart
          /\ u[Len(apart)] = FoldLeft(ReadArgument, SettingStart, apart)
          /\ \A k \in 1 .. Len(apart) : u[k] = ReadArgument(u[k - 1], apart[k])
    BY <1>3, <1>4, SettingStages
  <1> HIDE DEF n, apart
  <1> DEFINE Good == {k \in 0 .. n : u[2 * k] = t[k] /\ t[k].wants = Absent}
  <1>7. 0 \in Good
    <2>1. u[2 * 0] = t[0] BY <1>5, <1>6
    <2>2. t[0].wants = Absent BY <1>5 DEF SettingStart
    <2>3. QED BY <1>2, <2>1, <2>2
  <1>8. ASSUME NEW k \in 1 .. n, k - 1 \in Good PROVE k \in Good
    <2>1. /\ k - 1 \in 0 .. n /\ k \in 0 .. n /\ 2 * k - 1 \in 1 .. 2 * n /\ 2 * k \in 1 .. 2 * n
          /\ (2 * k - 1) - 1 = 2 * (k - 1)
      BY <1>2
    <2>2. u[2 * (k - 1)] = t[k - 1] /\ t[k - 1].wants = Absent BY <1>8
    <2>3. u[2 * k - 1] = ReadArgument(t[k - 1], Word(args[k].flag))
      BY <1>3, <1>6, <2>1, <2>2
    <2>4. u[2 * k] = ReadArgument(u[2 * k - 1], Word(args[k].inline)) BY <1>3, <1>6, <2>1
    <2>5. t[k - 1] \in SettingStates(WordsOf(X)) BY <1>5, <2>1
    <2>6. args[k].flag # Absent /\ args[k].inline # Absent BY <1>1, <1>2
    <2>7. /\ ReadArgument(ReadArgument(t[k - 1], Word(args[k].flag)), Word(args[k].inline))
               = ReadArgument(t[k - 1], args[k])
          /\ ReadArgument(t[k - 1], args[k]).wants = Absent
      BY <2>2, <2>5, <2>6, TwoWordsAreOne
    <2>8. t[k] = ReadArgument(t[k - 1], args[k]) BY <1>5
    <2>9. QED BY <2>1, <2>3, <2>4, <2>7, <2>8
  <1> HIDE DEF Good
  <1>9. \A k \in 0 .. n : k \in Good BY <1>2, <1>7, <1>8, InductionUpTo
  <1>10. n \in Good BY <1>2, <1>9
  <1>11. u[2 * n] = t[n] BY <1>10 DEF Good
  <1>12. QED BY <1>3, <1>5, <1>6, <1>11 DEF apart

-----------------------------------------------------------------------------
(* The order of the options.                                               *)

(* These are the settings that the arguments ask for, each for its own.    *)
SetBy(settings, arguments) ==
  \A option \in Options :
    /\ \A arg \in arguments :
         arg.flag = option => settings[option] = ValueOf(Defaults, option, arg.inline)
    /\ (\A arg \in arguments : arg.flag # option) => settings[option] = Defaults[option]

Fine(arg) == arg.flag \in Options /\ ValueProblem(Defaults, arg.flag, arg.inline) = Absent

LEMMA OneMoreSet ==
  ASSUME NEW words, NEW state \in SettingStates(words), NEW arguments,
         state.result = Absent, state.wants = Absent, SetBy(state.settings, arguments),
         NEW arg, arg.inline # Absent, \A other \in arguments : other.flag # arg.flag
  PROVE  /\ ~Fine(arg) => ReadArgument(state, arg).result # Absent
         /\ Fine(arg) => /\ ReadArgument(state, arg).result = Absent
                         /\ ReadArgument(state, arg).wants = Absent
                         /\ SetBy(ReadArgument(state, arg).settings, arguments \cup {arg})
  <1> DEFINE option == arg.flag
             text == arg.inline
             settings == state.settings
  <1>1. SettingStates(words) =
          [settings : SettingsOf(words), wants : SettingWants, result : SettingEnds]
    BY DEF SettingStates
  <1>2. CASE option \notin Options
    <2>1. ReadArgument(state, arg) = OtherArgument(state, arg) BY <1>2 DEF ReadArgument
    <2>2. QED BY <1>2, <2>1, OtherArgumentIs DEF Fine
  <1>3. CASE option \in Options
    <2>1. ReadArgument(state, arg) = SetOption(state, option, text) BY <1>3 DEF ReadArgument
    <2>2. settings \in [Options -> ValuesOf(words)] BY <1>1 DEF SettingsOf
    <2>3. settings[option] = Defaults[option] BY <1>3 DEF SetBy
    <2>4. /\ ValueProblem(settings, option, text) = ValueProblem(Defaults, option, text)
          /\ ValueOf(settings, option, text) = ValueOf(Defaults, option, text)
      BY <2>3 DEF ValueProblem, ValueOf
    <2> DEFINE problem == ValueProblem(Defaults, option, text)
               value == ValueOf(Defaults, option, text)
               given == [settings EXCEPT ![option] = value]
    <2>5. SetOption(state, option, text) =
            IF problem # Absent THEN [state EXCEPT !.result = [error |-> problem]]
            ELSE [state EXCEPT !.settings = given]
      <3>1. [state EXCEPT !.settings[option] = value] = [state EXCEPT !.settings = given]
        BY <1>1
      <3>2. QED BY <2>4, <3>1 DEF SetOption
    <2>6. Fine(arg) <=> problem = Absent BY <1>3 DEF Fine
    <2>7. problem \in {Absent} \cup Problems
      <3>1. DurationProblem(text) \in {Absent} \cup Problems BY DurationIs
      <3>2. {"no permission bits", "no usable name", "given more than once"} \subseteq Problems
        BY DEF Problems
      <3>3. QED BY <3>1, <3>2 DEF ValueProblem, Times
    <2>8. \A why \in Problems : [error |-> why] # Absent
      <3>1. \A why \in Problems : [error |-> why] \in Endings
        <4>1. TAKE why \in Problems
        <4> DEFINE P == Problems \cup {"unknown argument", "unknown read option", "missing value"}
        <4>2. why \in P OBVIOUS
        <4> HIDE DEF P
        <4>3. [error |-> why] \in [error : P] BY <4>2
        <4>4. QED BY <4>3 DEF P, Endings
      <3>2. QED BY <3>1, AbsentAssumption
    <2>9. given[option] = value /\ \A other \in Options \ {option} : given[other] = settings[other]
      BY <1>3, <2>2
    <2>10. SetBy(given, arguments \cup {arg}) BY <2>9 DEF SetBy
    <2> HIDE DEF problem, given
    <2>11. CASE problem # Absent BY <1>1, <2>1, <2>5, <2>6, <2>7, <2>8, <2>11
    <2>12. CASE problem = Absent
      <3>1. ReadArgument(state, arg) = [state EXCEPT !.settings = given] BY <2>1, <2>5, <2>12
      <3>2. [state EXCEPT !.settings = given].settings = given
            /\ [state EXCEPT !.settings = given].result = Absent
            /\ [state EXCEPT !.settings = given].wants = Absent
        BY <1>1
      <3>3. QED BY <2>6, <2>10, <2>12, <3>1, <3>2
    <2>13. QED BY <2>11, <2>12
  <1>4. QED BY <1>2, <1>3

(* The stages of a line where each option has its value.                   *)
LEMMA WholeStages ==
  ASSUME NEW args, Whole(args)
  PROVE  \E t \in [0 .. Len(args) -> SettingStates(WordsOf(ToSet(args)))] :
           /\ t[0] = SettingStart /\ t[Len(args)] = FoldLeft(ReadArgument, SettingStart, args)
           /\ \A k \in 1 .. Len(args) : t[k] = ReadArgument(t[k - 1], args[k])
  <1> DEFINE X == ToSet(args)
  <1>1. args \in Seq(X) /\ \A arg \in X : arg.text # Absent BY DEF Whole
  <1> HIDE DEF X
  <1>2. \E t \in [0 .. Len(args) -> SettingStates(WordsOf(X))] :
           /\ t[0] = SettingStart /\ t[Len(args)] = FoldLeft(ReadArgument, SettingStart, args)
           /\ \A k \in 1 .. Len(args) : t[k] = ReadArgument(t[k - 1], args[k])
    BY <1>1, SettingStages
  <1>3. QED BY <1>2 DEF X

(* Different options, each with its value, are set all if all are fine.    *)
LEMMA AllAreSet ==
  ASSUME NEW args, Whole(args),
         \A i, j \in 1 .. Len(args) : args[i].flag = args[j].flag => i = j
  PROVE  LET last == FoldLeft(ReadArgument, SettingStart, args) IN
         /\ last \in SettingStates(WordsOf(ToSet(args)))
         /\ (\E arg \in ToSet(args) : ~Fine(arg)) => last.result # Absent
         /\ (\A arg \in ToSet(args) : Fine(arg)) =>
              /\ last.result = Absent /\ last.wants = Absent
              /\ SetBy(last.settings, ToSet(args))
  <1> DEFINE X == ToSet(args)
             n == Len(args)
             last == FoldLeft(ReadArgument, SettingStart, args)
             first(k) == {args[i] : i \in {j \in 1 .. n : j <= k}}
             Is(state, some) ==
               /\ (\E arg \in some : ~Fine(arg)) => state.result # Absent
               /\ (\A arg \in some : Fine(arg)) =>
                    /\ state.result = Absent /\ state.wants = Absent
                    /\ SetBy(state.settings, some)
  <1>1. /\ args \in Seq(X)
        /\ \A arg \in X : arg.text # Absent /\ arg.flag # Absent /\ arg.inline # Absent
    BY DEF Whole
  <1>2. n \in Nat /\ X = {args[i] : i \in 1 .. n} BY <1>1 DEF ToSet
  <1> HIDE DEF X
  <1>3. PICK t \in [0 .. n -> SettingStates(WordsOf(X))] :
          /\ t[0] = SettingStart /\ t[n] = last
          /\ \A k \in 1 .. n : t[k] = ReadArgument(t[k - 1], args[k])
    BY WholeStages DEF X
  <1>4. \A i, j \in 1 .. n : args[i].flag = args[j].flag => i = j OBVIOUS
  <1> HIDE DEF n, last
  <1> DEFINE Good == {k \in 0 .. n : Is(t[k], first(k))}
  <1>5. 0 \in Good
    <2>1. first(0) = {} OBVIOUS
    <2>2. t[0].result = Absent /\ t[0].wants = Absent /\ t[0].settings = Defaults
      BY <1>3 DEF SettingStart
    <2>3. SetBy(t[0].settings, first(0)) BY <2>1, <2>2 DEF SetBy
    <2>4. 0 \in 0 .. n BY <1>2
    <2> HIDE DEF first
    <2>5. Is(t[0], first(0)) BY <2>1, <2>2, <2>3
    <2>6. QED BY <2>4, <2>5
  <1>6. ASSUME NEW k \in 1 .. n, k - 1 \in Good PROVE k \in Good
    <2> DEFINE state == t[k - 1]
               some == first(k - 1)
               arg == args[k]
    <2>1. k - 1 \in 0 .. n /\ k \in 0 .. n BY <1>2
    <2>2. Is(state, some) BY <1>6
    <2>3. t[k] = ReadArgument(state, arg) /\ state \in SettingStates(WordsOf(X)) BY <1>3, <2>1
    <2>4. first(k) = some \cup {arg}
      <3>1. {j \in 1 .. n : j <= k} = {j \in 1 .. n : j <= k - 1} \cup {k} BY <1>2
      <3>2. QED BY <3>1
    <2>5. \A other \in some : other.flag # arg.flag
      <3>1. TAKE other \in some
      <3>2. PICK i \in 1 .. n : i <= k - 1 /\ other = args[i] OBVIOUS
      <3>3. i # k BY <1>2, <3>2
      <3>4. QED BY <1>4, <3>2, <3>3
    <2>6. arg.inline # Absent BY <1>1, <1>2
    <2> HIDE DEF some, state, arg, first
    <2>7. CASE state.result # Absent
      <3>1. t[k] = state BY <2>3, <2>7 DEF ReadArgument
      <3>2. \E other \in some : ~Fine(other) BY <2>2, <2>7
      <3>3. QED BY <2>1, <2>4, <2>7, <3>1, <3>2
    <2>8. CASE state.result = Absent
      <3>1. \A other \in some : Fine(other) BY <2>2, <2>8
      <3>2. state.wants = Absent /\ SetBy(state.settings, some) BY <2>2, <3>1
      <3>3. /\ ~Fine(arg) => t[k].result # Absent
            /\ Fine(arg) => /\ t[k].result = Absent /\ t[k].wants = Absent
                            /\ SetBy(t[k].settings, some \cup {arg})
        BY <2>3, <2>5, <2>6, <2>8, <3>2, OneMoreSet
      <3>4. QED BY <2>1, <2>4, <3>1, <3>3
    <2>9. QED BY <2>7, <2>8
  <1> HIDE DEF Good
  <1>7. \A k \in 0 .. n : k \in Good BY <1>2, <1>5, <1>6, InductionUpTo
  <1>8. n \in Good /\ n \in 0 .. n BY <1>2, <1>7
  <1>9. first(n) = X
    <2>1. {j \in 1 .. n : j <= n} = 1 .. n BY <1>2
    <2>2. QED BY <1>2, <2>1
  <1>10. Is(last, X) BY <1>3, <1>8, <1>9 DEF Good
  <1>11. last \in SettingStates(WordsOf(X)) BY <1>3, <1>8
  <1>12. QED BY <1>10, <1>11 DEF X, last

LEMMA SetByIsOne ==
  ASSUME NEW words, NEW r \in SettingsOf(words), NEW s \in SettingsOf(words), NEW arguments,
         SetBy(r, arguments), SetBy(s, arguments)
  PROVE  r = s
  <1>1. r \in [Options -> ValuesOf(words)] /\ s \in [Options -> ValuesOf(words)] BY DEF SettingsOf
  <1>2. ASSUME NEW option \in Options PROVE r[option] = s[option]
    <2>1. CASE \E arg \in arguments : arg.flag = option BY <2>1 DEF SetBy
    <2>2. CASE \A arg \in arguments : arg.flag # option BY <2>2 DEF SetBy
    <2>3. QED BY <2>1, <2>2
  <1>3. QED BY <1>1, <1>2

(* The line backwards has the same arguments.                              *)
LEMMA ReverseIs ==
  ASSUME NEW args, Whole(args),
         \A i, j \in 1 .. Len(args) : args[i].flag = args[j].flag => i = j
  PROVE  /\ Whole(Reverse(args)) /\ ToSet(Reverse(args)) = ToSet(args)
         /\ \A i, j \in 1 .. Len(Reverse(args)) :
              Reverse(args)[i].flag = Reverse(args)[j].flag => i = j
  <1> DEFINE X == ToSet(args)
             n == Len(args)
             back == Reverse(args)
  <1>1. /\ args \in Seq(X)
        /\ \A arg \in X : arg.text # Absent /\ arg.flag # Absent /\ arg.inline # Absent
    BY DEF Whole
  <1>2. n \in Nat /\ X = {args[i] : i \in 1 .. n} BY <1>1 DEF ToSet
  <1>3. \A i, j \in 1 .. n : args[i].flag = args[j].flag => i = j OBVIOUS
  <1>4. back = [i \in 1 .. n |-> args[(n - i) + 1]] BY DEF Reverse
  <1> HIDE DEF X, n, back
  <1>5. \A i \in 1 .. n : (n - i) + 1 \in 1 .. n /\ (n - ((n - i) + 1)) + 1 = i BY <1>2
  <1>6. back \in [1 .. n -> X] BY <1>2, <1>4, <1>5
  <1>7. back \in Seq(X) /\ Len(back) = n BY <1>2, <1>6
  <1>8. ToSet(back) = {back[i] : i \in 1 .. n} BY <1>7 DEF ToSet
  <1>9. ToSet(back) = X
    <2>1. ASSUME NEW i \in 1 .. n PROVE args[i] \in ToSet(back)
      <3> DEFINE k == (n - i) + 1
      <3>1. k \in 1 .. n /\ (n - k) + 1 = i BY <1>5
      <3> HIDE DEF k
      <3>2. back[k] = args[i] BY <1>4, <3>1
      <3>3. QED BY <1>8, <3>1, <3>2
    <2>2. QED BY <1>2, <1>6, <1>8, <2>1
  <1>10. ASSUME NEW i \in 1 .. n, NEW j \in 1 .. n, back[i].flag = back[j].flag PROVE i = j
    <2>1. (n - i) + 1 = (n - j) + 1 BY <1>3, <1>4, <1>5, <1>10
    <2>2. QED BY <1>2, <2>1
  <1>11. Whole(back) BY <1>1, <1>7, <1>9 DEF Whole
  <1>12. QED BY <1>7, <1>9, <1>10, <1>11 DEF X, back

(* There is a config and nothing else, or none.                            *)
LEMMA ConfigOnly ==
  ASSUME NEW settings, "config" \in DOMAIN Finished(settings)
  PROVE  Finished(settings) = [config |-> Finished(settings).config]
  <1> DEFINE made == Finished(settings)
             none == [error |-> "too large"]
  <1>1. (\E config : made = [config |-> config]) \/ made = none BY DEF Finished
  <1>2. "config" \in DOMAIN made OBVIOUS
  <1>3. "config" \notin DOMAIN none OBVIOUS
  <1> HIDE DEF made, none
  <1>4. made # none BY <1>2, <1>3
  <1>5. PICK config : made = [config |-> config] BY <1>1, <1>4
  <1>6. made.config = config BY <1>5
  <1>7. QED BY <1>5, <1>6 DEF made

LEMMA SpelledAsMeant == Exchange => SpellingDoesNotMatter
  <1> SUFFICES ASSUME Exchange, pc = "launched", \A i \in DOMAIN line : line[i].inline # Absent
      PROVE  /\ ParseSettings(Apart(line)) = ParseSettings(line)
             /\ daemon # Absent /\ IsInjective([i \in DOMAIN line |-> line[i].flag]) =>
                  ParseSettings(Reverse(line)) = [config |-> daemon]
    BY DEF SpellingDoesNotMatter, Apart, AddWords, WordsApart, Word
  <1>1. line \in DaemonLines /\ daemon = ConfigOf(line) BY DEF Exchange, DaemonIsSet
  <1>2. Whole(line) BY <1>1, WholeIs
  <1>3. ASSUME NEW args
        PROVE  ParseSettings(args) =
                 LET last == FoldLeft(ReadArgument, SettingStart, args) IN
                 IF Ended(last) # Absent THEN Ended(last) ELSE Finished(last.settings)
    BY DEF ParseSettings, SettingStart
  <1>4. ParseSettings(Apart(line)) = ParseSettings(line) BY <1>2, <1>3, ApartIsTheSame
  <1>5. ASSUME daemon # Absent, IsInjective([i \in DOMAIN line |-> line[i].flag])
        PROVE  ParseSettings(Reverse(line)) = [config |-> daemon]
    <2> DEFINE X == ToSet(line)
               back == Reverse(line)
               here == FoldLeft(ReadArgument, SettingStart, line)
               there == FoldLeft(ReadArgument, SettingStart, back)
    <2>1. \A i, j \in 1 .. Len(line) : line[i].flag = line[j].flag => i = j
      <3>1. DOMAIN line = 1 .. Len(line) BY <1>2 DEF Whole
      <3>2. QED BY <1>5, <3>1 DEF IsInjective
    <2>2. /\ Whole(back) /\ ToSet(back) = X
          /\ \A i, j \in 1 .. Len(back) : back[i].flag = back[j].flag => i = j
      BY <1>2, <2>1, ReverseIs
    <2>3. /\ Ended(here) = Absent /\ "config" \in DOMAIN Finished(here.settings)
          /\ daemon = Finished(here.settings).config
      BY <1>1, <1>5, ConfigMade
    <2>4. /\ here \in SettingStates(WordsOf(X))
          /\ (\E arg \in X : ~Fine(arg)) => here.result # Absent
          /\ (\A arg \in X : Fine(arg)) => SetBy(here.settings, X)
      BY <1>2, <2>1, AllAreSet
    <2>5. /\ there \in SettingStates(WordsOf(X))
          /\ (\A arg \in X : Fine(arg)) =>
               there.result = Absent /\ there.wants = Absent /\ SetBy(there.settings, X)
      BY <2>2, AllAreSet
    <2> HIDE DEF X, back, here, there
    <2>6. here.result = Absent BY <2>3 DEF Ended
    <2>7. there.result = Absent /\ there.wants = Absent /\ there.settings = here.settings
      <3>1. \A arg \in X : Fine(arg) BY <2>4, <2>6
      <3>2. /\ here.settings \in SettingsOf(WordsOf(X))
            /\ there.settings \in SettingsOf(WordsOf(X))
        BY <2>4, <2>5 DEF SettingStates
      <3>3. QED BY <2>4, <2>5, <3>1, <3>2, SetByIsOne
    <2>8. ParseSettings(back) = Finished(here.settings)
      <3>1. Ended(there) = Absent BY <2>7 DEF Ended
      <3>2. QED BY <1>3, <2>7, <3>1 DEF there
    <2>9. Finished(here.settings) = [config |-> Finished(here.settings).config]
      BY <2>3, ConfigOnly
    <2>10. QED BY <2>3, <2>8, <2>9 DEF back
  <1>6. QED BY <1>4, <1>5

(* An option's value may be spelled in either way, and options that differ *)
(* may be given in any order.                                              *)
THEOREM SpellingNeverMatters == Spec => []SpellingDoesNotMatter
  BY AlwaysExchange, SpelledAsMeant, PTL

-----------------------------------------------------------------------------
(* The names that an answer is written under.                              *)

(* Names found are all those that were wanted so far.                      *)
LEMMA NamesAdded ==
  ASSUME NEW schema, schema \in Seq(ToSet(schema)), NEW found \in FoundIn(schema),
         NEW name \in ToSet(schema)
  PROVE  ToSet(AddMetric(schema, found, name).names) = ToSet(found.names) \cup {name}
  <1> DEFINE known == ToSet(schema)
             place == Position(schema, name)
             names == found.names
             columns == found.columns
  <1>1. /\ names \in Seq(known) /\ columns \in Seq(0 .. Len(schema) - 1)
        /\ Len(names) = Len(columns)
        /\ \A i \in 1 .. Len(names) : columns[i] = Position(schema, names[i])
    BY DEF FoundIn
  <1>2. AddMetric(schema, found, name) =
          IF Contains(columns, place) THEN found
          ELSE [names |-> Append(names, name), columns |-> Append(columns, place)]
    BY DEF AddMetric
  <1>3. \A other \in known : Position(schema, other) = place => other = name
    BY PositionIs
  <1> HIDE DEF known, place
  <1>4. CASE Contains(columns, place)
    <2>1. PICK i \in 1 .. Len(names) : columns[i] = place BY <1>1, <1>4 DEF Contains
    <2>2. names[i] \in known /\ Position(schema, names[i]) = place BY <1>1, <2>1
    <2>3. names[i] = name BY <1>3, <2>2
    <2>4. name \in ToSet(names) BY <1>1, <2>3 DEF ToSet
    <2>5. QED BY <1>2, <1>4, <2>4
  <1>5. CASE ~Contains(columns, place)
    <2>1. AddMetric(schema, found, name).names = Append(names, name) BY <1>2, <1>5
    <2> HIDE DEF names
    <2>2. name \in known BY DEF known
    <2>3. ToSet(Append(names, name)) = ToSet(names) \cup {name}
      <3>1. /\ DOMAIN Append(names, name) = 1 .. Len(names) + 1
            /\ \A i \in 1 .. Len(names) : Append(names, name)[i] = names[i]
            /\ Append(names, name)[Len(names) + 1] = name
            /\ DOMAIN names = 1 .. Len(names) /\ Len(names) \in Nat
        BY <1>1, <2>2
      <3>2. \A i \in 1 .. Len(names) + 1 : i \in 1 .. Len(names) \/ i = Len(names) + 1
        BY <3>1
      <3>3. 1 .. Len(names) \subseteq 1 .. Len(names) + 1 /\ Len(names) + 1 \in 1 .. Len(names) + 1
        BY <3>1
      <3>4. QED BY <3>1, <3>2, <3>3 DEF ToSet
    <2>4. QED BY <2>1, <2>3 DEF names
  <1>6. QED BY <1>4, <1>5

(* Each name wanted is found once, with the column that has it.            *)
LEMMA NamesAreResolved ==
  ASSUME NEW schema, schema \in Seq(ToSet(schema)), IsInjective(schema), NEW wanted,
         wanted = Absent \/ wanted \in Seq(ToSet(wanted)), ~Unknown(schema, wanted)
  PROVE  /\ ResolveMetrics(schema, wanted) \in FoundIn(schema)
         /\ ToSet(ResolveMetrics(schema, wanted).names)
              = ToSet(IF wanted = Absent THEN schema ELSE wanted)
  <1>1. CASE wanted = Absent
    <2> DEFINE known == ToSet(schema)
               places == 0 .. Len(schema) - 1
               columns == [i \in DOMAIN schema |-> i - 1]
               found == [names |-> schema, columns |-> columns]
    <2>1. ResolveMetrics(schema, wanted) = found BY <1>1 DEF ResolveMetrics
    <2>2. DOMAIN schema = 1 .. Len(schema) /\ Len(schema) \in Nat OBVIOUS
    <2>3. \A i \in DOMAIN schema : schema[i] \in known BY DEF ToSet
    <2>4. columns \in Seq(places) /\ IsInjective(columns) /\ Len(columns) = Len(schema)
      <3>1. columns \in [1 .. Len(schema) -> places] BY <2>2
      <3>2. IsInjective(columns) BY <2>2 DEF IsInjective
      <3> HIDE DEF columns, places
      <3>3. QED BY <2>2, <3>1, <3>2
    <2>5. ASSUME NEW i \in 1 .. Len(schema) PROVE columns[i] = Position(schema, schema[i])
      <3> DEFINE place == CHOOSE j \in DOMAIN schema : schema[j] = schema[i]
      <3>1. place \in DOMAIN schema /\ schema[place] = schema[i] BY <2>2
      <3>2. place = i BY <2>2, <3>1 DEF IsInjective
      <3>3. Position(schema, schema[i]) = place - 1 BY DEF Position
      <3> HIDE DEF place
      <3>4. QED BY <2>2, <3>2, <3>3
    <2>6. FoundIn(schema) =
            {other \in [names : Seq(known), columns : Seq(places)] :
               /\ IsInjective(other.columns) /\ Len(other.names) = Len(other.columns)
               /\ \A i \in 1 .. Len(other.names) : other.columns[i] = Position(schema, other.names[i])}
      BY DEF FoundIn
    <2>7. schema \in Seq(known) OBVIOUS
    <2> HIDE DEF columns, known, places
    <2>8. found \in [names : Seq(known), columns : Seq(places)] BY <2>4, <2>7
    <2>9. found.names = schema /\ found.columns = columns OBVIOUS
    <2> HIDE DEF found
    <2>10. found \in FoundIn(schema) BY <2>4, <2>5, <2>6, <2>8, <2>9
    <2>11. QED BY <1>1, <2>1, <2>9, <2>10
  <1>2. CASE wanted # Absent
    <2> DEFINE X == ToSet(wanted)
               found == ResolveMetrics(schema, wanted)
               n == Len(wanted)
    <2>1. X \subseteq ToSet(schema) /\ wanted \in Seq(X) BY <1>2 DEF Unknown
    <2> HIDE DEF X, found
    <2>2. PICK t \in [0 .. n -> FoundIn(schema)] :
            /\ t[0] = NoMetric /\ t[n] = found
            /\ \A k \in 1 .. n : t[k] = AddMetric(schema, t[k - 1], wanted[k])
      BY <1>2, <2>1, ResolveStages DEF found
    <2>3. n \in Nat /\ \A k \in 1 .. n : wanted[k] \in ToSet(schema) BY <2>1
    <2>4. DOMAIN wanted = 1 .. n BY <2>1
    <2> HIDE DEF n
    <2> DEFINE Good == {k \in 0 .. n : ToSet(t[k].names) = {wanted[i] : i \in 1 .. k}}
    <2>5. 0 \in Good
      <3>1. t[0].names = << >> BY <2>2 DEF NoMetric
      <3>2. ToSet(t[0].names) = {} BY <3>1 DEF ToSet
      <3>3. {wanted[i] : i \in 1 .. 0} = {} OBVIOUS
      <3>4. QED BY <2>3, <3>2, <3>3
    <2>6. ASSUME NEW k \in 1 .. n, k - 1 \in Good PROVE k \in Good
      <3>1. t[k - 1] \in FoundIn(schema) /\ k \in 0 .. n BY <2>2, <2>3
      <3>2. ToSet(t[k].names) = ToSet(t[k - 1].names) \cup {wanted[k]}
        <4> DEFINE before == t[k - 1]
                   name == wanted[k]
        <4>1. name \in ToSet(schema) /\ before \in FoundIn(schema) BY <2>3, <3>1
        <4>2. t[k] = AddMetric(schema, before, name) BY <2>2
        <4> HIDE DEF before, name
        <4>3. ToSet(AddMetric(schema, before, name).names) = ToSet(before.names) \cup {name}
          BY <4>1, NamesAdded
        <4>4. QED BY <4>2, <4>3 DEF before, name
      <3>3. 1 .. k = (1 .. k - 1) \cup {k} BY <2>3
      <3>4. {wanted[i] : i \in 1 .. k} = {wanted[i] : i \in 1 .. k - 1} \cup {wanted[k]} BY <3>3
      <3>5. ToSet(t[k - 1].names) = {wanted[i] : i \in 1 .. k - 1} BY <2>6
      <3>6. QED BY <3>1, <3>2, <3>4, <3>5
    <2> HIDE DEF Good
    <2>7. \A k \in 0 .. n : k \in Good BY <2>3, <2>5, <2>6, InductionUpTo
    <2>8. n \in Good BY <2>3, <2>7
    <2>9. ToSet(found.names) = ToSet(wanted) BY <2>2, <2>4, <2>8 DEF Good, ToSet
    <2>10. found \in FoundIn(schema) BY <2>2, <2>3
    <2>11. QED BY <1>2, <2>9, <2>10 DEF found
  <1>3. QED BY <1>1, <1>2
-----------------------------------------------------------------------------
(* What is answered and shown.                                             *)

(* The item of the last of the pairs that have this name.                  *)
ItemOf(pairs, name) == pairs[SelectLastInSeq(pairs, LAMBDA pair : pair[1] = name)][2]

(* It is in the place of the name, where names and items are in step.      *)
LEMMA ItemsOfNames ==
  ASSUME NEW names, NEW items, NEW n \in Nat, IsInjective(names),
         names \in Seq(ToSet(names)), items \in Seq(ToSet(items)), Len(names) = n, Len(items) = n
  PROVE  LET pairs == Zip(names, items) IN
         /\ {pairs[i][1] : i \in DOMAIN pairs} = ToSet(names)
         /\ \A i \in 1 .. n : ItemOf(pairs, names[i]) = items[i]
  <1> DEFINE pairs == Zip(names, items)
             last(name) == SelectLastInSeq(pairs, LAMBDA pair : pair[1] = name)
  <1>1. DOMAIN names = 1 .. n OBVIOUS
  <1>2. pairs = [i \in 1 .. n |-> <<names[i], items[i]>>] BY DEF Zip
  <1>3. /\ DOMAIN pairs = 1 .. n /\ Len(pairs) = n
        /\ \A i \in 1 .. n : pairs[i][1] = names[i] /\ pairs[i][2] = items[i]
    <2> DEFINE some == {<<names[i], items[i]>> : i \in 1 .. n}
    <2>1. pairs \in [1 .. n -> some] BY <1>2
    <2>2. \A i \in 1 .. n : pairs[i][1] = names[i] /\ pairs[i][2] = items[i] BY <1>2
    <2> HIDE DEF some, pairs
    <2>3. pairs \in Seq(some) BY <2>1
    <2>4. QED BY <2>1, <2>2, <2>3
  <1> HIDE DEF pairs
  <1>4. {pairs[i][1] : i \in DOMAIN pairs} = ToSet(names)
    <2>1. ToSet(names) = {names[i] : i \in 1 .. n} BY <1>1 DEF ToSet
    <2> DEFINE tag(i) == pairs[i][1]
    <2>2. \A i \in 1 .. n : tag(i) = names[i] BY <1>3
    <2> HIDE DEF tag
    <2>3. {tag(i) : i \in 1 .. n} = {names[i] : i \in 1 .. n} BY <2>2
    <2>4. QED BY <1>3, <2>1, <2>3 DEF tag
  <1>5. ASSUME NEW i \in 1 .. n PROVE last(names[i]) = i
    <2> DEFINE I == {j \in 1 .. Len(pairs) : pairs[j][1] = names[i]}
    <2>1. last(names[i]) = IF I # {} THEN Max(I) ELSE 0 BY DEF SelectLastInSeq
    <2>2. I = {i} BY <1>1, <1>3 DEF IsInjective
    <2> HIDE DEF I
    <2>3. Max(I) = i
      <3>1. i \in I /\ I \subseteq Int /\ \A x \in I : x <= i BY <2>2
      <3>2. QED BY <3>1, MaxIs
    <2>4. QED BY <2>1, <2>2, <2>3
  <1>6. ASSUME NEW i \in 1 .. n PROVE ItemOf(pairs, names[i]) = items[i]
    <2>1. ItemOf(pairs, names[i]) = pairs[last(names[i])][2] BY DEF ItemOf
    <2> HIDE DEF last
    <2>2. QED BY <1>3, <1>5, <2>1
  <1>7. QED BY <1>4, <1>6 DEF pairs

(* A series is the column in the place of its name.                        *)
LEMMA SeriesIs ==
  ASSUME NEW names, NEW columns, NEW n \in Nat, IsInjective(names),
         names \in Seq(ToSet(names)), columns \in Seq(ToSet(columns)),
         Len(names) = n, Len(columns) = n
  PROVE  /\ DOMAIN Series(names, columns) = ToSet(names)
         /\ \A i \in 1 .. n : Series(names, columns)[names[i]] =
                             [j \in DOMAIN columns[i] |-> Json(columns[i][j])]
  <1> DEFINE pairs == Zip(names, columns)
             item(name) == ItemOf(pairs, name)
  <1>1. Series(names, columns) =
          [name \in {pairs[i][1] : i \in DOMAIN pairs} |->
             [j \in DOMAIN item(name) |-> Json(item(name)[j])]]
    BY DEF Series, ItemOf
  <1>2. /\ {pairs[i][1] : i \in DOMAIN pairs} = ToSet(names)
        /\ \A i \in 1 .. n : item(names[i]) = columns[i]
    BY ItemsOfNames
  <1> HIDE DEF pairs, item
  <1>3. \A i \in 1 .. n : names[i] \in ToSet(names) BY DEF ToSet
  <1>4. QED BY <1>1, <1>2, <1>3

(* The newest record, under the names of its columns.                      *)
LEMMA LatestIs ==
  ASSUME NEW schema, schema \in Seq(ToSet(schema)), IsInjective(schema), NEW at
  PROVE  LET row == [i \in DOMAIN schema |-> Measured(i - 1, 1, "value")]
             answer == LatestAnswer(schema, <<at, row>>)
         IN  /\ answer.timestamp = at
             /\ answer.values =
                  [name \in ToSet(schema) |-> Json(Measured(Position(schema, name), 1, "value"))]
  <1> DEFINE n == Len(schema)
             row == [i \in DOMAIN schema |-> Measured(i - 1, 1, "value")]
             latest == <<at, row>>
             answer == LatestAnswer(schema, latest)
             pairs == Zip(schema, row)
             item(name) == ItemOf(pairs, name)
  <1>1. n \in Nat /\ DOMAIN schema = 1 .. n OBVIOUS
  <1>2. row \in Seq(ToSet(row)) /\ Len(row) = n /\ \A i \in 1 .. n : row[i] = Measured(i - 1, 1, "value")
    <2> DEFINE some == {Measured(i - 1, 1, "value") : i \in 1 .. n}
    <2>1. row \in [1 .. n -> some] /\ \A i \in 1 .. n : row[i] = Measured(i - 1, 1, "value")
      BY <1>1
    <2> HIDE DEF some, row, n
    <2>2. row \in Seq(some) /\ DOMAIN row = 1 .. n /\ Len(row) = n BY <1>1, <2>1
    <2>3. row \in Seq(ToSet(row)) BY <2>2 DEF ToSet
    <2>4. QED BY <2>1, <2>2, <2>3
  <1> HIDE DEF row
  <1>3. latest # << >> /\ latest[1] = at /\ latest[2] = row OBVIOUS
  <1> DEFINE values == [name \in {pairs[i][1] : i \in DOMAIN pairs} |-> Json(item(name))]
  <1>4. answer = [ok |-> TRUE, timestamp |-> at, values |-> values]
    <2> HIDE DEF latest
    <2>1. QED BY <1>3 DEF LatestAnswer, ItemOf
  <1>5. /\ {pairs[i][1] : i \in DOMAIN pairs} = ToSet(schema)
        /\ \A i \in 1 .. n : item(schema[i]) = row[i]
    <2> HIDE DEF n
    <2>1. Len(schema) = n BY DEF n
    <2>2. QED BY <1>1, <1>2, <2>1, ItemsOfNames
  <1> HIDE DEF pairs, item, n
  <1>6. ASSUME NEW name \in ToSet(schema)
        PROVE  item(name) = Measured(Position(schema, name), 1, "value")
    <2> DEFINE place == Position(schema, name)
    <2>1. place \in 0 .. n - 1 /\ schema[place + 1] = name BY PositionIs DEF n
    <2> HIDE DEF place
    <2>2. place + 1 \in 1 .. n /\ (place + 1) - 1 = place BY <1>1, <2>1
    <2>3. item(name) = row[place + 1] BY <1>5, <2>1, <2>2
    <2>4. QED BY <1>2, <2>2, <2>3 DEF place
  <1>7. values = [name \in ToSet(schema) |-> Json(Measured(Position(schema, name), 1, "value"))]
    BY <1>5, <1>6
  <1> HIDE DEF values
  <1>8. QED BY <1>4, <1>7 DEF answer, latest, row

(* What is answered for a metric, of what is found in its column.          *)
Answering(schema, name, rows, kind) ==
  [k \in 1 .. rows |-> Json(Measured(Position(schema, name), k, kind))]

(* What is found, in the columns asked for, is answered under their names. *)
LEMMA SeriesOfFound ==
  ASSUME NEW schema, schema \in Seq(ToSet(schema)), IsInjective(schema),
         NEW found \in FoundIn(schema), NEW rows \in Nat, NEW kind
  PROVE  /\ DOMAIN Series(found.names, Found(found.columns, rows, kind)) = ToSet(found.names)
         /\ \A name \in ToSet(found.names) :
              Series(found.names, Found(found.columns, rows, kind))[name] =
                Answering(schema, name, rows, kind)
  <1> DEFINE known == ToSet(schema)
             names == found.names
             places == found.columns
             n == Len(names)
             columns == Found(places, rows, kind)
             values(place) == [k \in 1 .. rows |-> Measured(place, k, kind)]
  <1>1. /\ names \in Seq(known) /\ places \in Seq(0 .. Len(schema) - 1)
        /\ IsInjective(places) /\ Len(places) = n
        /\ \A i \in 1 .. n : places[i] = Position(schema, names[i])
    BY DEF FoundIn
  <1>2. columns = [c \in DOMAIN places |-> values(places[c])] BY DEF Found
  <1> HIDE DEF known, names, places, n, columns, values
  <1>3. /\ n \in Nat /\ DOMAIN names = 1 .. n /\ DOMAIN places = 1 .. n /\ Len(names) = n
        /\ names \in Seq(ToSet(names))
    <2>1. Len(names) \in Nat /\ DOMAIN names = 1 .. Len(names) BY <1>1
    <2>2. n = Len(names) BY DEF n
    <2>3. n \in Nat /\ DOMAIN names = 1 .. n BY <2>1, <2>2
    <2>4. DOMAIN places = 1 .. n BY <1>1
    <2>5. names \in Seq(ToSet(names)) BY <1>1 DEF ToSet
    <2>6. QED BY <2>2, <2>3, <2>4, <2>5
  <1>4. IsInjective(names) BY <1>1, <1>3 DEF IsInjective
  <1>5. columns \in Seq(ToSet(columns)) /\ Len(columns) = n
    <2> DEFINE some == {values(places[c]) : c \in 1 .. n}
    <2>1. columns \in [1 .. n -> some] BY <1>2, <1>3
    <2> HIDE DEF some
    <2>2. columns \in Seq(some) BY <1>3, <2>1
    <2>3. QED BY <1>3, <2>1, <2>2 DEF ToSet
  <1>6. /\ DOMAIN Series(names, columns) = ToSet(names)
        /\ \A i \in 1 .. n : Series(names, columns)[names[i]] =
                            [j \in DOMAIN columns[i] |-> Json(columns[i][j])]
    BY <1>3, <1>4, <1>5, SeriesIs
  <1>7. ASSUME NEW name \in ToSet(names)
        PROVE  Series(names, columns)[name] =
                 Answering(schema, name, rows, kind)
    <2>1. PICK i \in 1 .. n : names[i] = name BY <1>3 DEF ToSet
    <2>2. columns[i] = values(Position(schema, name)) BY <1>1, <1>2, <1>3, <2>1
    <2>3. columns[i] = [k \in 1 .. rows |-> Measured(Position(schema, name), k, kind)]
      BY <2>2 DEF values
    <2> DEFINE column == columns[i]
    <2>4. Series(names, columns)[name] = [k \in DOMAIN column |-> Json(column[k])]
      BY <1>6, <2>1
    <2>5. column = [k \in 1 .. rows |-> Measured(Position(schema, name), k, kind)] BY <2>3
    <2> HIDE DEF column
    <2>6. DOMAIN column = 1 .. rows
          /\ \A k \in 1 .. rows : column[k] = Measured(Position(schema, name), k, kind)
      BY <2>5
    <2>7. QED BY <2>4, <2>6 DEF Answering
  <1>8. QED BY <1>6, <1>7 DEF names, columns, places
-----------------------------------------------------------------------------
(* Two functions as one.                                                   *)
LEMMA MergedIs ==
  ASSUME NEW f, NEW g
  PROVE  /\ DOMAIN Merged(f, g) = DOMAIN f \cup DOMAIN g
         /\ \A x \in DOMAIN f : Merged(f, g)[x] = f[x]
         /\ \A x \in DOMAIN g \ DOMAIN f : Merged(f, g)[x] = g[x]
  BY DEF Merged

(* What is shown for a value that was found.                               *)
Cell(schema, name, row, kind) == Number(Json(Measured(Position(schema, name), row, kind)))

Cells(schema, name, rows, kind) == [k \in 1 .. rows |-> Cell(schema, name, k, kind)]

(* An answer has what was found, as values of this kind, under a key.      *)
HasSeries(answer, key, schema, names, rows, kind) ==
  /\ key \in DOMAIN answer /\ DOMAIN answer[key] = names
  /\ \A name \in names :
       answer[key][name] = Answering(schema, name, rows, kind)

(* What the answer to a call on the store has.                             *)
HasAnswer(answer, call, schema, names, rows) ==
  /\ answer.timestamps = [k \in 1 .. rows |-> RowTime(k)]
  /\ HasSeries(answer, "series", schema, names, rows,
               IF call.step = Absent /\ call.points = Absent THEN "value" ELSE "avg")
  /\ call.extremes => /\ HasSeries(answer, "min", schema, names, rows, "min")
                      /\ HasSeries(answer, "max", schema, names, rows, "max")
  /\ ~call.extremes => "min" \notin DOMAIN answer /\ "max" \notin DOMAIN answer

LEMMA RawHas ==
  ASSUME NEW names, NEW times, NEW columns
  PROVE  LET answer == RawAnswer(names, [timestamps |-> times, columns |-> columns]) IN
         /\ answer.timestamps = times /\ answer.series = Series(names, columns)
         /\ "series" \in DOMAIN answer
         /\ "min" \notin DOMAIN answer /\ "max" \notin DOMAIN answer
  BY DEF RawAnswer

LEMMA DownsampledHas ==
  ASSUME NEW names, NEW step, NEW times, NEW avg, NEW lowest, NEW highest, NEW extremes
  PROVE  LET result == Merged([step |-> step, timestamps |-> times, avg |-> avg],
                              IF extremes THEN [min |-> lowest, max |-> highest] ELSE << >>)
             answer == DownsampledAnswer(names, result)
         IN
         /\ answer.timestamps = times /\ answer.series = Series(names, avg)
         /\ "series" \in DOMAIN answer
         /\ extremes => /\ "min" \in DOMAIN answer /\ answer.min = Series(names, lowest)
                        /\ "max" \in DOMAIN answer /\ answer.max = Series(names, highest)
         /\ ~extremes => "min" \notin DOMAIN answer /\ "max" \notin DOMAIN answer
  <1> DEFINE first == [step |-> step, timestamps |-> times, avg |-> avg]
             more == IF extremes THEN [min |-> lowest, max |-> highest] ELSE << >>
             result == Merged(first, more)
  <1>1. /\ DOMAIN first = {"step", "timestamps", "avg"}
        /\ first.timestamps = times /\ first.avg = avg
    OBVIOUS
  <1>2. DOMAIN more = (IF extremes THEN {"min", "max"} ELSE {})
    <2>1. CASE extremes BY <2>1
    <2>2. CASE ~extremes BY <2>2
    <2>3. QED BY <2>1, <2>2
  <1>3. extremes => more.min = lowest /\ more.max = highest OBVIOUS
  <1> HIDE DEF first, more
  <1>4. /\ result.timestamps = times /\ result.avg = avg
        /\ extremes => "min" \in DOMAIN result /\ result.min = lowest /\ result.max = highest
        /\ ~extremes => "min" \notin DOMAIN result
    <2>1. /\ DOMAIN result = DOMAIN first \cup DOMAIN more
          /\ \A x \in DOMAIN first : result[x] = first[x]
          /\ \A x \in DOMAIN more \ DOMAIN first : result[x] = more[x]
      BY MergedIs
    <2> HIDE DEF result
    <2>2. {"timestamps", "avg"} \subseteq DOMAIN first /\ {"min"} \cap DOMAIN first = {}
      BY <1>1
    <2>3. CASE extremes
      <3>1. "min" \in DOMAIN more /\ more.min = lowest /\ more.max = highest
            /\ "max" \in DOMAIN more /\ "max" \notin DOMAIN first
        BY <1>1, <1>2, <1>3, <2>3
      <3>2. QED BY <1>1, <2>1, <2>2, <2>3, <3>1
    <2>4. CASE ~extremes BY <1>1, <1>2, <2>1, <2>2, <2>4
    <2>5. QED BY <2>3, <2>4
  <1> HIDE DEF result
  <1> DEFINE head == [ok |-> TRUE, step_ms |-> result.step, timestamps |-> result.timestamps,
                      series |-> Series(names, result.avg)]
             rest == IF "min" \in DOMAIN result
                       THEN [min |-> Series(names, result.min), max |-> Series(names, result.max)]
                       ELSE << >>
             answer == Merged(head, rest)
  <1>5. /\ DOMAIN head = {"ok", "step_ms", "timestamps", "series"}
        /\ head.timestamps = result.timestamps /\ head.series = Series(names, result.avg)
    OBVIOUS
  <1>6. DOMAIN rest = (IF "min" \in DOMAIN result THEN {"min", "max"} ELSE {})
    <2>1. CASE "min" \in DOMAIN result BY <2>1
    <2>2. CASE "min" \notin DOMAIN result BY <2>2
    <2>3. QED BY <2>1, <2>2
  <1>7. "min" \in DOMAIN result =>
          rest.min = Series(names, result.min) /\ rest.max = Series(names, result.max)
    OBVIOUS
  <1>8. DownsampledAnswer(names, result) = answer BY DEF DownsampledAnswer
  <1> HIDE DEF head, rest
  <1>9. /\ answer.timestamps = head.timestamps /\ answer.series = head.series
        /\ "series" \in DOMAIN answer
        /\ "min" \in DOMAIN rest => /\ "min" \in DOMAIN answer /\ answer.min = rest.min
                                    /\ "max" \in DOMAIN answer /\ answer.max = rest.max
        /\ "min" \notin DOMAIN rest => "min" \notin DOMAIN answer /\ "max" \notin DOMAIN answer
    <2>1. /\ DOMAIN answer = DOMAIN head \cup DOMAIN rest
          /\ \A x \in DOMAIN head : answer[x] = head[x]
          /\ \A x \in DOMAIN rest \ DOMAIN head : answer[x] = rest[x]
      BY MergedIs
    <2> HIDE DEF answer
    <2>2. /\ {"timestamps", "series"} \subseteq DOMAIN head
          /\ "min" \notin DOMAIN head /\ "max" \notin DOMAIN head
      BY <1>5
    <2>3. /\ "min" \in DOMAIN rest => "max" \in DOMAIN rest
          /\ "min" \notin DOMAIN rest => "max" \notin DOMAIN rest
      BY <1>6
    <2>4. QED BY <2>1, <2>2, <2>3
  <1> HIDE DEF answer
  <1>10. QED BY <1>4, <1>5, <1>6, <1>7, <1>8, <1>9 DEF result, first, more

LEMMA AnswerHas ==
  ASSUME NEW schema, schema \in Seq(ToSet(schema)), IsInjective(schema),
         NEW call, NEW found \in FoundIn(schema), call.names = found.names,
         call.columns = found.columns, NEW answer \in ReadAnswers(call),
         call.extremes => call.step # Absent \/ call.points # Absent
  PROVE  \E rows \in Nat : HasAnswer(answer, call, schema, ToSet(found.names), rows)
  <1> DEFINE times(rows) == [k \in 1 .. rows |-> RowTime(k)]
             columns(rows, kind) == Found(call.columns, rows, kind)
             raw == call.step = Absent /\ call.points = Absent
             plain(rows) == RawAnswer(call.names, [timestamps |-> times(rows),
                                                   columns |-> columns(rows, "value")])
             result(step, rows) ==
               Merged([step |-> step, timestamps |-> times(rows), avg |-> columns(rows, "avg")],
                      IF call.extremes
                        THEN [min |-> columns(rows, "min"), max |-> columns(rows, "max")]
                        ELSE << >>)
             grouped(step, rows) == DownsampledAnswer(call.names, result(step, rows))
             names == ToSet(found.names)
  <1>1. ReadAnswers(call) =
          IF raw THEN {plain(rows) : rows \in 0 .. MaxRows}
          ELSE {grouped(step, rows) : step \in Widths(call), rows \in 0 .. MaxRows}
    BY DEF ReadAnswers
  <1>2. \A rows \in 0 .. MaxRows : rows \in Nat BY LimitsAssumption
  <1>3. ASSUME NEW rows \in Nat, NEW kind
        PROVE  /\ DOMAIN Series(call.names, columns(rows, kind)) = names
               /\ \A name \in names :
                    Series(call.names, columns(rows, kind))[name] =
                      Answering(schema, name, rows, kind)
    <2>1. columns(rows, kind) = Found(found.columns, rows, kind) OBVIOUS
    <2>2. /\ DOMAIN Series(found.names, Found(found.columns, rows, kind)) = ToSet(found.names)
          /\ \A name \in ToSet(found.names) :
               Series(found.names, Found(found.columns, rows, kind))[name] =
                 Answering(schema, name, rows, kind)
      BY SeriesOfFound
    <2>3. Series(call.names, columns(rows, kind))
            = Series(found.names, Found(found.columns, rows, kind))
      BY <2>1
    <2>4. QED BY <2>2, <2>3 DEF names
  <1> HIDE DEF columns, names, times
  <1>4. CASE raw
    <2>1. PICK rows \in 0 .. MaxRows : answer = plain(rows) BY <1>1, <1>4
    <2>2. /\ answer.timestamps = times(rows)
          /\ answer.series = Series(call.names, columns(rows, "value"))
          /\ "series" \in DOMAIN answer
          /\ "min" \notin DOMAIN answer /\ "max" \notin DOMAIN answer
      <3> DEFINE whose == call.names
                 made == times(rows)
                 cells == columns(rows, "value")
      <3>1. answer = RawAnswer(whose, [timestamps |-> made, columns |-> cells]) BY <2>1
      <3> HIDE DEF whose, made, cells
      <3>2. /\ answer.timestamps = made /\ answer.series = Series(whose, cells)
            /\ "series" \in DOMAIN answer
            /\ "min" \notin DOMAIN answer /\ "max" \notin DOMAIN answer
        BY <3>1, RawHas
      <3>3. QED BY <3>2 DEF whose, made, cells
    <2>3. HasSeries(answer, "series", schema, names, rows, "value")
      BY <1>2, <1>3, <2>2 DEF HasSeries
    <2>4. HasAnswer(answer, call, schema, names, rows) BY <1>4, <2>2, <2>3 DEF HasAnswer, times
    <2>5. QED BY <1>2, <2>4 DEF names
  <1>5. CASE ~raw
    <2>1. PICK step \in Widths(call), rows \in 0 .. MaxRows : answer = grouped(step, rows)
      BY <1>1, <1>5
    <2>2. /\ answer.timestamps = times(rows)
          /\ answer.series = Series(call.names, columns(rows, "avg"))
          /\ "series" \in DOMAIN answer
          /\ call.extremes =>
               /\ "min" \in DOMAIN answer /\ answer.min = Series(call.names, columns(rows, "min"))
               /\ "max" \in DOMAIN answer /\ answer.max = Series(call.names, columns(rows, "max"))
          /\ ~call.extremes => "min" \notin DOMAIN answer /\ "max" \notin DOMAIN answer
      <3> DEFINE whose == call.names
                 both == call.extremes
                 made == times(rows)
                 avg == columns(rows, "avg")
                 lowest == columns(rows, "min")
                 highest == columns(rows, "max")
      <3>1. answer = DownsampledAnswer(whose,
                       Merged([step |-> step, timestamps |-> made, avg |-> avg],
                              IF both THEN [min |-> lowest, max |-> highest] ELSE << >>))
        BY <2>1
      <3> HIDE DEF whose, both, made, avg, lowest, highest
      <3>2. /\ answer.timestamps = made /\ answer.series = Series(whose, avg)
            /\ "series" \in DOMAIN answer
            /\ both => /\ "min" \in DOMAIN answer /\ answer.min = Series(whose, lowest)
                       /\ "max" \in DOMAIN answer /\ answer.max = Series(whose, highest)
            /\ ~both => "min" \notin DOMAIN answer /\ "max" \notin DOMAIN answer
        BY <3>1, DownsampledHas
      <3>3. QED BY <3>2 DEF whose, both, made, avg, lowest, highest
    <2>3. HasSeries(answer, "series", schema, names, rows, "avg")
      BY <1>2, <1>3, <2>2 DEF HasSeries
    <2>4. call.extremes => /\ HasSeries(answer, "min", schema, names, rows, "min")
                          /\ HasSeries(answer, "max", schema, names, rows, "max")
      BY <1>2, <1>3, <2>2 DEF HasSeries
    <2>5. HasAnswer(answer, call, schema, names, rows)
      BY <1>5, <2>2, <2>3, <2>4 DEF HasAnswer, times
    <2>6. QED BY <1>2, <2>5 DEF names
  <1>6. QED BY <1>4, <1>5
-----------------------------------------------------------------------------
(* The table.                                                              *)

ColumnOf(answer, values) ==
  [k \in DOMAIN answer.timestamps |-> IF k \in DOMAIN values THEN Number(values[k]) ELSE Dash]

(* The columns for the series under a key.                                 *)
Headed(answer, key, suffix) ==
  IF key \notin DOMAIN answer THEN << >>
  ELSE [label \in {Heading(name, suffix) : name \in DOMAIN answer[key]} |->
          ColumnOf(answer, answer[key][CHOOSE name \in DOMAIN answer[key] : Heading(name, suffix) = label])]

LEMMA TableIs ==
  ASSUME NEW answer
  PROVE  /\ RenderRead(answer).times =
              [k \in DOMAIN answer.timestamps |-> Iso(answer.timestamps[k])]
         /\ RenderRead(answer).columns =
              Merged(Headed(answer, "series", ""),
                     Merged(Headed(answer, "min", " (min)"), Headed(answer, "max", " (max)")))
  BY DEF RenderRead, Headed, ColumnOf

Headings(names, suffix) == {Heading(name, suffix) : name \in names}

(* A heading belongs to one name, and to one kind of value.                *)
LEMMA HeadingsTellApart ==
  \A a, b \in MetricNames :
    \A s, t \in HeadingKinds : Heading(a, s) = Heading(b, t) => a = b /\ s = t
  BY HeadingsAssumption, Zenon

LEMMA HeadingsDiffer ==
  ASSUME NEW a \in MetricNames, NEW b \in MetricNames,
         NEW s \in HeadingKinds, NEW t \in HeadingKinds, Heading(a, s) = Heading(b, t)
  PROVE  a = b /\ s = t
  BY HeadingsTellApart

LEMMA PlainHeading == \A name \in MetricNames : Heading(name, "") = name
  BY HeadingsAssumption, Zenon

(* The columns of one kind of value, each under its heading.               *)
IsHeaded(columns, schema, names, suffix, rows, kind) ==
  /\ DOMAIN columns = Headings(names, suffix)
  /\ \A name \in names : columns[Heading(name, suffix)] = Cells(schema, name, rows, kind)

LEMMA HeadedIs ==
  ASSUME NEW schema, NEW answer, NEW key, NEW suffix \in HeadingKinds, NEW names \in SUBSET MetricNames,
         NEW rows \in Nat, NEW kind, DOMAIN answer.timestamps = 1 .. rows,
         HasSeries(answer, key, schema, names, rows, kind)
  PROVE  IsHeaded(Headed(answer, key, suffix), schema, names, suffix, rows, kind)
  <1> DEFINE series == answer[key]
             chosen(label) == CHOOSE name \in names : Heading(name, suffix) = label
  <1>1. /\ key \in DOMAIN answer /\ DOMAIN series = names
        /\ \A name \in names :
             series[name] = Answering(schema, name, rows, kind)
    BY DEF HasSeries
  <1>2. Headed(answer, key, suffix) =
          [label \in Headings(names, suffix) |-> ColumnOf(answer, series[chosen(label)])]
    BY <1>1 DEF Headed, Headings
  <1> HIDE DEF series
  <1>3. ASSUME NEW name \in names PROVE chosen(Heading(name, suffix)) = name
    <2>1. /\ chosen(Heading(name, suffix)) \in names
          /\ Heading(chosen(Heading(name, suffix)), suffix) = Heading(name, suffix)
      OBVIOUS
    <2> HIDE DEF chosen
    <2>2. QED BY <2>1, HeadingsDiffer
  <1> HIDE DEF chosen
  <1>4. ASSUME NEW name \in names
        PROVE  Headed(answer, key, suffix)[Heading(name, suffix)] =
                 Cells(schema, name, rows, kind)
    <2> DEFINE values == series[name]
               label == Heading(name, suffix)
    <2>1. label \in Headings(names, suffix) BY DEF Headings
    <2>2. chosen(label) = name BY <1>3
    <2> HIDE DEF label
    <2>3. Headed(answer, key, suffix)[label] = ColumnOf(answer, values) BY <1>2, <2>1, <2>2
    <2>4. values = Answering(schema, name, rows, kind)
      BY <1>1
    <2> HIDE DEF values
    <2>5. ColumnOf(answer, values) = Cells(schema, name, rows, kind)
      BY <2>4 DEF ColumnOf, Cells, Cell, Answering
    <2>6. QED BY <2>3, <2>5 DEF label
  <1>5. QED BY <1>2, <1>4 DEF IsHeaded

(* As many headings as names, for each kind of value.                      *)
LEMMA HeadingsCounted ==
  ASSUME NEW names \in SUBSET MetricNames, IsFiniteSet(names), NEW suffix \in HeadingKinds
  PROVE  IsFiniteSet(Headings(names, suffix))
         /\ Cardinality(Headings(names, suffix)) = Cardinality(names)
  <1> DEFINE head == [name \in names |-> Heading(name, suffix)]
             labels == Headings(names, suffix)
  <1>1. head \in [names -> labels] BY DEF Headings
  <1>2. \A label \in labels : \E name \in names : head[name] = label BY DEF Headings
  <1>3. head \in Surjection(names, labels) BY <1>1, <1>2 DEF Surjection
  <1>4. \A a, b \in names : head[a] = head[b] => a = b BY HeadingsDiffer
  <1>5. head \in Injection(names, labels) BY <1>1, <1>4 DEF Injection, IsInjective
  <1> HIDE DEF head, labels
  <1>6. IsFiniteSet(labels) /\ Cardinality(labels) = Cardinality(names)
    BY <1>3, <1>5, FS_Surjection
  <1>7. QED BY <1>6 DEF labels

LEMMA HeadingsApart ==
  ASSUME NEW names \in SUBSET MetricNames, NEW s \in HeadingKinds, NEW t \in HeadingKinds, s # t
  PROVE  Headings(names, s) \cap Headings(names, t) = {}
  <1>1. SUFFICES ASSUME NEW a \in names, NEW b \in names, Heading(a, s) = Heading(b, t) PROVE FALSE
    BY DEF Headings
  <1>2. QED BY <1>1, HeadingsDiffer

LEMMA AllHeadingsCounted ==
  ASSUME NEW names \in SUBSET MetricNames, IsFiniteSet(names)
  PROVE  Cardinality(Headings(names, "") \cup (Headings(names, " (min)") \cup Headings(names, " (max)")))
           = 3 * Cardinality(names)
  <1> DEFINE A == Headings(names, "")
             B0 == Headings(names, " (min)")
             C == Headings(names, " (max)")
             n == Cardinality(names)
  <1>1. {"", " (min)", " (max)"} = HeadingKinds BY DEF HeadingKinds
  <1>2. /\ IsFiniteSet(A) /\ IsFiniteSet(B0) /\ IsFiniteSet(C)
        /\ Cardinality(A) = n /\ Cardinality(B0) = n /\ Cardinality(C) = n
    BY <1>1, HeadingsCounted
  <1>3. A \cap B0 = {} /\ A \cap C = {} /\ B0 \cap C = {} BY <1>1, HeadingsApart
  <1>4. n \in Nat BY FS_CardinalityType
  <1> HIDE DEF A, B0, C, n
  <1>5. IsFiniteSet(B0 \cup C) /\ Cardinality(B0 \cup C) = n + n - Cardinality({})
    BY <1>2, <1>3, FS_Union
  <1>6. A \cap (B0 \cup C) = {} BY <1>3
  <1>7. Cardinality(A \cup (B0 \cup C)) = n + Cardinality(B0 \cup C) - Cardinality({})
    BY <1>2, <1>5, <1>6, FS_Union
  <1>8. Cardinality({}) = 0 BY FS_EmptySet
  <1>9. Cardinality(A \cup (B0 \cup C)) = 3 * n BY <1>4, <1>5, <1>7, <1>8
  <1>10. QED BY <1>9 DEF A, B0, C, n

(* A table has a column of these values under a heading.                   *)
HasColumn(table, schema, heading, name, kind) ==
  /\ heading \in DOMAIN table.columns
  /\ table.columns[heading] = [k \in DOMAIN table.times |-> Cell(schema, name, k, kind)]

(* The table of an answer has a column for every series, and no other.     *)
LEMMA ReadIsShown ==
  ASSUME NEW schema, NEW answer, NEW call, NEW names \in SUBSET MetricNames, IsFiniteSet(names),
         NEW rows \in Nat, call.extremes \in BOOLEAN,
         HasAnswer(answer, call, schema, names, rows)
  PROVE  LET table == RenderRead(answer)
             kind == IF call.step = Absent /\ call.points = Absent THEN "value" ELSE "avg"
         IN
         /\ \A name \in names : HasColumn(table, schema, name, name, kind)
         /\ call.extremes =>
              \A name \in names : /\ HasColumn(table, schema, Heading(name, " (min)"), name, "min")
                                 /\ HasColumn(table, schema, Heading(name, " (max)"), name, "max")
         /\ Cardinality(DOMAIN table.columns)
              = Cardinality(names) * (IF call.extremes THEN 3 ELSE 1)
  <1> DEFINE table == RenderRead(answer)
             kind == IF call.step = Absent /\ call.points = Absent THEN "value" ELSE "avg"
             plain == ""
             least == " (min)"
             most == " (max)"
             first == Headed(answer, "series", plain)
             second == Headed(answer, "min", least)
             third == Headed(answer, "max", most)
             rest == Merged(second, third)
             all == Merged(first, rest)
  <1>1. /\ DOMAIN answer.timestamps = 1 .. rows
        /\ HasSeries(answer, "series", schema, names, rows, kind)
        /\ call.extremes => /\ HasSeries(answer, "min", schema, names, rows, "min")
                            /\ HasSeries(answer, "max", schema, names, rows, "max")
        /\ ~call.extremes => "min" \notin DOMAIN answer /\ "max" \notin DOMAIN answer
    BY DEF HasAnswer
  <1>2. /\ DOMAIN table.times = 1 .. rows
        /\ table.columns = all
    BY <1>1, TableIs, Zenon
  <1>3. plain \in HeadingKinds /\ least \in HeadingKinds /\ most \in HeadingKinds
    BY Zenon DEF HeadingKinds
  <1>4. plain # least /\ plain # most /\ least # most OBVIOUS
  <1>5. \A name \in names : Heading(name, plain) = name BY PlainHeading
  <1> HIDE DEF table, kind
  <1>6. call.extremes \/ (second = << >> /\ third = << >>)
    BY <1>1, Zenon DEF Headed
  <1> HIDE DEF plain, least, most
  <1>7. IsHeaded(first, schema, names, plain, rows, kind)
    BY <1>1, <1>3, HeadedIs, Zenon
  <1>8. call.extremes => IsHeaded(second, schema, names, least, rows, "min")
    BY <1>1, <1>3, HeadedIs, Zenon
  <1>9. call.extremes => IsHeaded(third, schema, names, most, rows, "max")
    BY <1>1, <1>3, HeadedIs, Zenon
  <1> DEFINE A == Headings(names, plain)
             L == Headings(names, least)
             M == Headings(names, most)
  <1>10. A \cap L = {} /\ A \cap M = {} /\ L \cap M = {} BY <1>3, <1>4, HeadingsApart
  <1>11. \A name \in names : /\ Heading(name, plain) \in A /\ Heading(name, least) \in L
                            /\ Heading(name, most) \in M
    BY DEF Headings
  <1> HIDE DEF first, second, third, A, L, M
  <1>12. /\ DOMAIN rest = DOMAIN second \cup DOMAIN third
         /\ \A x \in DOMAIN second : rest[x] = second[x]
         /\ \A x \in DOMAIN third \ DOMAIN second : rest[x] = third[x]
    <2>1. DOMAIN rest = DOMAIN second \cup DOMAIN third BY MergedIs
    <2>2. \A x \in DOMAIN second : rest[x] = second[x] BY MergedIs
    <2>3. ASSUME NEW x \in DOMAIN third \ DOMAIN second PROVE rest[x] = third[x] BY DEF Merged
    <2>4. QED BY <2>1, <2>2, <2>3
  <1> HIDE DEF rest
  <1>13. /\ DOMAIN all = DOMAIN first \cup DOMAIN rest
         /\ \A x \in DOMAIN first : all[x] = first[x]
         /\ \A x \in DOMAIN rest \ DOMAIN first : all[x] = rest[x]
    <2>1. DOMAIN all = DOMAIN first \cup DOMAIN rest BY MergedIs
    <2>2. \A x \in DOMAIN first : all[x] = first[x] BY MergedIs
    <2>3. ASSUME NEW x \in DOMAIN rest \ DOMAIN first PROVE all[x] = rest[x] BY DEF Merged
    <2>4. QED BY <2>1, <2>2, <2>3
  <1> HIDE DEF all
  <1>14. DOMAIN first = A /\ (call.extremes => DOMAIN second = L /\ DOMAIN third = M)
    BY <1>7, <1>8, <1>9 DEF A, L, M, IsHeaded
  <1>15. ASSUME NEW name \in names PROVE HasColumn(table, schema, name, name, kind)
    <2> DEFINE heading == Heading(name, plain)
    <2>1. heading = name /\ heading \in A BY <1>5, <1>11
    <2>2. first[heading] = Cells(schema, name, rows, kind) BY <1>7 DEF IsHeaded
    <2> HIDE DEF heading
    <2>3. heading \in DOMAIN all /\ all[heading] = Cells(schema, name, rows, kind) BY <1>13, <1>14, <2>1, <2>2
    <2>4. QED BY <1>2, <2>1, <2>3 DEF HasColumn, Cells
  <1>16. ASSUME call.extremes, NEW name \in names
         PROVE  HasColumn(table, schema, Heading(name, least), name, "min")
    <2> DEFINE heading == Heading(name, least)
    <2>1. heading \in L BY <1>11
    <2>2. second[heading] = Cells(schema, name, rows, "min") BY <1>8, <1>16 DEF IsHeaded
    <2> HIDE DEF heading
    <2>3. heading \in DOMAIN second /\ heading \notin DOMAIN first BY <1>10, <1>14, <1>16, <2>1
    <2>4. heading \in DOMAIN all /\ all[heading] = Cells(schema, name, rows, "min")
      BY <1>12, <1>13, <2>2, <2>3
    <2>5. HasColumn(table, schema, heading, name, "min") BY <1>2, <2>4 DEF HasColumn, Cells
    <2>6. QED BY <2>5 DEF heading
  <1>17. ASSUME call.extremes, NEW name \in names
         PROVE  HasColumn(table, schema, Heading(name, most), name, "max")
    <2> DEFINE heading == Heading(name, most)
    <2>1. heading \in M BY <1>11
    <2>2. third[heading] = Cells(schema, name, rows, "max") BY <1>9, <1>17 DEF IsHeaded
    <2> HIDE DEF heading
    <2>3. /\ heading \in DOMAIN third /\ heading \notin DOMAIN first
          /\ heading \notin DOMAIN second
      BY <1>10, <1>14, <1>17, <2>1
    <2>4. heading \in DOMAIN all /\ all[heading] = Cells(schema, name, rows, "max")
      BY <1>12, <1>13, <2>2, <2>3
    <2>5. HasColumn(table, schema, heading, name, "max") BY <1>2, <2>4 DEF HasColumn, Cells
    <2>6. QED BY <2>5 DEF heading
  <1>18. Cardinality(DOMAIN all) = Cardinality(names) * (IF call.extremes THEN 3 ELSE 1)
    <2>1. Cardinality(names) \in Nat BY FS_CardinalityType
    <2>2. CASE call.extremes
      <3>1. DOMAIN all = A \cup (L \cup M) BY <1>12, <1>13, <1>14, <2>2
      <3>2. Cardinality(A \cup (L \cup M)) = 3 * Cardinality(names)
        BY AllHeadingsCounted, Zenon DEF A, L, M, plain, least, most
      <3>3. QED BY <2>1, <2>2, <3>1, <3>2
    <2>3. CASE ~call.extremes
      <3>1. second = << >> /\ third = << >> BY <1>6, <2>3
      <3>2. DOMAIN all = A BY <1>12, <1>13, <1>14, <3>1
      <3>3. Cardinality(A) = Cardinality(names) BY <1>3, HeadingsCounted DEF A
      <3>4. QED BY <2>1, <2>3, <3>2, <3>3
    <2>4. QED BY <2>2, <2>3
  <1>19. Cardinality(DOMAIN table.columns) = Cardinality(names) * (IF call.extremes THEN 3 ELSE 1)
    BY <1>2, <1>18
  <1>20. QED BY <1>15, <1>16, <1>17, <1>19, Zenon DEF table, kind, least, most
-----------------------------------------------------------------------------
(* What is asked for is shown.                                             *)

LEMMA SchemaNames ==
  ASSUME NEW interfaces \in Seq(InterfaceNames)
  PROVE  /\ ToSet(SchemaOf(interfaces)) \in SUBSET MetricNames
         /\ IsFiniteSet(ToSet(SchemaOf(interfaces)))
  <1> DEFINE n == Len(interfaces)
             m == 5 + 2 * n
             schema == SchemaOf(interfaces)
  <1>1. /\ n \in Nat /\ \A j \in 1 .. n : interfaces[j] \in InterfaceNames
        /\ DOMAIN schema = 1 .. m /\ \A i \in 1 .. 5 : schema[i] = Fixed[i]
        /\ \A k \in 1 .. 2 * n : schema[5 + k] = NetName(interfaces, k)
    BY SchemaIs
  <1> HIDE DEF n, schema
  <1>2. ASSUME NEW i \in 1 .. 5 PROVE schema[i] \in MetricNames
    <2>1. Fixed[i] \in ToSet(Fixed) BY FixedAre DEF ToSet
    <2>2. QED BY <1>1, <2>1 DEF MetricNames
  <1>3. ASSUME NEW k \in 1 .. 2 * n PROVE schema[5 + k] \in MetricNames
    <2> DEFINE interface == interfaces[(k + 1) \div 2]
    <2>1. (k + 1) \div 2 \in 1 .. n BY <1>1, SMT
    <2>2. interface \in InterfaceNames BY <1>1, <2>1
    <2>3. schema[5 + k] = RxName(interface) \/ schema[5 + k] = TxName(interface)
      BY <1>1 DEF NetName
    <2> HIDE DEF interface
    <2>4. QED BY <2>2, <2>3 DEF MetricNames
  <1>4. ASSUME NEW i \in 1 .. m PROVE schema[i] \in MetricNames
    <2>1. CASE i \in 1 .. 5 BY <1>2, <2>1
    <2>2. CASE i \notin 1 .. 5
      <3> DEFINE k == i - 5
      <3>1. k \in 1 .. 2 * n /\ 5 + k = i BY <1>1, <2>2
      <3> HIDE DEF k
      <3>2. schema[5 + k] \in MetricNames BY <1>3, <3>1
      <3>3. QED BY <3>1, <3>2
    <2>3. QED BY <2>1, <2>2
  <1>5. m \in Nat BY <1>1
  <1> HIDE DEF m
  <1>6. ToSet(schema) = {schema[i] : i \in 1 .. m} BY <1>1 DEF ToSet
  <1>7. ToSet(schema) \in SUBSET MetricNames BY <1>4, <1>6
  <1>8. IsFiniteSet(ToSet(schema))
    <2> DEFINE given == [i \in 1 .. m |-> schema[i]]
    <2>1. given \in Surjection(1 .. m, ToSet(schema)) BY <1>6 DEF Surjection
    <2>2. IsFiniteSet(1 .. m) BY <1>5, FS_Interval
    <2> HIDE DEF given
    <2>3. QED BY <2>1, <2>2, FS_Surjection
  <1>9. QED BY <1>7, <1>8 DEF schema

(* The schema of a daemon that runs.                                       *)
LEMMA SchemaIsGood ==
  ASSUME Exchange, daemon # Absent
  PROVE  /\ Schema \in Seq(ToSet(Schema)) /\ IsInjective(Schema)
         /\ ToSet(Schema) \in SUBSET MetricNames /\ IsFiniteSet(ToSet(Schema))
  <1>1. daemon.interfaces \in Seq(InterfaceNames) /\ IsInjective(daemon.interfaces)
    BY DaemonIsGood DEF GoodConfig, InterfaceNames, DaemonWords
  <1>2. QED BY <1>1, SchemaIsSeq, SchemaIsInjective, SchemaNames DEF Schema

(* What is shown is made of an answer that is no error.                    *)
LEMMA ShownIs ==
  ASSUME Exchange, shown # Absent, ~command.json
  PROVE  /\ command # Absent /\ reply.ok /\ shown = Render(command.command.op, reply)
         /\ Answered /\ daemon # Absent /\ SentBySmq
  <1>1. /\ command # Absent
        /\ shown = IF reply.ok THEN Render(command.command.op, reply) ELSE Absent
    BY DEF Exchange, ShownIsReply
  <1>2. Answered BY DEF Exchange, ReplyIsToRequest
  <1>3. daemon # Absent BY DEF Exchange, PartsInOrder, DaemonIsSet
  <1>4. SentBySmq BY <1>1, SomebodySent
  <1>5. QED BY <1>1, <1>2, <1>3, <1>4

LEMMA LatestShown ==
  ASSUME Exchange, shown # Absent, ~command.json,
         command.command.op = "latest", "values" \in DOMAIN shown
  PROVE  shown.values = [name \in ToSet(Schema) |-> Cell(Schema, name, 1, "value")]
  <1>1. /\ reply.ok /\ shown = RenderLatest(reply) /\ Answered /\ daemon # Absent
        /\ request = RequestFor(command.command, command.now)
    BY ShownIs, CommandSentIs DEF Render
  <1>2. request.op = "latest"
    <2>1. request = Object("latest") BY <1>1 DEF RequestFor
    <2>2. QED BY <2>1 DEF Object
  <1>3. reply \in LatestAnswers
    <2>1. ASSUME NEW why PROVE ~Error(why).ok BY DEF Error
    <2>2. QED BY <1>1, <1>2, <2>1 DEF Answered, Refused, AnsweredAtOnce, AnsweredByStore
  <1>4. reply.timestamp # Null BY <1>1 DEF RenderLatest
  <1>5. shown.values = [name \in DOMAIN reply.values |-> Number(reply.values[name])]
    BY <1>1, <1>4 DEF RenderLatest
  <1> DEFINE schema == Schema
             row == [i \in DOMAIN schema |-> Measured(i - 1, 1, "value")]
  <1>6. LatestAnswers =
          {LatestAnswer(schema, << >>)} \cup {LatestAnswer(schema, <<at, row>>) : at \in Instants}
    BY DEF LatestAnswers
  <1>7. schema \in Seq(ToSet(schema)) /\ IsInjective(schema) BY <1>1, SchemaIsGood
  <1> HIDE DEF schema
  <1>8. LatestAnswer(schema, << >>).timestamp = Null BY DEF LatestAnswer
  <1>9. PICK at \in Instants : reply = LatestAnswer(schema, <<at, row>>)
    <2> HIDE DEF row
    <2>1. QED BY <1>3, <1>4, <1>6, <1>8
  <1>10. reply.values =
           [name \in ToSet(schema) |-> Json(Measured(Position(schema, name), 1, "value"))]
    BY <1>7, <1>9, LatestIs
  <1>11. shown.values = [name \in ToSet(schema) |-> Cell(schema, name, 1, "value")]
    BY <1>5, <1>10 DEF Cell
  <1>12. QED BY <1>11 DEF schema

(* The call on the store that a `read` of smq leads to.                    *)
LEMMA ReadIsAsked ==
  ASSUME Exchange, shown # Absent, ~command.json, command.command.op = "read"
  PROVE  LET read == command.command.read
             wanted == IF read["--metric"] = << >> THEN Absent ELSE read["--metric"]
         IN
         /\ read \in ReadSettings(SmqArguments)
         /\ ~Unknown(Schema, wanted)
         /\ asked.names = ResolveMetrics(Schema, wanted).names
         /\ asked.columns = ResolveMetrics(Schema, wanted).columns
         /\ asked.step = read["--step"] /\ asked.points = read["--points"]
         /\ asked.extremes = read["--extremes"]
         /\ asked.extremes => asked.step # Absent \/ asked.points # Absent
         /\ read["--from"] # Absent => asked.from = Resolve(read["--from"], command.now)
         /\ read["--to"] # Absent => asked.to = Resolve(read["--to"], command.now)
         /\ reply \in ReadAnswers(asked)
  <1> DEFINE made == command.command
             read == made.read
             now == command.now
             metric == read["--metric"]
             wanted == IF metric = << >> THEN Absent ELSE metric
             params == Params(request)
  <1>1. /\ reply.ok /\ Answered /\ now \in Clock /\ made \in Commands(SmqArguments)
        /\ request = RequestFor(made, now)
    BY ShownIs, CommandSentIs
  <1>2. /\ read \in ReadSettings(SmqArguments) /\ ~BadOptions(read)
        /\ request = ReadRequest(read, now)
    <2>1. made.op \notin PlainOps /\ made.op # "raw" BY DEF PlainOps
    <2> HIDE DEF made, now
    <2>2. QED BY <1>1, <2>1, RequestIs
  <1> HIDE DEF made, read, now
  <1>3. /\ request.op = "read"
        /\ request.from = (IF read["--from"] = Absent THEN Absent ELSE Resolve(read["--from"], now))
        /\ request.to = (IF read["--to"] = Absent THEN Absent ELSE Resolve(read["--to"], now))
        /\ request.metrics = wanted
        /\ request.step_ms = read["--step"] /\ request.max_points = read["--points"]
        /\ request.extremes = (IF read["--extremes"] THEN TRUE ELSE Absent)
    <2> DEFINE got == ReadRequest(read, now)
    <2>1. /\ got.op = "read"
          /\ got.from = (IF read["--from"] = Absent THEN Absent ELSE Resolve(read["--from"], now))
          /\ got.to = (IF read["--to"] = Absent THEN Absent ELSE Resolve(read["--to"], now))
          /\ got.metrics = (IF read["--metric"] = << >> THEN Absent ELSE read["--metric"])
          /\ got.step_ms = read["--step"] /\ got.max_points = read["--points"]
          /\ got.extremes = (IF read["--extremes"] THEN TRUE ELSE Absent)
      BY <1>1, <1>2, ReadRequestIs
    <2>2. request = got BY <1>2
    <2> HIDE DEF got
    <2>3. QED BY <2>1, <2>2
  <1>4. AnsweredByStore
    <2>1. ASSUME NEW why PROVE ~Error(why).ok BY DEF Error
    <2>2. QED BY <1>1, <1>3, <2>1 DEF Answered, Refused, AnsweredAtOnce
  <1>5. /\ ~Unknown(Schema, params.metrics) /\ asked = StoreCall(Schema, params)
        /\ reply \in ReadAnswers(asked)
    <2>1. ASSUME NEW why PROVE ~Error(why).ok BY DEF Error
    <2>2. QED BY <1>1, <1>4, <2>1 DEF AnsweredByStore
  <1>6. /\ read["--from"] \in {Absent} \cup TimesToAsk /\ read["--to"] \in {Absent} \cup TimesToAsk
        /\ metric \in Seq(SmqWords) /\ read["--step"] \in {Absent} \cup (Nat \ {0})
        /\ read["--points"] \in {Absent} \cup Nat /\ read["--extremes"] \in BOOLEAN
    BY <1>2 DEF ReadSettings, SmqWords, SmqArguments
  <1> HIDE DEF metric
  <1>7. /\ \A n \in Nat : n \notin {Absent, Null, Junk}
        /\ \A list \in Seq(SmqWords) : list \notin {Absent, Null, Junk}
        /\ TRUE # Absent
    BY OddAssumption DEF Odd
  <1>8. params.metrics = wanted
    <2>1. params.metrics = IF Given(wanted) THEN wanted ELSE Absent BY <1>3, ParamsAre
    <2>2. wanted = Absent \/ Given(wanted) BY <1>6, <1>7 DEF Given
    <2>3. QED BY <2>1, <2>2
  <1>9. params.step = read["--step"] /\ params.points = read["--points"]
    BY <1>3, <1>6, <1>7, ParamsAre DEF Given
  <1>10. params.extremes = read["--extremes"]
    <2>1. params.extremes = (request.extremes = TRUE) BY ParamsAre
    <2>2. CASE read["--extremes"] = TRUE BY <1>3, <2>1, <2>2
    <2>3. CASE read["--extremes"] = FALSE BY <1>3, <1>7, <2>1, <2>3
    <2>4. QED BY <1>6, <2>2, <2>3
  <1>11. read["--from"] # Absent => params.from = Resolve(read["--from"], now)
    <2>1. SUFFICES ASSUME read["--from"] # Absent PROVE params.from = Resolve(read["--from"], now)
      OBVIOUS
    <2>2. request.from = Resolve(read["--from"], now) BY <1>3, <2>1
    <2>3. Resolve(read["--from"], now) \in Nat BY <1>1, <1>6, <2>1, ResolveIs DEF now
    <2>4. Given(request.from) BY <1>7, <2>2, <2>3 DEF Given
    <2>5. QED BY <2>2, <2>4, ParamsAre
  <1>12. read["--to"] # Absent => params.to = Resolve(read["--to"], now)
    <2>1. SUFFICES ASSUME read["--to"] # Absent PROVE params.to = Resolve(read["--to"], now)
      OBVIOUS
    <2>2. request.to = Resolve(read["--to"], now) BY <1>3, <2>1
    <2>3. Resolve(read["--to"], now) \in Nat BY <1>1, <1>6, <2>1, ResolveIs DEF now
    <2>4. Given(request.to) BY <1>7, <2>2, <2>3 DEF Given
    <2>5. QED BY <2>2, <2>4, ParamsAre
  <1> HIDE DEF wanted, params
  <1>13. /\ asked.from = params.from /\ asked.to = params.to
         /\ asked.columns = ResolveMetrics(Schema, params.metrics).columns
         /\ asked.names = ResolveMetrics(Schema, params.metrics).names
         /\ asked.step = params.step /\ asked.points = params.points
         /\ asked.extremes = params.extremes
    BY <1>5 DEF StoreCall
  <1>14. asked.extremes => asked.step # Absent \/ asked.points # Absent
    BY <1>2, <1>9, <1>10, <1>13 DEF BadOptions
  <1>15. QED
    BY <1>2, <1>5, <1>8, <1>9, <1>10, <1>11, <1>12, <1>13, <1>14
       DEF wanted, metric, read, made, now

LEMMA ReadShown ==
  ASSUME Exchange, shown # Absent, ~command.json, command.command.op = "read"
  PROVE  LET read == command.command.read
             names == ToSet(IF read["--metric"] = << >> THEN Schema ELSE read["--metric"])
             grouped == read["--step"] # Absent \/ read["--points"] # Absent
         IN
         /\ \A name \in names :
              HasColumn(shown, Schema, name, name, IF grouped THEN "avg" ELSE "value")
         /\ read["--extremes"] =>
              \A name \in names : /\ HasColumn(shown, Schema, Heading(name, " (min)"), name, "min")
                                  /\ HasColumn(shown, Schema, Heading(name, " (max)"), name, "max")
         /\ Cardinality(DOMAIN shown.columns) =
              Cardinality(names) * (IF read["--extremes"] THEN 3 ELSE 1)
  <1> DEFINE read == command.command.read
             metric == read["--metric"]
             wanted == IF metric = << >> THEN Absent ELSE metric
             schema == Schema
             found == ResolveMetrics(schema, wanted)
             names == ToSet(IF metric = << >> THEN schema ELSE metric)
             grouped == read["--step"] # Absent \/ read["--points"] # Absent
  <1>1. shown = RenderRead(reply) /\ daemon # Absent BY ShownIs DEF Render
  <1>2. /\ schema \in Seq(ToSet(schema)) /\ IsInjective(schema)
        /\ ToSet(schema) \in SUBSET MetricNames /\ IsFiniteSet(ToSet(schema))
    BY <1>1, SchemaIsGood
  <1>3. /\ read \in ReadSettings(SmqArguments) /\ ~Unknown(schema, wanted)
        /\ asked.names = found.names /\ asked.columns = found.columns
        /\ asked.step = read["--step"] /\ asked.points = read["--points"]
        /\ asked.extremes = read["--extremes"]
        /\ asked.extremes => asked.step # Absent \/ asked.points # Absent
        /\ reply \in ReadAnswers(asked)
    BY ReadIsAsked
  <1>4. metric \in Seq(SmqWords) /\ read["--extremes"] \in BOOLEAN
    BY <1>3 DEF ReadSettings, SmqWords, SmqArguments
  <1> HIDE DEF schema, read, metric
  <1>5. metric # Absent BY <1>4, OddAssumption DEF Odd
  <1>6. metric \in Seq(ToSet(metric)) BY <1>4 DEF ToSet
  <1>7. (IF wanted = Absent THEN schema ELSE wanted) = (IF metric = << >> THEN schema ELSE metric)
    BY <1>5
  <1>8. wanted = Absent \/ wanted \in Seq(ToSet(wanted)) BY <1>6
  <1> HIDE DEF wanted
  <1>9. found \in FoundIn(schema) /\ ToSet(found.names) = names
    BY <1>2, <1>3, <1>7, <1>8, NamesAreResolved
  <1> HIDE DEF found, names
  <1>10. names \in SUBSET ToSet(schema)
    <2>1. found.names \in Seq(ToSet(schema)) BY <1>9 DEF FoundIn
    <2>2. QED BY <1>9, <2>1 DEF ToSet
  <1>11. names \in SUBSET MetricNames /\ IsFiniteSet(names) BY <1>2, <1>10, FS_Subset
  <1>12. PICK rows \in Nat : HasAnswer(reply, asked, schema, names, rows)
    BY <1>2, <1>3, <1>9, AnswerHas
  <1>13. asked.extremes \in BOOLEAN BY <1>3, <1>4
  <1> DEFINE kind == IF asked.step = Absent /\ asked.points = Absent THEN "value" ELSE "avg"
             least == " (min)"
             most == " (max)"
  <1>14. /\ \A name \in names : HasColumn(shown, schema, name, name, kind)
         /\ asked.extremes =>
              \A name \in names : /\ HasColumn(shown, schema, Heading(name, least), name, "min")
                                  /\ HasColumn(shown, schema, Heading(name, most), name, "max")
         /\ Cardinality(DOMAIN shown.columns)
              = Cardinality(names) * (IF asked.extremes THEN 3 ELSE 1)
    BY <1>1, <1>11, <1>12, <1>13, ReadIsShown, Zenon
  <1>15. kind = IF grouped THEN "avg" ELSE "value" BY <1>3
  <1> HIDE DEF kind, least, most, grouped
  <1>16. /\ \A name \in names : HasColumn(shown, schema, name, name, IF grouped THEN "avg" ELSE "value")
         /\ read["--extremes"] =>
              \A name \in names : /\ HasColumn(shown, schema, Heading(name, least), name, "min")
                                  /\ HasColumn(shown, schema, Heading(name, most), name, "max")
         /\ Cardinality(DOMAIN shown.columns)
              = Cardinality(names) * (IF read["--extremes"] THEN 3 ELSE 1)
    BY <1>3, <1>14, <1>15
  <1>17. QED BY <1>16, Zenon DEF names, grouped, least, most, schema, metric, read

(* The times that are meant.                                               *)
LEMMA TimesAsked ==
  ASSUME Exchange, shown # Absent, ~command.json, command.command.op = "read"
  PROVE  LET read == command.command.read IN
         /\ read["--from"] # Absent => IsMeant(asked.from, read["--from"], command.now)
         /\ read["--to"] # Absent => IsMeant(asked.to, read["--to"], command.now)
  <1> DEFINE read == command.command.read
             now == command.now
             from == read["--from"]
             to == read["--to"]
  <1>1. /\ from # Absent => asked.from = Resolve(from, now)
        /\ to # Absent => asked.to = Resolve(to, now)
        /\ read \in ReadSettings(SmqArguments)
    BY ReadIsAsked
  <1>2. from \in {Absent} \cup TimesToAsk /\ to \in {Absent} \cup TimesToAsk
    BY <1>1 DEF ReadSettings
  <1>3. now \in Nat
    <2>1. now \in Clock BY ShownIs, CommandSentIs
    <2> HIDE DEF now
    <2>2. QED BY <2>1, ClockAssumption
  <1> HIDE DEF read, now, from, to
  <1>4. \A time \in TimesToAsk :
          Resolve(time, now) = IF ~time.ago THEN time.ms
                               ELSE IF time.ms > now THEN 0 ELSE now - time.ms
    BY DEF Resolve
  <1>5. \A time \in TimesToAsk : time.ms \in Nat BY DEF TimesToAsk
  <1>6. \A time \in TimesToAsk : IsMeant(Resolve(time, now), time, now)
    BY <1>3, <1>4, <1>5 DEF IsMeant
  <1>7. from # Absent => IsMeant(asked.from, from, now) BY <1>1, <1>2, <1>6
  <1>8. to # Absent => IsMeant(asked.to, to, now) BY <1>1, <1>2, <1>6
  <1>9. QED BY <1>6, <1>7, <1>8 DEF from, to, read, now

LEMMA WhatIsShown == Exchange => ShownUnderItsName
  <1> SUFFICES ASSUME Exchange, shown # Absent, ~command.json PROVE ShownUnderItsName
    BY DEF ShownUnderItsName
  <1>1. command.command.op = "latest" /\ "values" \in DOMAIN shown =>
          shown.values = [name \in ToSet(Schema) |-> Cell(Schema, name, 1, "value")]
    BY LatestShown
  <1> DEFINE read == command.command.read
             names == ToSet(IF read["--metric"] = << >> THEN Schema ELSE read["--metric"])
             grouped == read["--step"] # Absent \/ read["--points"] # Absent
             least == " (min)"
             most == " (max)"
  <1>2. command.command.op = "read" =>
          /\ \A name \in names :
               HasColumn(shown, Schema, name, name, IF grouped THEN "avg" ELSE "value")
          /\ read["--extremes"] =>
               \A name \in names : /\ HasColumn(shown, Schema, Heading(name, least), name, "min")
                                   /\ HasColumn(shown, Schema, Heading(name, most), name, "max")
          /\ Cardinality(DOMAIN shown.columns) =
               Cardinality(names) * (IF read["--extremes"] THEN 3 ELSE 1)
    BY ReadShown, Zenon
  <1>3. command.command.op = "read" =>
         /\ read["--from"] # Absent => IsMeant(asked.from, read["--from"], command.now)
         /\ read["--to"] # Absent => IsMeant(asked.to, read["--to"], command.now)
    BY TimesAsked
  <1>4. QED BY <1>1, <1>2, <1>3, Zenon DEF ShownUnderItsName, HasColumn, Cell

(* What smq prints under a name is what the store had in the column of that*)
(* name, whatever the daemon's interfaces and whatever was asked for:      *)
(* resolve_metrics and write_series of protocol.rs, render_read of query.rs*)
THEOREM EachUnderItsName == Spec => []ShownUnderItsName
  BY AlwaysExchange, WhatIsShown, PTL
=============================================================================
