------------------------------ MODULE AdhocProofs ------------------------------
(***************************************************************************)
(* EpochsEnd, for every program text: whatever the three analyses make of  *)
(* it and whatever edges they add, nobody's clock holds the epoch another  *)
(* thread is in, but for the epochs loop.cc leaves to an unlock.           *)
(*                                                                         *)
(* Every clock that is kept for later is either one that its thread had    *)
(* when it was taken (Had) or one that anybody may join (Learnable); the   *)
(* invariant says which, field by field of d, and each function of the     *)
(* analyses keeps it.                                                      *)
(***************************************************************************)
EXTENDS AdhocDetector, FiniteSetTheorems, TLAPS

-----------------------------------------------------------------------------
(* The invariant. *)

\* Who learns c does not share u's epoch, or it is one that is left to an unlock.
Behind(e, c, u) == c[u] < e.vc[u][u] \/ (c[u] = e.vc[u][u] /\ <<u, c[u]>> \in e.protected)

\* Anybody may join c; t had it as its own.
Learnable(e, c) == c \in Clock /\ \A u \in Thread : Behind(e, c, u)
Had(e, c, t)    == c \in Clock /\ c[t] <= e.vc[t][t] /\ \A u \in Thread \ {t} : Behind(e, c, u)

\* A signal meta of t has a clock t had, in an epoch that the signal has ended.
MetaFine(e, m, t) ==
  /\ "vc" \in DOMAIN m /\ "active" \in DOMAIN m
  /\ Had(e, m.vc, t)
  /\ m.active => m.vc[t] < e.vc[t][t]

Sequence(s) == s \in Seq(ToSet(s))

Fields(e) ==
  /\ "vc" \in DOMAIN e /\ "protected" \in DOMAIN e /\ "crashed" \in DOMAIN e
  /\ "mutexVc" \in DOMAIN e /\ "waitTable" \in DOMAIN e /\ "signalTable" \in DOMAIN e
  /\ "writes" \in DOMAIN e /\ "spin" \in DOMAIN e /\ "signals" \in DOMAIN e /\ "cw" \in DOMAIN e

ThreadsFine(e) ==
  /\ e.vc \in [Thread -> Clock]
  /\ \A t \in Thread : e.vc[t][t] > 0 /\ Had(e, e.vc[t], t)

TablesFine(e) ==
  /\ DOMAIN e.mutexVc = Lock /\ \A l \in Lock : Learnable(e, e.mutexVc[l])
  /\ DOMAIN e.waitTable = Thread /\ \A t \in Thread : Learnable(e, e.waitTable[t])
  /\ DOMAIN e.signalTable = Thread /\ \A t \in Thread : Learnable(e, e.signalTable[t])

WriteFine(e, w)  == w.thd \in Thread /\ Had(e, w.vc, w.thd)
WritesFine(e) == DOMAIN e.writes = Addr /\ \A a \in Addr : e.writes[a] # None => WriteFine(e, e.writes[a])

SpinFine(e) ==
  /\ DOMAIN e.spin = Thread
  /\ \A t \in Thread : e.spin[t] # None =>
       "wrthd" \in DOMAIN e.spin[t] /\ e.spin[t].wrthd \in Thread \cup {NoThread}

SignalsFine(e) ==
  /\ DOMAIN e.signals = Thread
  /\ \A t \in Thread : Sequence(e.signals[t]) /\ \A m \in ToSet(e.signals[t]) : MetaFine(e, m, t)

WaiterFine(e, w) == w.owner \in Thread /\ Learnable(e, w.vc)
WaitersFine(e) == DOMAIN e.cw = Thread /\ \A t \in Thread : e.cw[t] # None => WaiterFine(e, e.cw[t])

Fine(e) ==
  /\ Fields(e) /\ ThreadsFine(e) /\ TablesFine(e)
  /\ WritesFine(e) /\ SpinFine(e) /\ SignalsFine(e) /\ WaitersFine(e)

\* A thread is somewhere in the text, and asleep where it waits.
AdhocInv ==
  /\ pc \in [Thread -> DOMAIN Text] /\ DOMAIN phase = Thread
  /\ \A t \in Thread : phase[t] \in {"asleep", "woken"} => Op(t) = "wait"
  /\ Fine(d)

LEMMA FineEpochs == AdhocInv => EpochsEnd
  <1> SUFFICES ASSUME AdhocInv, NEW t \in Thread, NEW u \in Thread \ {t}
               PROVE  d.vc[t][u] < d.vc[u][u] \/ <<u, d.vc[u][u]>> \in d.protected
    BY DEF EpochsEnd
  <1>1. Behind(d, d.vc[t], u) BY DEF AdhocInv, Fine, ThreadsFine, Had
  <1> QED BY <1>1 DEF Behind

-----------------------------------------------------------------------------
(* Numbers and sequences. *)

\* A set of numbers, not empty, has a least.
LEMMA LeastOf ==
  ASSUME NEW S \in SUBSET Nat, S # {}
  PROVE  \E n \in S : \A k \in S : n <= k
  <1>1. PICK n \in S : \A k \in S : ~ (<<k, n>> \in OpToRel(<, Nat))
    BY NatLessThanWellFounded, WFMin, Zenon
  <1>2. \A k \in S : ~ (k < n) BY <1>1, Zenon DEF OpToRel
  <1> QED BY <1>2

\* A finite one has a greatest.
LEMMA GreatestOf ==
  ASSUME NEW S \in SUBSET Nat, IsFiniteSet(S), S # {}
  PROVE  MaxId(S) \in S /\ \A k \in S : k <= MaxId(S)
  <1> DEFINE HasMax(Q) == \E m \in Q : \A k \in Q : k <= m
             Bad == {n \in Nat : \E Q \in SUBSET S : Q # {} /\ ~HasMax(Q) /\ Cardinality(Q) = n}
  <1>0. \A Q \in SUBSET S : IsFiniteSet(Q) /\ Cardinality(Q) \in Nat
    BY FS_Subset, FS_CardinalityType
  <1>1. SUFFICES ASSUME ~HasMax(S) PROVE FALSE
    <2>1. HasMax(S) BY <1>1
    <2> QED BY <2>1, Zenon DEF MaxId
  <1>2. Cardinality(S) \in Bad BY <1>0, <1>1
  <1>3. PICK n \in Bad : \A k \in Bad : n <= k
    <2> HIDE DEF Bad
    <2>1. Bad \in SUBSET Nat BY DEF Bad
    <2> QED BY <1>2, <2>1, LeastOf
  <1>4. PICK Q \in SUBSET S : Q # {} /\ ~HasMax(Q) /\ Cardinality(Q) = n BY <1>3
  <1>5. PICK x \in Q : TRUE BY <1>4
  <1> DEFINE R == Q \ {x}
  <1>6. Cardinality(R) = n - 1 /\ R \in SUBSET S BY <1>0, <1>4, <1>5, FS_RemoveElement
  <1>7. HasMax(R) \/ R = {}
    <2>1. Cardinality(R) \in Nat BY <1>0, <1>6
    <2>2. Cardinality(R) \notin Bad BY <1>3, <1>6, <2>1
    <2> QED BY <2>1, <2>2, <1>6
  <1>8. CASE R = {}
    <2>1. Q = {x} BY <1>5, <1>8
    <2> QED BY <1>4, <2>1
  <1>9. CASE HasMax(R)
    <2>1. PICK m \in R : \A k \in R : k <= m BY <1>9
    <2>2. x \in Nat /\ m \in Nat /\ Q \subseteq Nat BY <1>5, <1>6
    <2>3. \A k \in Q : k = x \/ k <= m BY <2>1
    <2>4. CASE x <= m BY <2>1, <2>2, <2>3, <2>4, <1>4
    <2>5. CASE m <= x BY <1>5, <2>1, <2>2, <2>3, <2>5, <1>4
    <2> QED BY <2>2, <2>4, <2>5
  <1> QED BY <1>7, <1>8, <1>9

LEMMA GreatestThread ==
  ASSUME NEW S \in SUBSET Thread, S # {}
  PROVE  MaxId(S) \in S
  <1>1. S \in SUBSET Nat /\ IsFiniteSet(S) BY ThreadIds, FS_Subset
  <1> QED BY <1>1, GreatestOf

\* And so many have a place each.
LEMMA PlaceInOrder ==
  ASSUME NEW S \in SUBSET Nat, IsFiniteSet(S), NEW n \in 1..Cardinality(S)
  PROVE  \E k \in S : Cardinality({j \in S : j < k}) = n - 1
  <1> DEFINE Below(k) == {j \in S : j < k}
             Late == {k \in S : Cardinality(Below(k)) >= n - 1}
  <1>0. Cardinality(S) \in Nat /\ \A k : IsFiniteSet(Below(k)) /\ Cardinality(Below(k)) \in Nat
    BY FS_Subset, FS_CardinalityType
  <1>1. ASSUME NEW T \in SUBSET S, T # {}, NEW k \in Nat, T = Below(k) \/ T = S
        PROVE  \E p \in T : Cardinality(T) = Cardinality(Below(p)) + 1
    <2>1. IsFiniteSet(T) /\ T \in SUBSET Nat BY FS_Subset
    <2>2. PICK p \in T : \A j \in T : j <= p BY <1>1, <2>1, GreatestOf
    <2>3. Below(p) = T \ {p}
      <3>1. ASSUME NEW j \in S, j < p PROVE j \in T /\ j # p
        BY <1>1, <2>1, <2>2, <3>1
      <3>2. ASSUME NEW j \in T, j # p PROVE j \in S /\ j < p BY <2>1, <2>2, <3>2
      <3> QED BY <3>1, <3>2
    <2>4. Cardinality(T \ {p}) = Cardinality(T) - 1 /\ Cardinality(T) \in Nat
      BY <2>1, <2>2, FS_RemoveElement, FS_CardinalityType
    <2>5. Cardinality(Below(p)) = Cardinality(T \ {p}) BY <2>3
    <2> HIDE DEF Below
    <2> QED BY <2>2, <2>4, <2>5
  <1>2. S # {} BY FS_EmptySet
  <1>3. Late # {}
    <2>1. PICK p \in S : Cardinality(S) = Cardinality(Below(p)) + 1 BY <1>1, <1>2
    <2>2. Cardinality(Below(p)) >= n - 1
      <3>1. Cardinality(Below(p)) \in Nat /\ Cardinality(S) \in Nat BY <1>0
      <3> HIDE DEF Below
      <3> QED BY <2>1, <3>1
    <2> QED BY <2>1, <2>2
  <1>4. PICK k \in Late : \A j \in Late : k <= j
    <2> HIDE DEF Late
    <2>1. Late \in SUBSET Nat BY DEF Late
    <2> QED BY <1>3, <2>1, LeastOf
  <1>5. CASE Below(k) = {}
    <2>1. Cardinality(Below(k)) = 0 BY <1>5, FS_EmptySet
    <2>2. k \in S /\ Cardinality(Below(k)) >= n - 1 BY <1>4
    <2>3. Cardinality(Below(k)) = n - 1
      <3> HIDE DEF Below
      <3> QED BY <2>1, <2>2
    <2> QED BY <2>2, <2>3
  <1>6. CASE Below(k) # {}
    <2>1. PICK p \in Below(k) : Cardinality(Below(k)) = Cardinality(Below(p)) + 1 BY <1>1, <1>6
    <2>2. p \notin Late BY <1>4, <2>1
    <2>3. Cardinality(Below(p)) < n - 1 BY <1>0, <2>1, <2>2
    <2>4. k \in S /\ Cardinality(Below(k)) >= n - 1 BY <1>4
    <2>5. Cardinality(Below(k)) = n - 1
      <3>1. Cardinality(Below(p)) \in Nat /\ Cardinality(Below(k)) \in Nat BY <1>0
      <3> HIDE DEF Below
      <3> QED BY <2>1, <2>3, <2>4, <3>1
    <2> QED BY <2>4, <2>5
  <1> QED BY <1>5, <1>6

\* The last one of a sequence is replaced, or dropped, or another one added.
LEMMA Sequences ==
  ASSUME NEW s, Sequence(s), NEW x
  PROVE  /\ Sequence(s \o <<x>>) /\ ToSet(s \o <<x>>) \subseteq ToSet(s) \cup {x}
         /\ s # << >> => /\ Last(s) \in ToSet(s)
                         /\ Sequence(Front(s)) /\ ToSet(Front(s)) \subseteq ToSet(s)
                         /\ Sequence(Front(s) \o <<x>>)
                         /\ ToSet(Front(s) \o <<x>>) \subseteq ToSet(s) \cup {x}
  <1> DEFINE S == ToSet(s)
  <1>0. s \in Seq(S) BY DEF Sequence
  <1>1. ASSUME NEW T, NEW r \in Seq(T) PROVE Sequence(r) /\ ToSet(r) \subseteq T
    <2>1. ToSet(r) = {r[i] : i \in 1..Len(r)} BY DEF ToSet
    <2> QED BY <2>1 DEF Sequence
  <1>2. s \o <<x>> \in Seq(S \cup {x}) BY <1>0
  <1>3. ASSUME s # << >>
        PROVE  Last(s) \in S /\ Front(s) \in Seq(S) /\ Front(s) \o <<x>> \in Seq(S \cup {x})
    <2>1. Len(s) \in Nat \ {0} /\ DOMAIN s = 1..Len(s) BY <1>0, <1>3
    <2>2. Last(s) \in S BY <2>1 DEF Last, ToSet
    <2>3. Front(s) \in Seq(S) BY <1>0, <2>1 DEF Front
    <2>4. Front(s) \in Seq(S \cup {x}) /\ <<x>> \in Seq(S \cup {x}) BY <1>0, <2>1 DEF Front
    <2> QED BY <2>2, <2>3, <2>4
  <1> QED BY <1>1, <1>2, <1>3

-----------------------------------------------------------------------------
(* What a function of the analyses does to the clocks. *)

\* Epochs only go on, and what is left to an unlock stays so.
Advanced(c, e) ==
  /\ \A u \in Thread : c.vc[u][u] <= e.vc[u][u]
  /\ c.protected \subseteq e.protected

LEMMA StillBehind ==
  ASSUME NEW c, NEW e, c.vc \in [Thread -> Clock], e.vc \in [Thread -> Clock], Advanced(c, e),
         NEW x \in Clock
  PROVE  /\ \A u \in Thread : Behind(c, x, u) => Behind(e, x, u)
         /\ Learnable(c, x) => Learnable(e, x)
         /\ \A t \in Thread : Had(c, x, t) => Had(e, x, t)
  <1>1. ASSUME NEW u \in Thread
        PROVE  /\ Behind(c, x, u) => Behind(e, x, u)
               /\ x[u] <= c.vc[u][u] => x[u] <= e.vc[u][u]
    <2>1. x[u] \in Nat /\ c.vc[u][u] \in Nat /\ e.vc[u][u] \in Nat BY DEF Clock
    <2>2. c.vc[u][u] <= e.vc[u][u] /\ c.protected \subseteq e.protected BY DEF Advanced
    <2> QED BY <2>1, <2>2 DEF Behind
  <1> QED BY <1>1 DEF Learnable, Had

LEMMA StillFine ==
  ASSUME NEW c, NEW e, c.vc \in [Thread -> Clock], e.vc \in [Thread -> Clock], Advanced(c, e),
         NEW t \in Thread, NEW m, MetaFine(c, m, t)
  PROVE  MetaFine(e, m, t)
  <1>1. Had(e, m.vc, t) BY StillBehind DEF MetaFine, Had
  <1>2. c.vc[t][t] \in Nat /\ e.vc[t][t] \in Nat /\ m.vc[t] \in Nat /\ c.vc[t][t] <= e.vc[t][t]
    BY DEF Clock, Advanced, MetaFine, Had
  <1> QED BY <1>1, <1>2 DEF MetaFine

\* The clocks in e are those in c or fine by themselves.
LEMMA FineStep ==
  ASSUME NEW c, Fine(c), NEW e, Fields(e), ThreadsFine(e), Advanced(c, e),
         DOMAIN e.mutexVc = Lock,
         \A l \in Lock : e.mutexVc[l] = c.mutexVc[l] \/ Learnable(e, e.mutexVc[l]),
         DOMAIN e.waitTable = Thread,
         \A t \in Thread : e.waitTable[t] = c.waitTable[t] \/ Learnable(e, e.waitTable[t]),
         DOMAIN e.signalTable = Thread,
         \A t \in Thread : e.signalTable[t] = c.signalTable[t] \/ Learnable(e, e.signalTable[t]),
         DOMAIN e.writes = Addr,
         \A a \in Addr : e.writes[a] = c.writes[a] \/ WriteFine(e, e.writes[a]),
         SpinFine(e),
         DOMAIN e.signals = Thread,
         \A t \in Thread : /\ Sequence(e.signals[t])
                           /\ \A m \in ToSet(e.signals[t]) : m \in ToSet(c.signals[t]) \/ MetaFine(e, m, t),
         DOMAIN e.cw = Thread,
         \A t \in Thread : \/ e.cw[t] = c.cw[t] \/ e.cw[t] = None
                           \/ WaiterFine(e, e.cw[t])
  PROVE  Fine(e)
  <1>0. c.vc \in [Thread -> Clock] /\ e.vc \in [Thread -> Clock] BY DEF Fine, ThreadsFine
  <1>1. \A x \in Clock : /\ Learnable(c, x) => Learnable(e, x)
                         /\ \A t \in Thread : Had(c, x, t) => Had(e, x, t)
    BY <1>0, StillBehind
  <1>2. TablesFine(e) BY <1>1 DEF TablesFine, Fine, Learnable
  <1>3. WritesFine(e)
    <2> SUFFICES ASSUME NEW a \in Addr, e.writes[a] # None, e.writes[a] = c.writes[a]
                 PROVE  WriteFine(e, e.writes[a])
      BY DEF WritesFine
    <2>1. WriteFine(c, e.writes[a]) BY DEF Fine, WritesFine
    <2> QED BY <1>1, <2>1 DEF WriteFine, Had
  <1>4. SignalsFine(e)
    <2> SUFFICES ASSUME NEW t \in Thread, NEW m \in ToSet(e.signals[t]), m \in ToSet(c.signals[t])
                 PROVE  MetaFine(e, m, t)
      BY DEF SignalsFine
    <2>1. MetaFine(c, m, t) BY DEF Fine, SignalsFine
    <2> QED BY <1>0, <2>1, StillFine
  <1>5. WaitersFine(e)
    <2> SUFFICES ASSUME NEW t \in Thread, e.cw[t] # None, e.cw[t] = c.cw[t]
                 PROVE  WaiterFine(e, e.cw[t])
      BY DEF WaitersFine
    <2>1. WaiterFine(c, e.cw[t]) BY DEF Fine, WaitersFine
    <2> QED BY <1>1, <2>1 DEF WaiterFine, Learnable
  <1> QED BY <1>2, <1>3, <1>4, <1>5 DEF Fine

\* Nothing moves but spin, signals and cw.
LEMMA FineStill ==
  ASSUME NEW c, Fine(c), NEW e, Fields(e),
         e.vc = c.vc, e.protected = c.protected, e.mutexVc = c.mutexVc,
         e.waitTable = c.waitTable, e.signalTable = c.signalTable, e.writes = c.writes,
         SpinFine(e),
         DOMAIN e.signals = Thread,
         \A t \in Thread : /\ Sequence(e.signals[t])
                           /\ \A m \in ToSet(e.signals[t]) : m \in ToSet(c.signals[t]) \/ MetaFine(e, m, t),
         DOMAIN e.cw = Thread,
         \A t \in Thread : \/ e.cw[t] = c.cw[t] \/ e.cw[t] = None
                           \/ WaiterFine(e, e.cw[t])
  PROVE  Fine(e)
  <1>1. /\ DOMAIN e.mutexVc = Lock /\ DOMAIN e.waitTable = Thread /\ DOMAIN e.signalTable = Thread
        /\ DOMAIN e.writes = Addr
    BY DEF Fine, TablesFine, WritesFine
  <1>2. ThreadsFine(e) BY DEF Fine, ThreadsFine, Had, Behind
  <1>3. Advanced(c, e)
    <2>1. \A u \in Thread : c.vc[u][u] \in Nat BY DEF Fine, ThreadsFine, Clock
    <2> QED BY <2>1 DEF Advanced
  <1>4. /\ \A l \in Lock : e.mutexVc[l] = c.mutexVc[l]
        /\ \A t \in Thread : e.waitTable[t] = c.waitTable[t] /\ e.signalTable[t] = c.signalTable[t]
        /\ \A a \in Addr : e.writes[a] = c.writes[a]
    OBVIOUS
  <1> QED BY <1>1, <1>2, <1>3, <1>4, FineStep

\* Nothing moves that matters.
LEMMA FineSame ==
  ASSUME NEW c, Fine(c), NEW e, Fields(e),
         e.vc = c.vc, e.protected = c.protected, e.mutexVc = c.mutexVc,
         e.waitTable = c.waitTable, e.signalTable = c.signalTable, e.writes = c.writes,
         e.spin = c.spin, e.signals = c.signals, e.cw = c.cw
  PROVE  Fine(e)
  <1>1. SpinFine(e) BY DEF Fine, SpinFine
  <1>2. /\ DOMAIN e.signals = Thread /\ DOMAIN e.cw = Thread
        /\ \A t \in Thread : Sequence(e.signals[t])
    BY DEF Fine, SignalsFine, WaitersFine
  <1> QED BY <1>1, <1>2, FineStill

\* A join with a clock that may be learnt.
LEMMA JoinLearnt ==
  ASSUME NEW c, c.vc \in [Thread -> Clock], NEW x \in Clock, NEW y \in Clock, NEW u \in Thread
  PROVE  /\ Join(x, y) \in Clock
         /\ Behind(c, x, u) /\ Behind(c, y, u) => Behind(c, Join(x, y), u)
         /\ x[u] <= c.vc[u][u] /\ y[u] <= c.vc[u][u] => Join(x, y)[u] <= c.vc[u][u]
         /\ y[u] <= x[u] => Join(x, y)[u] = x[u]
         /\ Behind(c, x, u) => x[u] <= c.vc[u][u]
  <1>1. x[u] \in Nat /\ y[u] \in Nat /\ c.vc[u][u] \in Nat BY DEF Clock
  <1>2. Join(x, y)[u] = IF x[u] < y[u] THEN y[u] ELSE x[u] BY DEF Join
  <1>3. Join(x, y) \in Clock
    <2>1. \A v \in Thread : x[v] \in Nat /\ y[v] \in Nat BY DEF Clock
    <2> QED BY <2>1 DEF Join, Clock
  <1> QED BY <1>1, <1>2, <1>3 DEF Behind

\* A thread learns a clock, of another or from a table; w, if there is one, is in a
\* new epoch, and what t learns of it is of an older one or is left to an unlock.
LEMMA LearnFine ==
  ASSUME NEW c, Fine(c), NEW e, Fields(e), NEW t \in Thread, NEW x \in Clock, NEW w \in Thread,
         \/ e.vc = [c.vc EXCEPT ![t] = Join(@, x)]
         \/ e.vc = [[c.vc EXCEPT ![t] = Join(@, x)] EXCEPT ![w] = Increment(@, w)]
         \/ w # t /\ e.vc = [[c.vc EXCEPT ![w] = Increment(@, w)] EXCEPT ![t] = Join(@, x)],
         c.protected \subseteq e.protected,
         \A u \in Thread \ {w} : Behind(c, x, u),
         x[w] <= c.vc[w][w], Behind(e, x, w)
  PROVE  ThreadsFine(e) /\ Advanced(c, e)
  <1>0. /\ c.vc \in [Thread -> Clock]
        /\ \A v \in Thread : c.vc[v][v] > 0 /\ Had(c, c.vc[v], v)
    BY DEF Fine, ThreadsFine
  <1> DEFINE Up == {v \in {w} : e.vc # [c.vc EXCEPT ![t] = Join(@, x)]}
  <1>1. /\ Join(c.vc[t], x) \in Clock /\ x[t] <= c.vc[t][t]
        /\ Join(c.vc[t], x)[t] = c.vc[t][t]
    <2>1. x[t] <= c.vc[t][t] BY <1>0, JoinLearnt
    <2> QED BY <1>0, <2>1, JoinLearnt
  <1>2. /\ e.vc \in [Thread -> Clock]
        /\ \A v \in Thread : e.vc[v][v] = c.vc[v][v] \/ (v = w /\ e.vc[v][v] = c.vc[v][v] + 1)
        /\ \A v \in Thread, u \in Thread : u # v =>
             e.vc[v][u] = IF v = t THEN Join(c.vc[t], x)[u] ELSE c.vc[v][u]
    <2> DEFINE j == Join(c.vc[t], x)
    <2>0. /\ j \in Clock /\ j[t] = c.vc[t][t]
          /\ \A y \in Clock : /\ Increment(y, w) \in Clock /\ Increment(y, w)[w] = y[w] + 1
                             /\ \A u \in Thread \ {w} : Increment(y, w)[u] = y[u]
      BY <1>1 DEF Increment, Clock
    <2> HIDE DEF j
    <2>1. CASE e.vc = [c.vc EXCEPT ![t] = j] BY <1>0, <2>0, <2>1
    <2>2. CASE e.vc = [[c.vc EXCEPT ![t] = j] EXCEPT ![w] = Increment(@, w)]
      <3>1. CASE w = t
        <4>1. e.vc = [c.vc EXCEPT ![t] = Increment(j, w)] BY <1>0, <2>2, <3>1
        <4> QED BY <1>0, <2>0, <3>1, <4>1
      <3>2. CASE w # t
        <4>1. e.vc = [[c.vc EXCEPT ![t] = j] EXCEPT ![w] = Increment(c.vc[w], w)] BY <1>0, <2>2, <3>2
        <4> QED BY <1>0, <2>0, <3>2, <4>1
      <3> QED BY <3>1, <3>2
    <2>3. CASE w # t /\ e.vc = [[c.vc EXCEPT ![w] = Increment(@, w)] EXCEPT ![t] = Join(@, x)]
      <3>1. e.vc = [[c.vc EXCEPT ![t] = j] EXCEPT ![w] = Increment(c.vc[w], w)] BY <1>0, <2>3 DEF j
      <3> QED BY <1>0, <2>0, <2>3, <3>1
    <2> QED BY <1>0, <2>1, <2>2, <2>3 DEF j
  <1>3. Advanced(c, e)
    <2>1. \A u \in Thread : c.vc[u][u] \in Nat BY <1>0 DEF Clock
    <2> QED BY <1>2, <2>1 DEF Advanced
  <1>4. ASSUME NEW v \in Thread PROVE e.vc[v][v] > 0 /\ Had(e, e.vc[v], v)
    <2>1. e.vc[v][v] > 0 /\ e.vc[v] \in Clock /\ e.vc[v][v] \in Nat
      <3>1. c.vc[v][v] \in Nat BY <1>0 DEF Clock
      <3> QED BY <1>0, <1>2, <3>1 DEF Clock
    <2>2. ASSUME NEW u \in Thread \ {v} PROVE Behind(e, e.vc[v], u)
      <3>1. Behind(e, c.vc[v], u) BY <1>0, <1>2, <1>3, StillBehind DEF Had
      <3>2. CASE v # t BY <1>2, <3>1, <3>2 DEF Behind
      <3>3. CASE v = t
        <4>1. Behind(e, x, u)
          <5>1. CASE u = w BY <5>1
          <5>2. CASE u # w BY <1>0, <1>2, <1>3, <5>2, StillBehind
          <5> QED BY <5>1, <5>2
        <4>2. Behind(e, Join(c.vc[t], x), u) BY <1>0, <1>2, <3>1, <3>3, <4>1, JoinLearnt
        <4> QED BY <1>2, <3>3, <4>2 DEF Behind
      <3> QED BY <3>2, <3>3
    <2> QED BY <2>1, <2>2 DEF Had
  <1> QED BY <1>2, <1>3, <1>4 DEF ThreadsFine

\* What anybody may learn, t may.
LEMMA LearnAny ==
  ASSUME NEW c, Fine(c), NEW e, Fields(e), NEW t \in Thread, NEW x, Learnable(c, x),
         e.vc = [c.vc EXCEPT ![t] = Join(@, x)], e.protected = c.protected
  PROVE  ThreadsFine(e) /\ Advanced(c, e)
  <1>1. /\ c.vc \in [Thread -> Clock] /\ x \in Clock
        /\ \A u \in Thread : Behind(c, x, u)
    BY DEF Learnable, Fine, ThreadsFine
  <1>2. x[t] <= c.vc[t][t] BY <1>1, JoinLearnt
  <1>3. Behind(e, x, t)
    <2>1. e.vc[t][t] = c.vc[t][t] BY <1>1, <1>2, JoinLearnt
    <2> QED BY <1>1, <2>1 DEF Behind
  <1>4. c.protected \subseteq e.protected OBVIOUS
  <1> QED BY <1>1, <1>2, <1>3, <1>4, LearnFine

\* The rest of e is as it was.
LEMMA FineLearnt ==
  ASSUME NEW c, Fine(c), NEW e, Fields(e), ThreadsFine(e), Advanced(c, e),
         e.mutexVc = c.mutexVc, e.waitTable = c.waitTable, e.signalTable = c.signalTable,
         e.writes = c.writes, SpinFine(e), e.signals = c.signals, e.cw = c.cw
  PROVE  Fine(e)
  <1>1. /\ DOMAIN e.mutexVc = Lock /\ DOMAIN e.waitTable = Thread /\ DOMAIN e.signalTable = Thread
        /\ DOMAIN e.writes = Addr /\ DOMAIN e.signals = Thread /\ DOMAIN e.cw = Thread
        /\ \A t \in Thread : Sequence(e.signals[t])
    BY DEF Fine, TablesFine, WritesFine, SignalsFine, WaitersFine
  <1> QED BY <1>1, FineStep

-----------------------------------------------------------------------------
(* "dynamic". *)

\* All that matters of c is in e.
Same(c, e) ==
  /\ e.vc = c.vc /\ e.protected = c.protected /\ e.mutexVc = c.mutexVc
  /\ e.waitTable = c.waitTable /\ e.signalTable = c.signalTable /\ e.writes = c.writes
  /\ e.spin = c.spin /\ e.signals = c.signals /\ e.cw = c.cw

LEMMA SameFine == ASSUME NEW c, Fine(c), NEW e, Fields(e), Same(c, e) PROVE Fine(e)
  BY FineSame DEF Same

LEMMA CrashFine == ASSUME NEW c, Fine(c) PROVE Fine(Crash(c))
  <1>1. Fields(Crash(c)) /\ Same(c, Crash(c)) BY DEF Fine, Fields, Crash, Same
  <1> QED BY <1>1, SameFine

LEMMA AdhocReadFine ==
  ASSUME NEW c, Fine(c), NEW t \in Thread, NEW i, NEW a \in Addr, NEW value, NEW astray
  PROVE  Fine(AdhocRead(c, t, i, a, value, astray))
  <1> DEFINE w == c.writes[a]
             x == [c EXCEPT !.reads[t] = ReadsAfter(c, t, i, a, value)]
             y == [c EXCEPT !.syncInsts = @ \cup {i}, !.vc = BuildWriteReadSync(@, w, t)]
  <1>1. Fine(x)
    <2>1. Fields(x) /\ Same(c, x) BY DEF Fine, Fields, Same
    <2> QED BY <2>1, SameFine
  <1>2. ASSUME w # None, SyncsWith(c, t, i, a, value) PROVE Fine(y)
    <2>1. /\ w.thd \in Thread /\ w.thd # t /\ Had(c, w.vc, w.thd) /\ w.vc \in Clock
      BY <1>2 DEF SyncsWith, Fine, WritesFine, WriteFine, Had
    <2>2. Fields(y) /\ y.vc = [[c.vc EXCEPT ![w.thd] = Increment(@, w.thd)] EXCEPT ![t] = Join(@, w.vc)]
      BY DEF Fine, Fields, BuildWriteReadSync
    <2>3. /\ y.protected = c.protected /\ y.mutexVc = c.mutexVc /\ y.waitTable = c.waitTable
          /\ y.signalTable = c.signalTable /\ y.writes = c.writes /\ y.spin = c.spin
          /\ y.signals = c.signals /\ y.cw = c.cw
      OBVIOUS
    <2>4. Behind(y, w.vc, w.thd)
      <3>1. /\ c.vc[w.thd][w.thd] \in Nat /\ w.vc[w.thd] \in Nat /\ c.vc \in [Thread -> Clock]
            /\ w.vc[w.thd] <= c.vc[w.thd][w.thd]
        BY <2>1 DEF Fine, ThreadsFine, Clock, Had
      <3>2. y.vc[w.thd] = Increment(c.vc[w.thd], w.thd)
        <4> HIDE DEF y, w
        <4> QED BY <2>1, <2>2, <3>1
      <3>3. y.vc[w.thd][w.thd] = c.vc[w.thd][w.thd] + 1
        <4>1. c.vc[w.thd] \in Clock BY <2>1, <3>1
        <4> QED BY <2>1, <3>2, <4>1 DEF Increment, Clock
      <3> QED BY <3>1, <3>3 DEF Behind
    <2>5. ThreadsFine(y) /\ Advanced(c, y)
      <3> HIDE DEF y, w
      <3> QED BY <2>1, <2>2, <2>3, <2>4, LearnFine DEF Had
    <2>6. SpinFine(y) BY <2>3 DEF Fine, SpinFine
    <2> HIDE DEF y, w
    <2> QED BY <2>2, <2>3, <2>5, <2>6, FineLearnt
  <1> QED BY <1>1, <1>2, CrashFine DEF AdhocRead

LEMMA WriteMetaFine ==
  ASSUME NEW c, Fine(c), NEW t \in Thread, NEW i, NEW a
  PROVE  Fine(AddOrUpdateWriteMeta(c, t, i, a))
  <1> DEFINE w == [inst |-> i, thd |-> t, vc |-> c.vc[t]]
             e == [c EXCEPT !.writes[a] = w]
  <1>1. Fields(e) /\ Same(c, [e EXCEPT !.writes = c.writes]) /\ e.writes = [c.writes EXCEPT ![a] = w]
    BY DEF Fine, Fields, Same
  <1>2. /\ e.vc = c.vc /\ e.protected = c.protected /\ e.mutexVc = c.mutexVc
        /\ e.waitTable = c.waitTable /\ e.signalTable = c.signalTable
        /\ e.spin = c.spin /\ e.signals = c.signals /\ e.cw = c.cw
    OBVIOUS
  <1>3. w.thd = t /\ w.vc = c.vc[t] OBVIOUS
  <1>4. c.vc \in [Thread -> Clock] /\ DOMAIN c.writes = Addr /\ Had(c, c.vc[t], t)
    BY DEF Fine, ThreadsFine, WritesFine
  <1> HIDE DEF w, e
  <1>5. ThreadsFine(e) /\ Advanced(c, e)
    <2>1. \A u \in Thread : c.vc[u][u] \in Nat BY <1>4 DEF Clock
    <2> QED BY <1>2, <2>1 DEF Fine, ThreadsFine, Had, Behind, Advanced
  <1>6. WriteFine(e, w) BY <1>2, <1>3, <1>4 DEF WriteFine, Had, Behind
  <1>7. DOMAIN e.writes = Addr /\ \A b \in Addr : e.writes[b] = c.writes[b] \/ WriteFine(e, e.writes[b])
    BY <1>1, <1>4, <1>6
  <1>8. /\ DOMAIN e.mutexVc = Lock /\ DOMAIN e.waitTable = Thread /\ DOMAIN e.signalTable = Thread
        /\ DOMAIN e.signals = Thread /\ DOMAIN e.cw = Thread
        /\ \A u \in Thread : Sequence(e.signals[u])
    BY <1>2 DEF Fine, TablesFine, SignalsFine, WaitersFine
  <1>9. SpinFine(e) BY <1>2 DEF Fine, SpinFine
  <1>10. Fine(e) BY <1>1, <1>2, <1>5, <1>7, <1>8, <1>9, FineStep
  <1> QED BY <1>10 DEF AddOrUpdateWriteMeta, e, w

-----------------------------------------------------------------------------
(* "spin". *)

\* Only spin changes.
Respun(c, e) ==
  /\ e.vc = c.vc /\ e.protected = c.protected /\ e.mutexVc = c.mutexVc
  /\ e.waitTable = c.waitTable /\ e.signalTable = c.signalTable /\ e.writes = c.writes
  /\ e.signals = c.signals /\ e.cw = c.cw

LEMMA RespunFine == ASSUME NEW c, Fine(c), NEW e, Fields(e), Respun(c, e), SpinFine(e) PROVE Fine(e)
  <1>1. /\ DOMAIN e.signals = Thread /\ DOMAIN e.cw = Thread
        /\ \A t \in Thread : Sequence(e.signals[t])
    BY DEF Fine, SignalsFine, WaitersFine, Respun
  <1> QED BY <1>1, FineStill DEF Respun

LEMMA SpinSyncFine ==
  ASSUME NEW c, Fine(c), NEW t \in Thread, NEW i
  PROVE  Fine(SpinSync(c, t, i))
  <1> DEFINE m == c.spin[t]
             l == CHOOSE x \in LoopsOf(SpinLoops, m.rd, m.call) : SpinLeft(x, i)
             e == [c EXCEPT !.vc = JoinWriter(@, m, t), !.spin[t] = None,
                            !.protected = IF m.locked THEN @ \cup {<<m.wrthd, c.vc[m.wrthd][m.wrthd]>>} ELSE @,
                            !.races = MarkBenign(@, Event(m.wrthd, m.wr, "W"), l)]
             w == m.wrthd
  <1>1. SUFFICES ASSUME m # None, w # NoThread PROVE Fine(e)
    BY DEF SpinSync
  <1>2. w \in Thread /\ DOMAIN c.spin = Thread BY <1>1 DEF Fine, SpinFine
  <1>3. /\ Fields(e) /\ e.vc = JoinWriter(c.vc, m, t) /\ e.spin = [c.spin EXCEPT ![t] = None]
        /\ e.protected = IF m.locked THEN c.protected \cup {<<w, c.vc[w][w]>>} ELSE c.protected
        /\ e.mutexVc = c.mutexVc /\ e.waitTable = c.waitTable /\ e.signalTable = c.signalTable
        /\ e.writes = c.writes /\ e.signals = c.signals /\ e.cw = c.cw
    BY DEF Fine, Fields
  <1>4. /\ c.vc \in [Thread -> Clock] /\ Had(c, c.vc[w], w) /\ c.vc[w] \in Clock
        /\ c.vc[w][w] \in Nat /\ c.vc[w][w] > 0
    BY <1>2 DEF Fine, ThreadsFine, Had, Clock
  <1>5. SpinFine(e) BY <1>2, <1>3 DEF Fine, SpinFine
  <1> HIDE DEF e
  <1> DEFINE x == c.vc[w]
             joined == [c.vc EXCEPT ![t] = Join(@, x)]
  <1>6. e.vc = IF m.locked THEN joined ELSE [joined EXCEPT ![w] = Increment(@, w)]
    BY <1>3 DEF JoinWriter
  <1>7. Behind(e, x, w)
    <2>0. joined \in [Thread -> Clock] /\ joined[w][w] = x[w]
      <3>1. Join(c.vc[t], x) \in Clock /\ (w = t => Join(c.vc[t], x)[w] = x[w])
        BY <1>2, <1>4, JoinLearnt
      <3> QED BY <1>2, <1>4, <3>1
    <2> HIDE DEF joined
    <2>1. CASE m.locked
      <3>1. e.vc[w][w] = x[w] /\ <<w, x[w]>> \in e.protected BY <1>3, <1>6, <2>0, <2>1
      <3> QED BY <3>1 DEF Behind
    <2>2. CASE ~m.locked
      <3>1. e.vc[w][w] = x[w] + 1
        <4>1. e.vc[w] = Increment(joined[w], w) BY <1>2, <1>6, <2>0, <2>2
        <4>2. joined[w] \in Clock BY <1>2, <2>0
        <4> HIDE DEF x
        <4> QED BY <1>2, <2>0, <4>1, <4>2 DEF Increment, Clock
      <3>2. x[w] \in Nat BY <1>4
      <3> HIDE DEF x
      <3> QED BY <3>1, <3>2 DEF Behind
    <2> QED BY <2>1, <2>2
  <1>8. ThreadsFine(e) /\ Advanced(c, e)
    <2>1. \/ e.vc = [c.vc EXCEPT ![t] = Join(@, x)]
          \/ e.vc = [[c.vc EXCEPT ![t] = Join(@, x)] EXCEPT ![w] = Increment(@, w)]
      BY <1>6
    <2>2. x \in Clock /\ x[w] <= c.vc[w][w] /\ \A u \in Thread \ {w} : Behind(c, x, u)
      BY <1>4 DEF Had
    <2>3. c.protected \subseteq e.protected BY <1>3
    <2> HIDE DEF x
    <2> QED BY <1>2, <1>3, <1>7, <2>1, <2>2, <2>3, LearnFine
  <1> QED BY <1>3, <1>5, <1>8, FineLearnt

\* Another meta of a spinning loop.
LEMMA SpinMetaFine ==
  ASSUME NEW c, Fine(c), NEW t \in Thread, NEW m,
         m # None => "wrthd" \in DOMAIN m /\ m.wrthd \in Thread \cup {NoThread},
         NEW e, Fields(e), Respun(c, e), e.spin = [c.spin EXCEPT ![t] = m]
  PROVE  Fine(e)
  <1>1. SpinFine(e) BY DEF SpinFine, Fine
  <1> QED BY <1>1, RespunFine

LEMMA SpinReadFine ==
  ASSUME NEW c, Fine(c), NEW t \in Thread, NEW i, NEW a
  PROVE  Fine(SpinRead(c, t, i, a))
  <1> DEFINE call == c.spinCall[t]
             m == IF c.spin[t] = None THEN SpinMeta(i, a) ELSE [c.spin[t] EXCEPT !.rd = i, !.addr = a]
             n == IF call.flag THEN [m EXCEPT !.call = call.inst] ELSE m
             e == [c EXCEPT !.spin[t] = n]
  <1>1. "wrthd" \in DOMAIN m /\ m.wrthd \in Thread \cup {NoThread}
    BY DEF Fine, SpinFine, SpinMeta
  <1>2. "wrthd" \in DOMAIN n /\ n.wrthd \in Thread \cup {NoThread}
    <2> HIDE DEF m
    <2> QED BY <1>1
  <1>3. Fields(e) /\ Respun(c, e) /\ e.spin = [c.spin EXCEPT ![t] = n] BY DEF Fine, Fields, Respun
  <1>4. Fine(e)
    <2> HIDE DEF e, n
    <2> QED BY <1>2, <1>3, SpinMetaFine
  <1> QED BY <1>4 DEF SpinRead

LEMMA SpinWriteFine ==
  ASSUME NEW c, Fine(c), NEW t \in Thread, NEW a
  PROVE  Fine(SpinWrite(c, t, a))
  <1> DEFINE e == [c EXCEPT !.spin[t] = None, !.spinCall[t] = NoCall]
  <1>1. Fields(e) /\ Respun(c, e) /\ e.spin = [c.spin EXCEPT ![t] = None] BY DEF Fine, Fields, Respun
  <1>2. Fine(e)
    <2> HIDE DEF e
    <2> QED BY <1>1, SpinMetaFine
  <1> QED BY <1>2 DEF SpinWrite

LEMMA SpinWriterFine ==
  ASSUME NEW c, Fine(c), NEW t \in Thread, NEW u \in Thread, NEW i, NEW common
  PROVE  /\ Fine(SpinWriter(c, t, u, i, common))
         /\ LET m == SpinWriter(c, t, u, i, common).spin[t] IN
            m # None => "wrthd" \in DOMAIN m /\ m.wrthd \in Thread \cup {NoThread}
  <1> DEFINE m == [c.spin[t] EXCEPT !.wrthd = u, !.wr = i, !.locked = @ \/ common]
             e == [c EXCEPT !.spin[t] = m]
  <1>1. ASSUME c.spin[t] # None PROVE "wrthd" \in DOMAIN m /\ m.wrthd = u BY <1>1 DEF Fine, SpinFine
  <1>2. Fields(e) /\ Respun(c, e) /\ e.spin = [c.spin EXCEPT ![t] = m]
    <2> HIDE DEF m
    <2> QED BY DEF Fine, Fields, Respun
  <1>3. ASSUME c.spin[t] # None PROVE Fine(e)
    <2> HIDE DEF e, m
    <2> QED BY <1>1, <1>2, <1>3, SpinMetaFine
  <1>4. Fine(SpinWriter(c, t, u, i, common)) BY <1>3 DEF SpinWriter
  <1> QED BY <1>4 DEF Fine, SpinFine

-----------------------------------------------------------------------------
(* "condwait". *)

\* Only signals and cw change.
Resignalled(c, e) ==
  /\ e.vc = c.vc /\ e.protected = c.protected /\ e.mutexVc = c.mutexVc
  /\ e.waitTable = c.waitTable /\ e.signalTable = c.signalTable /\ e.writes = c.writes
  /\ e.spin = c.spin

\* The metas of t become s, made of the old ones and a new one.
LEMMA ResignalledFine ==
  ASSUME NEW c, Fine(c), NEW t \in Thread, NEW e, Fields(e), Resignalled(c, e), e.cw = c.cw,
         NEW s, e.signals = [c.signals EXCEPT ![t] = s], Sequence(s),
         \A m \in ToSet(s) : m \in ToSet(c.signals[t]) \/ MetaFine(c, m, t)
  PROVE  Fine(e)
  <1>1. SpinFine(e) BY DEF Fine, SpinFine, Resignalled
  <1>2. DOMAIN e.signals = Thread /\ DOMAIN e.cw = Thread BY DEF Fine, SignalsFine, WaitersFine
  <1>3. \A u \in Thread : \A m : MetaFine(c, m, u) => MetaFine(e, m, u)
    BY DEF MetaFine, Had, Behind, Resignalled
  <1>4. \A u \in Thread : e.signals[u] = IF u = t THEN s ELSE c.signals[u]
    BY DEF Fine, SignalsFine
  <1>5. \A u \in Thread : /\ Sequence(e.signals[u])
                          /\ \A m \in ToSet(e.signals[u]) : m \in ToSet(c.signals[u]) \/ MetaFine(e, m, u)
    BY <1>3, <1>4 DEF Fine, SignalsFine
  <1> QED BY <1>1, <1>2, <1>5, FineStill DEF Resignalled

\* What is written down in a meta besides its clock.
LEMMA MetaNoted ==
  ASSUME NEW c, NEW t, NEW m, MetaFine(c, m, t), NEW x
  PROVE  /\ MetaFine(c, [m EXCEPT !.writes = x], t)
         /\ MetaFine(c, [m EXCEPT !.unlock = x], t)
         /\ MetaFine(c, [m EXCEPT !.expired = x], t)
  <1> DEFINE w == [m EXCEPT !.writes = x]
             u == [m EXCEPT !.unlock = x]
             e == [m EXCEPT !.expired = x]
  <1>1. "vc" \in DOMAIN m /\ "active" \in DOMAIN m BY DEF MetaFine
  <1>2. ASSUME NEW n \in {w, u, e}
        PROVE  /\ "vc" \in DOMAIN n /\ "active" \in DOMAIN n
               /\ n.vc = m.vc /\ n.active = m.active
    BY <1>1
  <1> HIDE DEF w, u, e
  <1>3. \A n \in {w, u, e} : MetaFine(c, n, t) BY <1>2 DEF MetaFine
  <1> QED BY <1>3 DEF w, u, e

LEMMA WriteFineMeta ==
  ASSUME NEW c, NEW t, NEW m, MetaFine(c, m, t), NEW l, NEW a
  PROVE  MetaFine(c, Write(m, l, a), t)
  <1>1. PICK x : Write(m, l, a) = [m EXCEPT !.writes = x] BY DEF Write
  <1>2. MetaFine(c, [m EXCEPT !.writes = x], t) BY MetaNoted
  <1> QED BY <1>1, <1>2

LEMMA SignalWriteFine ==
  ASSUME NEW c, Fine(c), NEW t \in Thread, NEW a
  PROVE  Fine(SignalWrite(c, t, a))
  <1> DEFINE metas == c.signals[t]
             l == Last(c.stack[t])
             fresh == SignalMeta(c.vc[t], l, a)
             s == IF metas = << >> THEN <<fresh>>
                  ELSE IF Last(metas).vc = c.vc[t] THEN Front(metas) \o <<Write(Last(metas), l, a)>>
                  ELSE IF Last(metas).unlock THEN metas
                  ELSE (IF Last(metas).expired THEN Front(metas) ELSE metas) \o <<fresh>>
             e == [c EXCEPT !.wrote = @ \cup {t}, !.signals[t] = s]
  <1>0. Sequence(metas) /\ \A m \in ToSet(metas) : MetaFine(c, m, t) BY DEF Fine, SignalsFine
  <1>1. MetaFine(c, fresh, t)
    <2>1. Had(c, c.vc[t], t) BY DEF Fine, ThreadsFine
    <2>2. /\ "vc" \in DOMAIN fresh /\ "active" \in DOMAIN fresh /\ fresh.vc = c.vc[t] /\ fresh.active = FALSE
      BY DEF SignalMeta
    <2> QED BY <2>1, <2>2 DEF MetaFine
  <1> HIDE DEF fresh
  <1>2. Sequence(s) /\ \A m \in ToSet(s) : m \in ToSet(metas) \/ MetaFine(c, m, t)
    <2>1. CASE metas = << >>
      <3>1. <<fresh>> = metas \o <<fresh>> BY <2>1
      <3> DEFINE r == metas \o <<fresh>>
      <3> HIDE DEF metas
      <3>4. Sequence(r) /\ ToSet(r) \subseteq ToSet(metas) \cup {fresh} BY <1>0, Sequences
      <3>2. Sequence(<<fresh>>) /\ ToSet(<<fresh>>) \subseteq ToSet(metas) \cup {fresh}
        BY <3>1, <3>4
      <3>3. s = <<fresh>> BY <2>1
      <3> HIDE DEF s
      <3> QED BY <1>1, <3>2, <3>3
    <2>2. CASE metas # << >> /\ Last(metas).vc = c.vc[t]
      <3> DEFINE w == Write(Last(metas), l, a)
      <3>1. s = Front(metas) \o <<w>> BY <2>2
      <3> HIDE DEF metas, s
      <3>2. MetaFine(c, w, t) BY <1>0, <2>2, Sequences, WriteFineMeta
      <3> HIDE DEF w
      <3>3. Sequence(s) /\ ToSet(s) \subseteq ToSet(metas) \cup {w} BY <1>0, <2>2, <3>1, Sequences
      <3> QED BY <3>2, <3>3
    <2>3. CASE metas # << >> /\ Last(metas).vc # c.vc[t] /\ Last(metas).unlock
      <3>1. s = metas BY <2>3
      <3> HIDE DEF metas, s
      <3> QED BY <1>0, <3>1
    <2>4. CASE metas # << >> /\ Last(metas).vc # c.vc[t] /\ ~Last(metas).unlock
      <3> DEFINE r == IF Last(metas).expired THEN Front(metas) ELSE metas
      <3>1. s = r \o <<fresh>> BY <2>4
      <3> HIDE DEF metas, s
      <3>2. Sequence(r) /\ ToSet(r) \subseteq ToSet(metas) BY <1>0, <2>4, Sequences
      <3> HIDE DEF r
      <3>3. Sequence(s) /\ ToSet(s) \subseteq ToSet(r) \cup {fresh} BY <3>1, <3>2, Sequences
      <3> QED BY <1>1, <3>2, <3>3
    <2> QED BY <2>1, <2>2, <2>3, <2>4
  <1> HIDE DEF s
  <1>3. Fields(e) /\ Resignalled(c, e) /\ e.cw = c.cw /\ e.signals = [c.signals EXCEPT ![t] = s]
    BY DEF Fine, Fields, Resignalled
  <1>4. Fine(e)
    <2> HIDE DEF e
    <2> QED BY <1>2, <1>3, ResignalledFine
  <1> QED BY <1>4 DEF SignalWrite, s, fresh

LEMMA PopLockFine ==
  ASSUME NEW c, Fine(c), NEW t \in Thread
  PROVE  Fine(PopLock(c, t))
  <1> DEFINE e == [c EXCEPT !.stack[t] = Front(@)]
  <1>1. Fields(e) /\ Same(c, e) BY DEF Fine, Fields, Same
  <1>2. Fine(e)
    <2> HIDE DEF e
    <2> QED BY <1>1, SameFine
  <1> QED BY <1>2, CrashFine DEF PopLock

LEMMA SignalUnlockFine ==
  ASSUME NEW c, Fine(c), NEW t \in Thread, NEW l
  PROVE  Fine(SignalUnlock(c, t, l))
  <1> DEFINE metas == c.signals[t]
             m == Last(metas)
             x == [c EXCEPT !.signals[t] = Front(metas) \o <<[m EXCEPT !.unlock = FALSE]>>]
             s == IF Len(m.writes) = 1 THEN Front(metas)
                  ELSE Front(metas) \o <<[m EXCEPT !.writes = Front(@)]>>
             y == [c EXCEPT !.signals[t] = s]
  <1>0. Sequence(metas) /\ \A n \in ToSet(metas) : MetaFine(c, n, t) BY DEF Fine, SignalsFine
  <1>1. ASSUME NEW r, Sequence(r), \A n \in ToSet(r) : n \in ToSet(metas) \/ MetaFine(c, n, t)
        PROVE  Fine([c EXCEPT !.signals[t] = r])
    <2> DEFINE e == [c EXCEPT !.signals[t] = r]
    <2>1. Fields(e) /\ Resignalled(c, e) /\ e.cw = c.cw /\ e.signals = [c.signals EXCEPT ![t] = r]
      BY DEF Fine, Fields, Resignalled
    <2> HIDE DEF e
    <2>2. Fine(e) BY <1>1, <2>1, ResignalledFine
    <2> QED BY <2>2 DEF e
  <1>2. ASSUME metas # << >> PROVE Fine(x) /\ Fine(y)
    <2>1. MetaFine(c, m, t)
      <3> HIDE DEF metas
      <3> QED BY <1>0, <1>2, Sequences
    <2> HIDE DEF m
    <2>2. /\ MetaFine(c, [m EXCEPT !.unlock = FALSE], t)
          /\ MetaFine(c, [m EXCEPT !.writes = Front(@)], t)
      BY <2>1, MetaNoted
    <2>3. ASSUME NEW n, MetaFine(c, n, t)
          PROVE  LET r == Front(metas) \o <<n>> IN
                 Sequence(r) /\ \A q \in ToSet(r) : q \in ToSet(metas) \/ MetaFine(c, q, t)
      <3> HIDE DEF metas
      <3>1. LET r == Front(metas) \o <<n>> IN
            Sequence(r) /\ ToSet(r) \subseteq ToSet(metas) \cup {n}
        BY <1>0, <1>2, Sequences
      <3> QED BY <2>3, <3>1
    <2>4. Sequence(Front(metas)) /\ \A q \in ToSet(Front(metas)) : q \in ToSet(metas)
      <3> HIDE DEF metas
      <3> QED BY <1>0, <1>2, Sequences
    <2>5. Sequence(s) /\ \A q \in ToSet(s) : q \in ToSet(metas) \/ MetaFine(c, q, t)
      BY <2>2, <2>3, <2>4
    <2>6. LET r == Front(metas) \o <<[m EXCEPT !.unlock = FALSE]>> IN
          Sequence(r) /\ \A q \in ToSet(r) : q \in ToSet(metas) \/ MetaFine(c, q, t)
      BY <2>2, <2>3
    <2> HIDE DEF s
    <2> QED BY <1>1, <2>5, <2>6
  <1>3. metas # << >> => Fine(PopLock(x, t)) /\ Fine(PopLock(y, t)) BY <1>2, PopLockFine
  <1>4. Fine(PopLock(c, t)) BY PopLockFine
  <1> QED BY <1>3, <1>4 DEF SignalUnlock

\* Nothing but what is there is kept.
LEMMA RemoveExpiredFine ==
  ASSUME NEW c, Fine(c), NEW places
  PROVE  Fine(RemoveExpired(c, places))
  <1> DEFINE Kept(u) == {k \in DOMAIN c.signals[u] :
                           \/ ~c.signals[u][k].expired
                           \/ places # {} /\ Before(FirstOf(places), <<u, k>>)}
             Place(u, n) == CHOOSE k \in Kept(u) : Cardinality({j \in Kept(u) : j < k}) = n - 1
             s == [u \in Thread |-> [n \in 1..Cardinality(Kept(u)) |-> c.signals[u][Place(u, n)]]]
             e == [c EXCEPT !.signals = s]
  <1>1. ASSUME NEW u \in Thread
        PROVE  Sequence(s[u]) /\ ToSet(s[u]) \subseteq ToSet(c.signals[u])
    <2> DEFINE q == c.signals[u]
    <2>1. q \in Seq(ToSet(q)) BY DEF Fine, SignalsFine, Sequence
    <2>2. DOMAIN q = 1..Len(q) /\ Len(q) \in Nat /\ Kept(u) \subseteq DOMAIN q BY <2>1
    <2>3. Kept(u) \in SUBSET Nat /\ IsFiniteSet(Kept(u))
      <3> HIDE DEF Kept
      <3>1. IsFiniteSet(DOMAIN q) BY <2>2, FS_Interval
      <3> QED BY <2>2, <3>1, FS_Subset
    <2>4. Cardinality(Kept(u)) \in Nat BY <2>3, FS_CardinalityType
    <2>5. \A n \in 1..Cardinality(Kept(u)) : Place(u, n) \in Kept(u)
      <3> SUFFICES ASSUME NEW n \in 1..Cardinality(Kept(u)) PROVE Place(u, n) \in Kept(u) OBVIOUS
      <3> HIDE DEF Kept
      <3>1. \E k \in Kept(u) : Cardinality({j \in Kept(u) : j < k}) = n - 1 BY <2>3, PlaceInOrder
      <3> QED BY <3>1
    <2> DEFINE r == [n \in 1..Cardinality(Kept(u)) |-> q[Place(u, n)]]
    <2>6. r \in Seq(ToSet(q)) /\ ToSet(r) \subseteq ToSet(q)
      <3>1. \A n \in 1..Cardinality(Kept(u)) : q[Place(u, n)] \in ToSet(q) BY <2>2, <2>5 DEF ToSet
      <3> HIDE DEF Kept, Place, q
      <3>2. r \in Seq(ToSet(q)) BY <2>4, <3>1
      <3>3. \A n \in DOMAIN r : r[n] \in ToSet(q) BY <3>1
      <3>4. ToSet(r) = {r[n] : n \in DOMAIN r} BY DEF ToSet
      <3> HIDE DEF r
      <3> QED BY <3>2, <3>3, <3>4
    <2>7. s[u] = r OBVIOUS
    <2> HIDE DEF s, r, q
    <2>8. r \in Seq(ToSet(r))
      <3>1. DOMAIN r = 1..Len(r) /\ Len(r) \in Nat /\ ToSet(r) = {r[n] : n \in DOMAIN r} BY <2>6 DEF ToSet
      <3> QED BY <2>6, <3>1
    <2> QED BY <2>6, <2>7, <2>8 DEF Sequence, q
  <1>2. DOMAIN s = Thread OBVIOUS
  <1>3. e = RemoveExpired(c, places) BY DEF RemoveExpired
  <1> HIDE DEF s
  <1>4. Fields(e) /\ Resignalled(c, e) /\ e.cw = c.cw /\ e.signals = s
    BY DEF Fine, Fields, Resignalled
  <1> HIDE DEF e
  <1>5. SpinFine(e) /\ DOMAIN e.cw = Thread BY <1>4 DEF Fine, SpinFine, WaitersFine, Resignalled
  <1>6. Fine(e) BY <1>1, <1>2, <1>4, <1>5, FineStill DEF Resignalled
  <1> QED BY <1>3, <1>6

\* The first of some places is one of them.
LEMMA FirstPlace ==
  ASSUME NEW c, Fine(c), NEW t, NEW a, NEW l, Corresponding(c, t, a, l) # {}
  PROVE  LET p == FirstOf(Corresponding(c, t, a, l)) IN
         /\ p[1] \in Thread /\ p[2] \in DOMAIN c.signals[p[1]]
         /\ Matches(c.signals[p[1]][p[2]], c.vc[t], a, l)
  <1> DEFINE C == Corresponding(c, t, a, l)
             T == {p[1] : p \in C}
  <1>1. \A p \in C : /\ p = <<p[1], p[2]>>
                     /\ p[1] \in Thread /\ p[2] \in DOMAIN c.signals[p[1]] /\ p[1] \in Nat /\ p[2] \in Nat
                     /\ Matches(c.signals[p[1]][p[2]], c.vc[t], a, l)
    <2> SUFFICES ASSUME NEW p \in C
                 PROVE  /\ p = <<p[1], p[2]>>
                        /\ p[1] \in Thread /\ p[2] \in DOMAIN c.signals[p[1]] /\ p[1] \in Nat /\ p[2] \in Nat
                        /\ Matches(c.signals[p[1]][p[2]], c.vc[t], a, l)
      OBVIOUS
    <2>1. /\ p \in UNION {{u} \X DOMAIN c.signals[u] : u \in Thread}
          /\ Matches(c.signals[p[1]][p[2]], c.vc[t], a, l)
      BY DEF Corresponding
    <2>2. PICK u \in Thread : p \in {u} \X DOMAIN c.signals[u] BY <2>1
    <2>3. c.signals[u] \in Seq(ToSet(c.signals[u])) BY DEF Fine, SignalsFine, Sequence
    <2>4. DOMAIN c.signals[u] \subseteq Nat BY <2>3
    <2> QED BY <2>1, <2>2, <2>4, ThreadIds
  <1> HIDE DEF C
  <1>2. PICK u \in T : \A v \in T : u <= v
    <2>1. T \in SUBSET Nat /\ T # {} BY <1>1 DEF C
    <2> HIDE DEF T
    <2> QED BY <2>1, LeastOf
  <1> DEFINE K == {p[2] : p \in {q \in C : q[1] = u}}
  <1>3. PICK k \in K : \A j \in K : k <= j
    <2>1. K \in SUBSET Nat /\ K # {} BY <1>1, <1>2
    <2> HIDE DEF K
    <2> QED BY <2>1, LeastOf
  <1>4. PICK p \in C : p[1] = u /\ p[2] = k BY <1>3
  <1>5. \A q \in C \ {p} : Before(p, q)
    <2> SUFFICES ASSUME NEW q \in C, q # p PROVE Before(p, q) OBVIOUS
    <2>1. q[1] \in T /\ (q[1] = u => q[2] \in K) OBVIOUS
    <2>2. u <= q[1] /\ (q[1] = u => k <= q[2]) BY <1>2, <1>3, <2>1
    <2>3. q[1] # u \/ q[2] # k BY <1>1, <1>4
    <2> QED BY <1>1, <1>4, <2>2, <2>3 DEF Before
  <1>6. FirstOf(C) \in C BY <1>4, <1>5, Zenon DEF FirstOf
  <1> QED BY <1>1, <1>6 DEF C

LEMMA WaiterSetFine ==
  ASSUME NEW c, Fine(c), NEW t \in Thread, NEW e, Fields(e), Resignalled(c, e), e.signals = c.signals,
         NEW w, e.cw = [c.cw EXCEPT ![t] = w], w # None => WaiterFine(c, w)
  PROVE  Fine(e)
  <1>1. SpinFine(e) BY DEF Fine, SpinFine, Resignalled
  <1>2. /\ DOMAIN e.signals = Thread /\ DOMAIN e.cw = Thread
        /\ \A u \in Thread : Sequence(e.signals[u])
    BY DEF Fine, SignalsFine, WaitersFine
  <1>3. w # None => WaiterFine(e, w) BY DEF WaiterFine, Learnable, Behind, Resignalled
  <1>4. \A u \in Thread : e.cw[u] = IF u = t THEN w ELSE c.cw[u] BY DEF Fine, WaitersFine
  <1>5. \A u \in Thread : e.cw[u] = c.cw[u] \/ e.cw[u] = None \/ WaiterFine(e, e.cw[u])
    BY <1>3, <1>4
  <1> QED BY <1>1, <1>2, <1>5, FineStill DEF Resignalled

LEMMA CondWaitReadFine ==
  ASSUME NEW c, Fine(c), NEW t \in Thread, NEW i, NEW a, NEW found
  PROVE  Fine(CondWaitRead(c, t, i, a, found))
  <1> DEFINE l == Last(c.stack[t])
             places == Corresponding(c, t, a, l)
             p == FirstOf(places)
             call == IF c.cwCall[t] = None THEN [inst |-> Wild, flag |-> found] ELSE c.cwCall[t]
             meta == [owner |-> p[1], vc |-> c.signals[p[1]][p[2]].vc, rd |-> i, call |-> call.inst]
             r == RemoveExpired(c, places)
             e == [r EXCEPT !.cw[t] = meta, !.cwCall[t] = call]
  <1>1. Fine(r) BY RemoveExpiredFine
  <1>2. Resignalled(c, r) /\ r.cw = c.cw BY DEF RemoveExpired, Resignalled, Fine, Fields
  <1> HIDE DEF r, call
  <1>3. ASSUME places # {} PROVE Fine(e)
    <2>1. LET m == c.signals[p[1]][p[2]] IN
          p[1] \in Thread /\ MetaFine(c, m, p[1]) /\ m.active
      <3>1. p[1] \in Thread /\ p[2] \in DOMAIN c.signals[p[1]] /\ Matches(c.signals[p[1]][p[2]], c.vc[t], a, l)
        BY <1>3, FirstPlace
      <3>2. c.signals[p[1]][p[2]] \in ToSet(c.signals[p[1]]) BY <3>1 DEF ToSet
      <3> QED BY <3>1, <3>2 DEF Matches, Fine, SignalsFine
    <2>2. meta.owner = p[1] /\ meta.vc = c.signals[p[1]][p[2]].vc OBVIOUS
    <2> HIDE DEF p, places, meta
    <2>3. Learnable(c, meta.vc) BY <2>1, <2>2 DEF MetaFine, Learnable, Had, Behind
    <2>4. WaiterFine(r, meta) BY <1>2, <2>1, <2>2, <2>3 DEF WaiterFine, Learnable, Behind, Resignalled
    <2>5. /\ Fields(e) /\ Resignalled(r, e) /\ e.signals = r.signals
          /\ e.cw = [r.cw EXCEPT ![t] = meta]
      BY <1>1 DEF Fine, Fields, Resignalled
    <2> HIDE DEF e
    <2> QED BY <1>1, <2>4, <2>5, WaiterSetFine
  <1> QED BY <1>1, <1>3 DEF CondWaitRead, r, call

LEMMA ExpireFine ==
  ASSUME NEW c, Fine(c), NEW t \in Thread, c.cw[t] # None
  PROVE  Fine(Expire(c, t))
  <1> DEFINE w == c.cw[t]
             o == w.owner
             k == CHOOSE n \in PlaceOf(c, w) : TRUE
             x == [c EXCEPT !.signals[o][k].expired = TRUE]
             e == [c EXCEPT !.signals[o][k].expired = TRUE, !.cw[t] = None]
  <1>1. SUFFICES ASSUME PlaceOf(c, w) # {} PROVE Fine(e)
    BY CrashFine DEF Expire
  <1>2. k \in DOMAIN c.signals[o] BY <1>1 DEF PlaceOf
  <1>3. o \in Thread BY DEF Fine, WaitersFine, WaiterFine
  <1> HIDE DEF k, o
  <1> DEFINE q == c.signals[o]
             m == [q[k] EXCEPT !.expired = TRUE]
             s == [q EXCEPT ![k] = m]
  <1>4. q \in Seq(ToSet(q)) /\ \A n \in ToSet(q) : MetaFine(c, n, o)
    BY <1>3 DEF Fine, SignalsFine, Sequence
  <1>5. q[k] \in ToSet(q) BY <1>2 DEF ToSet
  <1>6. MetaFine(c, m, o) BY <1>4, <1>5, MetaNoted
  <1>7. Fields(x) /\ Resignalled(c, x) /\ x.cw = c.cw /\ x.signals = [c.signals EXCEPT ![o] = s]
    BY DEF Fine, Fields, Resignalled
  <1>8. e = [x EXCEPT !.cw[t] = None] BY <1>7
  <1>9. Sequence(s) /\ \A n \in ToSet(s) : n \in ToSet(q) \/ MetaFine(c, n, o)
    <2> DEFINE S == ToSet(q) \cup {m}
    <2> HIDE DEF q, m
    <2>1. s \in Seq(S)
      <3>1. DOMAIN q = 1..Len(q) /\ Len(q) \in Nat /\ q \in Seq(S) BY <1>4
      <3>3. m \in S /\ \A j \in 1..Len(q) : q[j] \in S BY <3>1
      <3>4. q \in [1..Len(q) -> S] BY <3>1, <3>3
      <3> HIDE DEF S
      <3>2. s \in [1..Len(q) -> S] BY <3>3, <3>4
      <3> HIDE DEF s
      <3> QED BY <3>1, <3>2
    <2>2. DOMAIN s = 1..Len(s) /\ ToSet(s) = {s[n] : n \in DOMAIN s} BY <2>1 DEF ToSet
    <2> HIDE DEF s
    <2>3. s \in Seq(ToSet(s)) /\ ToSet(s) \subseteq ToSet(q) \cup {m} BY <2>1, <2>2
    <2> QED BY <1>6, <2>3 DEF Sequence
  <1> HIDE DEF s, x, e
  <1>10. Fine(x) BY <1>3, <1>7, <1>9, ResignalledFine DEF q
  <1>11. Fields(e) /\ Resignalled(x, e) /\ e.signals = x.signals /\ e.cw = [x.cw EXCEPT ![t] = None]
    BY <1>8, <1>10 DEF Fine, Fields, Resignalled
  <1> QED BY <1>10, <1>11, WaiterSetFine

LEMMA CondWaitSyncFine ==
  ASSUME NEW c, Fine(c), NEW t \in Thread, NEW i
  PROVE  Fine(CondWaitSync(c, t, i))
  <1> DEFINE w == c.cw[t]
             e == LearnSignal(c, t)
  <1>1. SUFFICES ASSUME w # None PROVE Fine(Expire(e, t))
    BY CrashFine DEF CondWaitSync
  <1>2. Learnable(c, w.vc) BY <1>1 DEF Fine, WaitersFine, WaiterFine
  <1>3. /\ Fields(e) /\ e.vc = [c.vc EXCEPT ![t] = Join(@, w.vc)] /\ e.protected = c.protected
        /\ e.mutexVc = c.mutexVc /\ e.waitTable = c.waitTable /\ e.signalTable = c.signalTable
        /\ e.writes = c.writes /\ e.spin = c.spin /\ e.signals = c.signals /\ e.cw = c.cw
    BY DEF Fine, Fields, LearnSignal
  <1> HIDE DEF e
  <1>6. ThreadsFine(e) /\ Advanced(c, e)
    <2> HIDE DEF w
    <2> QED BY <1>2, <1>3, LearnAny
  <1>7. SpinFine(e) BY <1>3 DEF Fine, SpinFine
  <1>8. Fine(e) BY <1>3, <1>6, <1>7, FineLearnt
  <1> QED BY <1>1, <1>3, <1>8, ExpireFine

LEMMA CondWaitForgetFine ==
  ASSUME NEW c, Fine(c), NEW t \in Thread
  PROVE  Fine(CondWaitForget(c, t))
  BY ExpireFine DEF CondWaitForget

LEMMA CondWaitWriteFine ==
  ASSUME NEW c, Fine(c), NEW t \in Thread, NEW found
  PROVE  Fine(CondWaitWrite(c, t, found))
  <1> DEFINE e == [c EXCEPT !.cwCall[t] = NoCall]
  <1>1. Fields(e) /\ Same(c, e) BY DEF Fine, Fields, Same
  <1> HIDE DEF e
  <1>2. Fine(CondWaitForget(e, t)) BY <1>1, SameFine, CondWaitForgetFine
  <1> QED BY <1>2 DEF CondWaitWrite, e

-----------------------------------------------------------------------------
(* MultiLock-HB's checks. *)

LEMMA NotedFine ==
  ASSUME NEW c, Fine(c), NEW t, NEW i, NEW a, NEW k
  PROVE  Fine(Noted(c, t, i, a, k)) /\ Noted(c, t, i, a, k).spin = c.spin
  <1> DEFINE e == Noted(c, t, i, a, k)
  <1>1. Fields(e) /\ Same(c, e) BY DEF Fine, Fields, Same, Noted
  <1> HIDE DEF e
  <1>2. Fine(e) /\ e.spin = c.spin BY <1>1, SameFine DEF Same
  <1> QED BY <1>2 DEF e

LEMMA MlReadFine ==
  ASSUME NEW c, Fine(c), NEW t \in Thread, NEW i, NEW a
  PROVE  Fine(MlRead(c, t, i, a))
  <1> DEFINE us == Others(c, t, a, "W")
             e == Noted(c, t, i, a, "R")
  <1>1. Fine(e) BY NotedFine
  <1>2. us # {} => MaxId(us) \in Thread BY GreatestThread DEF Others
  <1> HIDE DEF us, e
  <1>3. us # {} => Fine(SpinWriter(e, t, MaxId(us), c.inst[a]["W"][MaxId(us)],
                                   \E u \in us : Common(c, t, u, a, "W", "R")))
    BY <1>1, <1>2, SpinWriterFine
  <1> QED BY <1>1, <1>3 DEF MlRead, us, e

LEMMA MlWriteFine ==
  ASSUME NEW c, Fine(c), NEW t \in Thread, NEW i, NEW a
  PROVE  Fine(MlWrite(c, t, i, a))
  <1> DEFINE n == Noted(c, t, i, a, "W")
             By(u) == SpinWriter(c, u, t, i, Common(c, t, u, a, "R", "W")).spin[u]
             s == [u \in Thread |-> IF u \in Others(c, t, a, "R") THEN By(u) ELSE n.spin[u]]
             e == [n EXCEPT !.spin = s]
  <1>0. e = MlWrite(c, t, i, a) BY DEF MlWrite
  <1>1. Fine(n) BY NotedFine
  <1>2. \A u \in Thread : By(u) # None =>
          "wrthd" \in DOMAIN By(u) /\ By(u).wrthd \in Thread \cup {NoThread}
    BY SpinWriterFine
  <1> HIDE DEF n, By
  <1>3. DOMAIN s = Thread /\ \A u \in Thread : s[u] = By(u) \/ s[u] = n.spin[u] OBVIOUS
  <1> HIDE DEF s
  <1>4. Fields(e) /\ Respun(n, e) /\ e.spin = s BY <1>1 DEF Fine, Fields, Respun
  <1> HIDE DEF e
  <1>5. SpinFine(e) BY <1>1, <1>2, <1>3, <1>4 DEF SpinFine, Fine
  <1>6. Fine(e) BY <1>1, <1>4, <1>5, RespunFine
  <1> QED BY <1>0, <1>6

-----------------------------------------------------------------------------
(* The callbacks. *)

LEMMA SyncsFine ==
  ASSUME NEW c, Fine(c), NEW t \in Thread, NEW i
  PROVE  Fine(Syncs(c, t, i))
  BY SpinSyncFine, CondWaitSyncFine DEF Syncs

LEMMA ReadFine ==
  ASSUME AdhocInv, NEW t \in Thread, BeforeMemRead(t)
  PROVE  Fine(d')
  <1> DEFINE i == pc[t]
             a == Arg(t)
             spin(astray) == SpinRead(SpinSync(AdhocRead(d, t, i, a, mem[a], astray), t, i), t, i, a)
             C(astray, found) ==
               MlRead(CondWaitRead(CondWaitSync(spin(astray), t, i), t, i, a, found), t, i, a)
  <1>1. a \in Addr
    <2>1. pc[t] \in DOMAIN Text BY DEF AdhocInv
    <2>2. Text[pc[t]].op = "read" BY DEF BeforeMemRead, At, Op
    <2> QED BY <2>1, <2>2, TextAssumption DEF Arg
  <1>2. PICK astray \in BOOLEAN, found \in BOOLEAN :
          d' = [C(astray, found) EXCEPT !.races = AdhocForget(d, @, t, i, a, mem[a], astray)]
    BY DEF BeforeMemRead
  <1>3. Fine(spin(astray)) BY <1>1, AdhocReadFine, SpinSyncFine, SpinReadFine DEF AdhocInv
  <1> HIDE DEF spin
  <1>4. Fine(C(astray, found)) BY <1>3, CondWaitSyncFine, CondWaitReadFine, MlReadFine
  <1> HIDE DEF C
  <1>5. Fields(d') /\ Same(C(astray, found), d') BY <1>2, <1>4 DEF Fine, Fields, Same
  <1> QED BY <1>4, <1>5, SameFine

LEMMA WriteStepFine ==
  ASSUME AdhocInv, NEW t \in Thread, BeforeMemWrite(t)
  PROVE  Fine(d')
  <1> DEFINE i == pc[t]
             a == Arg(t)
             spin == SpinWrite(SpinSync(AddOrUpdateWriteMeta(d, t, i, a), t, i), t, a)
             written == SignalWrite(CondWaitSync(spin, t, i), t, a)
  <1>1. Fine(spin) BY WriteMetaFine, SpinSyncFine, SpinWriteFine DEF AdhocInv
  <1>2. PICK found \in BOOLEAN : d' = MlWrite(CondWaitWrite(written, t, found), t, i, a)
    BY DEF BeforeMemWrite
  <1> HIDE DEF spin
  <1>3. Fine(written) BY <1>1, CondWaitSyncFine, SignalWriteFine
  <1> HIDE DEF written
  <1> QED BY <1>2, <1>3, CondWaitWriteFine, MlWriteFine

LEMMA MutexUnlockFine ==
  ASSUME AdhocInv, NEW t \in Thread, BeforePthreadMutexUnlock(t)
  PROVE  Fine(d')
  <1> DEFINE s == SpinSync(d, t, pc[t])
             e == [s EXCEPT !.vc[t] = Increment(@, t)]
             c == IF On(d, "spin") THEN e ELSE s
             u == SignalUnlock(CondWaitSync(c, t, pc[t]), t, Arg(t))
  <1>1. Fine(s) BY SpinSyncFine DEF AdhocInv
  <1>2. d' = [u EXCEPT !.ls[t] = @ \ {Arg(t)}] BY DEF BeforePthreadMutexUnlock
  <1> HIDE DEF s
  <1>3. Fine(e)
    <2>1. /\ Fields(e) /\ e.vc = [s.vc EXCEPT ![t] = Increment(@, t)] /\ e.protected = s.protected
          /\ e.mutexVc = s.mutexVc /\ e.waitTable = s.waitTable /\ e.signalTable = s.signalTable
          /\ e.writes = s.writes /\ e.spin = s.spin /\ e.signals = s.signals /\ e.cw = s.cw
      BY <1>1 DEF Fine, Fields
    <2> HIDE DEF e
    <2>2. /\ s.vc \in [Thread -> Clock] /\ \A v \in Thread : s.vc[v][v] > 0 /\ Had(s, s.vc[v], v)
      BY <1>1 DEF Fine, ThreadsFine
    <2>3. /\ e.vc \in [Thread -> Clock]
          /\ e.vc[t][t] = s.vc[t][t] + 1 /\ s.vc[t][t] \in Nat
          /\ \A v \in Thread : v # t => e.vc[v] = s.vc[v]
          /\ \A v \in Thread : v # t => e.vc[t][v] = s.vc[t][v]
      <3>1. /\ Increment(s.vc[t], t) \in Clock /\ Increment(s.vc[t], t)[t] = s.vc[t][t] + 1
            /\ s.vc[t][t] \in Nat
            /\ \A v \in Thread \ {t} : Increment(s.vc[t], t)[v] = s.vc[t][v]
        BY <2>2 DEF Increment, Clock
      <3> QED BY <2>1, <2>2, <3>1
    <2>4. Advanced(s, e)
      <3>1. \A v \in Thread : s.vc[v][v] \in Nat BY <2>2 DEF Clock
      <3> QED BY <2>1, <2>3, <3>1 DEF Advanced
    <2>5. ASSUME NEW v \in Thread PROVE e.vc[v][v] > 0 /\ Had(e, e.vc[v], v)
      <3>1. Had(e, s.vc[v], v) BY <2>2, <2>3, <2>4, StillBehind
      <3>2. CASE v # t BY <2>2, <2>3, <3>1, <3>2
      <3>3. CASE v = t
        <4>1. e.vc[t][t] \in Nat /\ e.vc[t][t] > 0 /\ e.vc[t] \in Clock BY <2>3
        <4>2. \A w \in Thread \ {t} : Behind(e, e.vc[t], w) BY <2>3, <3>1, <3>3 DEF Had, Behind
        <4> QED BY <3>3, <4>1, <4>2 DEF Had
      <3> QED BY <3>2, <3>3
    <2>6. ThreadsFine(e) BY <2>3, <2>5 DEF ThreadsFine
    <2>7. SpinFine(e) BY <1>1, <2>1 DEF Fine, SpinFine
    <2> QED BY <1>1, <2>1, <2>4, <2>6, <2>7, FineLearnt
  <1> HIDE DEF e
  <1>4. Fine(c) BY <1>1, <1>3
  <1> HIDE DEF c
  <1>5. Fine(u) BY <1>4, CondWaitSyncFine, SignalUnlockFine
  <1> HIDE DEF u
  <1>6. Fields(d') /\ Same(u, d') BY <1>2, <1>5 DEF Fine, Fields, Same
  <1> QED BY <1>5, <1>6, SameFine

LEMMA RwUnlockFine ==
  ASSUME AdhocInv, NEW t \in Thread, BeforePthreadRwlockUnlock(t)
  PROVE  Fine(d')
  <1> DEFINE c == SignalUnlock(Syncs(d, t, pc[t]), t, Arg(t))
  <1>1. d' = [c EXCEPT !.ls[t] = @ \ {Arg(t)}, !.rdls[t] = @ \ {Arg(t)}]
    BY DEF BeforePthreadRwlockUnlock
  <1>2. Fine(c) BY SyncsFine, SignalUnlockFine DEF AdhocInv
  <1> HIDE DEF c
  <1>3. Fields(d') /\ Same(c, d') BY <1>1, <1>2 DEF Fine, Fields, Same
  <1> QED BY <1>2, <1>3, SameFine

LEMMA CallFine ==
  ASSUME AdhocInv, NEW t \in Thread, BeforeCall(t)
  PROVE  Fine(d')
  <1> DEFINE i == pc[t]
             here(loops, entry) == IF Line(i) \in Conds(loops) THEN [inst |-> i, flag |-> TRUE] ELSE entry
             s == SpinSync(d, t, i)
             x == [s EXCEPT !.spinCall[t] = here(SpinLoops, @)]
             c == CondWaitSync(x, t, i)
  <1>1. d' = [c EXCEPT !.cwCall[t] = here(CondLoops, @)] BY DEF BeforeCall
  <1>2. Fine(s) BY SpinSyncFine DEF AdhocInv
  <1> HIDE DEF s, here
  <1>3. Fields(x) /\ Same(s, x) BY <1>2 DEF Fine, Fields, Same
  <1> HIDE DEF x
  <1>4. Fine(c) BY <1>2, <1>3, SameFine, CondWaitSyncFine
  <1> HIDE DEF c
  <1>5. Fields(d') /\ Same(c, d') BY <1>1, <1>4 DEF Fine, Fields, Same
  <1> QED BY <1>4, <1>5, SameFine

\* The last meta of t is active once t's epoch has ended.
LEMMA ActiveForm ==
  ASSUME NEW c, Fine(c), NEW t \in Thread
  PROVE  LET e == SignalActive(c, t) IN
         /\ Fields(e) /\ Resignalled(c, e) /\ e.cw = c.cw
         /\ DOMAIN e.signals = Thread
         /\ \E s : /\ \A u \in Thread : e.signals[u] = IF u = t THEN s ELSE c.signals[u]
                   /\ Sequence(s)
                   /\ \A m \in ToSet(s) :
                        \/ m \in ToSet(c.signals[t])
                        \/ /\ "vc" \in DOMAIN m /\ "active" \in DOMAIN m
                           /\ Had(c, m.vc, t)
  <1> DEFINE metas == c.signals[t]
             m == [Last(metas) EXCEPT !.active = TRUE, !.unlock = TRUE]
             s == Front(metas) \o <<m>>
             e == [c EXCEPT !.signals[t] = Front(@) \o <<[Last(@) EXCEPT !.active = TRUE, !.unlock = TRUE]>>]
  <1>1. DOMAIN c.signals = Thread /\ Sequence(metas) /\ \A n \in ToSet(metas) : MetaFine(c, n, t)
    BY DEF Fine, SignalsFine
  <1>2. CASE SignalActive(c, t) = c
    <2>1. \A u \in Thread : c.signals[u] = IF u = t THEN metas ELSE c.signals[u] OBVIOUS
    <2> HIDE DEF metas
    <2> QED BY <1>1, <1>2, <2>1 DEF Fine, Resignalled, metas
  <1>3. CASE SignalActive(c, t) = e /\ metas # << >>
    <2>1. Fields(e) /\ Resignalled(c, e) /\ e.cw = c.cw /\ e.signals = [c.signals EXCEPT ![t] = s]
      BY DEF Fine, Fields, Resignalled
    <2>2. "vc" \in DOMAIN m /\ "active" \in DOMAIN m /\ Had(c, m.vc, t)
      <3> DEFINE n == Last(metas)
      <3>1. MetaFine(c, n, t)
        <4> HIDE DEF metas
        <4> QED BY <1>1, <1>3, Sequences
      <3> HIDE DEF n
      <3>2. "vc" \in DOMAIN n /\ "active" \in DOMAIN n /\ Had(c, n.vc, t) BY <3>1 DEF MetaFine
      <3>3. m = [n EXCEPT !.active = TRUE, !.unlock = TRUE] BY DEF n
      <3> QED BY <3>2, <3>3
    <2>3. Sequence(s) /\ ToSet(s) \subseteq ToSet(metas) \cup {m}
      <3> HIDE DEF metas, m
      <3> QED BY <1>1, <1>3, Sequences
    <2> HIDE DEF s, m
    <2>4. \A n \in ToSet(s) : \/ n \in ToSet(metas)
                              \/ "vc" \in DOMAIN n /\ "active" \in DOMAIN n /\ Had(c, n.vc, t)
      BY <2>2, <2>3
    <2>5. DOMAIN e.signals = Thread /\ \A u \in Thread : e.signals[u] = IF u = t THEN s ELSE c.signals[u]
      BY <1>1, <2>1
    <2> HIDE DEF e
    <2> QED BY <1>3, <2>1, <2>3, <2>4, <2>5
  <1>4. SignalActive(c, t) = c \/ (SignalActive(c, t) = e /\ metas # << >>) BY DEF SignalActive
  <1> QED BY <1>2, <1>3, <1>4

LEMMA CondSignalFine ==
  ASSUME AdhocInv, NEW t \in Thread, BeforePthreadCondSignal(t)
  PROVE  Fine(d')
  <1> DEFINE s == SpinSync(d, t, pc[t])
             c == SignalActive(s, t)
             waiting == {u \in Thread : c.waitTable[u] # Zero}
             M(u) == {c.vc[t][u]} \cup {c.waitTable[w][u] : w \in waiting}
             all == [u \in Thread |-> MaxId(M(u))]
             tbl == [u \in Thread |-> IF u \in waiting THEN all ELSE c.signalTable[u]]
             up  == Increment(all, t)
             e   == [c EXCEPT !.signalTable = tbl, !.vc[t] = up]
  <1>1. Fine(s) BY SpinSyncFine DEF AdhocInv
  <1>2. d' = e BY DEF BeforePthreadCondSignal
  <1> HIDE DEF s
  <1>3. Fields(c) /\ Resignalled(s, c) /\ c.cw = s.cw /\ DOMAIN c.signals = Thread BY <1>1, ActiveForm
  <1>4. PICK r : /\ \A u \in Thread : c.signals[u] = IF u = t THEN r ELSE s.signals[u]
                 /\ Sequence(r)
                 /\ \A m \in ToSet(r) :
                      \/ m \in ToSet(s.signals[t])
                      \/ "vc" \in DOMAIN m /\ "active" \in DOMAIN m /\ Had(s, m.vc, t)
    BY <1>1, ActiveForm
  <1> HIDE DEF c
  <1>5. /\ Fields(e) /\ e.vc = [s.vc EXCEPT ![t] = up] /\ e.signalTable = tbl /\ e.signals = c.signals
        /\ e.protected = s.protected /\ e.mutexVc = s.mutexVc /\ e.waitTable = s.waitTable
        /\ e.writes = s.writes /\ e.spin = s.spin /\ e.cw = s.cw
    BY <1>3 DEF Fields, Resignalled
  <1>6. /\ s.vc \in [Thread -> Clock] /\ Had(s, s.vc[t], t)
        /\ \A v \in Thread : s.vc[v][v] > 0 /\ Had(s, s.vc[v], v)
        /\ DOMAIN s.waitTable = Thread /\ \A w \in Thread : Learnable(s, s.waitTable[w])
        /\ DOMAIN s.signalTable = Thread
    BY <1>1 DEF Fine, ThreadsFine, TablesFine
  <1>7. c.vc = s.vc /\ c.waitTable = s.waitTable /\ c.signalTable = s.signalTable
    BY <1>3 DEF Resignalled
  <1>8. ASSUME NEW u \in Thread
        PROVE  /\ all[u] \in M(u) /\ all[u] \in Nat
               /\ \A k \in M(u) : k <= all[u]
    <2>1. M(u) \in SUBSET Nat
      <3>1. \A w \in Thread : s.vc[t][u] \in Nat /\ s.waitTable[w][u] \in Nat
        BY <1>6 DEF Learnable, Clock
      <3> QED BY <1>7, <3>1
    <2>2. IsFiniteSet(M(u))
      <3>1. IsFiniteSet(waiting) BY ThreadIds, FS_Subset
      <3> DEFINE I == {c.waitTable[w][u] : w \in waiting}
                 f == [w \in waiting |-> c.waitTable[w][u]]
      <3>5. f \in Surjection(waiting, I)
        <4> HIDE DEF waiting
        <4> QED BY DEF Surjection
      <3> HIDE DEF waiting, f
      <3>2. IsFiniteSet(I)
        <4> HIDE DEF I
        <4> QED BY <3>1, <3>5, FS_Surjection
      <3>3. IsFiniteSet({c.vc[t][u]}) BY FS_Singleton
      <3> HIDE DEF I
      <3>4. IsFiniteSet({c.vc[t][u]} \cup I) BY <3>2, <3>3, FS_Union
      <3> QED BY <3>4 DEF I
    <2>3. M(u) # {} OBVIOUS
    <2>4. all[u] = MaxId(M(u)) OBVIOUS
    <2> HIDE DEF M, all
    <2> QED BY <2>1, <2>2, <2>3, <2>4, GreatestOf
  <1>9. ASSUME NEW u \in Thread, u # t PROVE Behind(s, all, u)
    <2>1. all[u] = s.vc[t][u] \/ \E w \in Thread : all[u] = s.waitTable[w][u] BY <1>7, <1>8
    <2> HIDE DEF all
    <2>2. Behind(s, s.vc[t], u) /\ \A w \in Thread : Behind(s, s.waitTable[w], u)
      BY <1>6, <1>9 DEF Had, Learnable
    <2> QED BY <2>1, <2>2 DEF Behind
  <1>10. all[t] = s.vc[t][t] /\ all \in Clock /\ s.vc[t][t] \in Nat
    <2>1. s.vc[t][t] \in M(t) BY <1>7
    <2>2. \A w \in Thread : s.waitTable[w][t] \in Nat /\ s.waitTable[w][t] <= s.vc[t][t] /\ s.vc[t][t] \in Nat
      <3>1. s.vc[t][t] \in Nat BY <1>6 DEF Clock
      <3>2. ASSUME NEW w \in Thread PROVE s.waitTable[w][t] \in Nat /\ s.waitTable[w][t] <= s.vc[t][t]
        <4>1. s.waitTable[w] \in Clock /\ Behind(s, s.waitTable[w], t) BY <1>6 DEF Learnable
        <4>2. s.waitTable[w][t] \in Nat BY <4>1 DEF Clock
        <4> QED BY <3>1, <4>1, <4>2 DEF Behind
      <3> QED BY <3>1, <3>2
    <2>3. \A k \in M(t) : k <= s.vc[t][t] /\ k \in Nat BY <1>7, <2>2
    <2>4. all[t] = s.vc[t][t]
      <3>1. all[t] \in M(t) /\ s.vc[t][t] <= all[t] BY <1>8, <2>1
      <3> HIDE DEF M, all
      <3> QED BY <2>3, <3>1, <2>2
    <2>5. \A u \in Thread : all[u] \in Nat BY <1>8
    <2> HIDE DEF M
    <2> QED BY <2>2, <2>4, <2>5 DEF Clock
  <1> HIDE DEF M, all
  <1>11. /\ up \in Clock /\ up[t] = s.vc[t][t] + 1
         /\ \A u \in Thread \ {t} : up[u] = all[u]
    BY <1>10 DEF Increment, Clock
  <1> HIDE DEF up, e
  <1>12. /\ e.vc \in [Thread -> Clock] /\ e.vc[t] = up
         /\ \A v \in Thread \ {t} : e.vc[v] = s.vc[v]
    BY <1>5, <1>6, <1>11
  <1>13. Advanced(s, e)
    <2>1. \A u \in Thread : s.vc[u][u] \in Nat BY <1>6 DEF Clock
    <2> QED BY <1>5, <1>11, <1>12, <2>1 DEF Advanced
  <1>14. Learnable(e, all)
    <2>1. ASSUME NEW u \in Thread \ {t} PROVE Behind(e, all, u)
      BY <1>6, <1>9, <1>10, <1>12, <1>13, <2>1, StillBehind
    <2>2. Behind(e, all, t) BY <1>10, <1>11, <1>12 DEF Behind
    <2> QED BY <1>10, <2>1, <2>2 DEF Learnable
  <1>15. ThreadsFine(e)
    <2> SUFFICES ASSUME NEW v \in Thread PROVE e.vc[v][v] > 0 /\ Had(e, e.vc[v], v)
      BY <1>12 DEF ThreadsFine
    <2>1. CASE v # t
      <3>1. Had(e, s.vc[v], v) BY <1>6, <1>12, <1>13, StillBehind
      <3> QED BY <1>6, <1>12, <2>1, <3>1
    <2>2. CASE v = t
      <3>1. \A u \in Thread \ {t} : Behind(e, up, u) BY <1>11, <1>14 DEF Learnable, Behind
      <3>2. up[t] > 0 /\ up[t] <= e.vc[t][t] BY <1>10, <1>11, <1>12
      <3> QED BY <1>11, <1>12, <2>2, <3>1, <3>2 DEF Had
    <2> QED BY <2>1, <2>2
  <1>16. DOMAIN e.signalTable = Thread
         /\ \A u \in Thread : e.signalTable[u] = s.signalTable[u] \/ Learnable(e, e.signalTable[u])
    BY <1>5, <1>7, <1>14
  <1>17. \A u \in Thread : /\ Sequence(e.signals[u])
                           /\ \A m \in ToSet(e.signals[u]) : m \in ToSet(s.signals[u]) \/ MetaFine(e, m, u)
    <2> SUFFICES ASSUME NEW u \in Thread
                 PROVE  /\ Sequence(e.signals[u])
                        /\ \A m \in ToSet(e.signals[u]) : m \in ToSet(s.signals[u]) \/ MetaFine(e, m, u)
      OBVIOUS
    <2>1. CASE u # t BY <1>1, <1>4, <1>5, <2>1 DEF Fine, SignalsFine
    <2>2. CASE u = t
      <3>1. ASSUME NEW m, "vc" \in DOMAIN m, "active" \in DOMAIN m, Had(s, m.vc, t)
            PROVE  MetaFine(e, m, t)
        <4>1. m.vc \in Clock /\ m.vc[t] \in Nat /\ m.vc[t] <= s.vc[t][t] BY <3>1 DEF Had, Clock
        <4>2. Had(e, m.vc, t) BY <1>6, <1>12, <1>13, <3>1, <4>1, StillBehind
        <4>3. m.vc[t] < e.vc[t][t] BY <1>10, <1>11, <1>12, <4>1
        <4> QED BY <3>1, <4>2, <4>3 DEF MetaFine
      <3> QED BY <1>4, <1>5, <2>2, <3>1
    <2> QED BY <2>1, <2>2
  <1>18. /\ DOMAIN e.mutexVc = Lock /\ DOMAIN e.waitTable = Thread /\ DOMAIN e.writes = Addr
         /\ DOMAIN e.signals = Thread /\ DOMAIN e.cw = Thread /\ SpinFine(e)
    BY <1>1, <1>3, <1>5 DEF Fine, TablesFine, WritesFine, WaitersFine, SpinFine
  <1>19. Fine(e) BY <1>1, <1>5, <1>13, <1>15, <1>16, <1>17, <1>18, FineStep
  <1> QED BY <1>2, <1>19

\* What a waiter leaves, under the mutex and for those who signal, are clocks of
\* epochs before the one it goes on in.
LEMMA CondWaitStepFine ==
  ASSUME AdhocInv, NEW t \in Thread, BeforePthreadCondWait(t), Arg(t) \in Lock
  PROVE  Fine(d')
  <1> DEFINE c == CondWaitForget(SpinSync(d, t, pc[t]), t)
             l == Arg(t)
             one == Increment(c.vc[t], t)
             two == Increment(one, t)
             e == [c EXCEPT !.mutexVc[l] = c.vc[t], !.waitTable[t] = one, !.vc[t] = two]
  <1>1. Fine(c) BY SpinSyncFine, CondWaitForgetFine DEF AdhocInv
  <1>2. d' = [c EXCEPT !.mutexVc[l] = c.vc[t], !.waitTable[t] = one,
                       !.vc[t] = Increment(Increment(@, t), t)]
    BY DEF BeforePthreadCondWait
  <1> HIDE DEF c, l
  <1>3. /\ c.vc \in [Thread -> Clock]
        /\ \A v \in Thread : c.vc[v][v] > 0 /\ Had(c, c.vc[v], v)
        /\ DOMAIN c.mutexVc = Lock /\ DOMAIN c.waitTable = Thread /\ DOMAIN c.signalTable = Thread
    BY <1>1 DEF Fine, ThreadsFine, TablesFine
  <1>4. d' = e BY <1>1, <1>2 DEF Fine, Fields
  <1>5. /\ Fields(e) /\ e.vc = [c.vc EXCEPT ![t] = two]
        /\ e.mutexVc = [c.mutexVc EXCEPT ![l] = c.vc[t]] /\ e.waitTable = [c.waitTable EXCEPT ![t] = one]
        /\ e.signalTable = c.signalTable /\ e.protected = c.protected /\ e.writes = c.writes
        /\ e.spin = c.spin /\ e.signals = c.signals /\ e.cw = c.cw
    BY <1>1 DEF Fine, Fields
  <1> DEFINE own == c.vc[t]
  <1>6. /\ own \in Clock /\ own[t] \in Nat
        /\ one \in Clock /\ one[t] = own[t] + 1 /\ \A u \in Thread \ {t} : one[u] = own[u]
        /\ two \in Clock /\ two[t] = own[t] + 2 /\ \A u \in Thread \ {t} : two[u] = own[u]
    <2>1. \A x \in Clock : /\ Increment(x, t) \in Clock /\ x[t] \in Nat /\ Increment(x, t)[t] = x[t] + 1
                           /\ \A u \in Thread \ {t} : Increment(x, t)[u] = x[u]
      BY DEF Increment, Clock
    <2>2. own \in Clock BY <1>3
    <2> HIDE DEF own
    <2>3. one \in Clock /\ one[t] = own[t] + 1 /\ \A u \in Thread \ {t} : one[u] = own[u]
      BY <2>1, <2>2 DEF own
    <2> HIDE DEF one
    <2> QED BY <2>1, <2>2, <2>3
  <1> HIDE DEF one, two, e
  <1>7. e.vc \in [Thread -> Clock] /\ e.vc[t] = two /\ \A v \in Thread \ {t} : e.vc[v] = c.vc[v]
    BY <1>3, <1>5, <1>6
  <1>8. Advanced(c, e)
    <2>1. \A u \in Thread : c.vc[u][u] \in Nat BY <1>3 DEF Clock
    <2> QED BY <1>5, <1>6, <1>7, <2>1 DEF Advanced
  <1>9. ASSUME NEW u \in Thread \ {t} PROVE Behind(e, own, u)
    BY <1>3, <1>6, <1>7, <1>8, StillBehind DEF Had
  <1>10. Learnable(e, own) /\ Learnable(e, one)
    <2>1. Behind(e, own, t) /\ Behind(e, one, t) BY <1>6, <1>7 DEF Behind
    <2>2. \A u \in Thread \ {t} : Behind(e, one, u) BY <1>6, <1>9 DEF Behind
    <2> QED BY <1>6, <1>9, <2>1, <2>2 DEF Learnable
  <1>11. ThreadsFine(e)
    <2> SUFFICES ASSUME NEW v \in Thread PROVE e.vc[v][v] > 0 /\ Had(e, e.vc[v], v)
      BY <1>7 DEF ThreadsFine
    <2>1. CASE v # t
      <3>1. Had(e, c.vc[v], v) BY <1>3, <1>7, <1>8, StillBehind
      <3> QED BY <1>3, <1>7, <2>1, <3>1
    <2>2. CASE v = t
      <3>1. \A u \in Thread \ {t} : Behind(e, two, u) BY <1>6, <1>9 DEF Behind
      <3>2. two[t] > 0 /\ two[t] <= e.vc[t][t] BY <1>6, <1>7
      <3> QED BY <1>6, <1>7, <2>2, <3>1, <3>2 DEF Had
    <2> QED BY <2>1, <2>2
  <1>12. /\ DOMAIN e.mutexVc = Lock /\ DOMAIN e.waitTable = Thread /\ DOMAIN e.signalTable = Thread
         /\ \A k \in Lock : e.mutexVc[k] = c.mutexVc[k] \/ Learnable(e, e.mutexVc[k])
         /\ \A u \in Thread : e.waitTable[u] = c.waitTable[u] \/ Learnable(e, e.waitTable[u])
    BY <1>3, <1>5, <1>10
  <1>13. /\ DOMAIN e.writes = Addr /\ DOMAIN e.signals = Thread /\ DOMAIN e.cw = Thread /\ SpinFine(e)
         /\ \A u \in Thread : Sequence(e.signals[u])
    BY <1>1, <1>5 DEF Fine, WritesFine, WaitersFine, SpinFine, SignalsFine
  <1>14. /\ \A u \in Thread : e.signalTable[u] = c.signalTable[u] /\ e.cw[u] = c.cw[u]
         /\ \A a \in Addr : e.writes[a] = c.writes[a]
    BY <1>5
  <1>15. \A u \in Thread : \A m \in ToSet(e.signals[u]) : m \in ToSet(c.signals[u]) BY <1>5
  <1>16. Fine(e) BY <1>1, <1>5, <1>8, <1>11, <1>12, <1>13, <1>14, <1>15, FineStep
  <1> QED BY <1>4, <1>16

\* A waiter that returns learns the signal's clock and the mutex's.
LEMMA ReturnFine ==
  ASSUME AdhocInv, NEW t \in Thread, RealReturn(t), Arg(t) \in Lock
  PROVE  Fine(d')
  <1> DEFINE m == Arg(t)
             x == [d EXCEPT !.vc[t] = Join(@, d.signalTable[t])]
             e == [x EXCEPT !.vc[t] = Join(@, d.mutexVc[m])]
  <1>0. Fine(d) BY DEF AdhocInv
  <1>1. /\ d.vc \in [Thread -> Clock] /\ DOMAIN d.waitTable = Thread /\ DOMAIN d.signalTable = Thread
        /\ Learnable(d, d.signalTable[t]) /\ Learnable(d, d.mutexVc[m])
    BY <1>0 DEF Fine, ThreadsFine, TablesFine
  <1>2. /\ Fields(d') /\ d'.protected = d.protected /\ d'.mutexVc = d.mutexVc /\ d'.writes = d.writes
        /\ d'.vc = [d.vc EXCEPT ![t] = Join(Join(@, d.signalTable[t]), d.mutexVc[m])]
        /\ d'.waitTable = [d.waitTable EXCEPT ![t] = Zero]
        /\ d'.signalTable = [d.signalTable EXCEPT ![t] = Zero]
        /\ d'.spin = d.spin /\ d'.signals = d.signals /\ d'.cw = d.cw
    BY <1>0 DEF RealReturn, Fine, Fields
  <1>3. /\ Fields(x) /\ x.vc = [d.vc EXCEPT ![t] = Join(@, d.signalTable[t])]
        /\ x.protected = d.protected /\ x.mutexVc = d.mutexVc /\ x.waitTable = d.waitTable
        /\ x.signalTable = d.signalTable /\ x.writes = d.writes /\ x.spin = d.spin
        /\ x.signals = d.signals /\ x.cw = d.cw
    BY <1>0 DEF Fine, Fields
  <1> HIDE DEF x, m
  <1>4. Fine(x)
    <2>1. ThreadsFine(x) /\ Advanced(d, x) BY <1>0, <1>1, <1>3, LearnAny
    <2>2. SpinFine(x) BY <1>0, <1>3 DEF Fine, SpinFine
    <2> QED BY <1>0, <1>3, <2>1, <2>2, FineLearnt
  <1>5. Learnable(x, d.mutexVc[m])
    <2>1. Learnable(x, x.mutexVc[m]) BY <1>1, <1>3, <1>4, StillBehind, LearnAny, <1>0 DEF Fine, ThreadsFine, Learnable
    <2> QED BY <1>3, <2>1
  <1>6. d'.vc = [x.vc EXCEPT ![t] = Join(@, d.mutexVc[m])] BY <1>1, <1>2, <1>3
  <1>7. ThreadsFine(d') /\ Advanced(x, d') BY <1>2, <1>3, <1>4, <1>5, <1>6, LearnAny
  <1>8. Learnable(d', Zero)
    <2>1. \A u \in Thread : d'.vc[u][u] > 0 BY <1>7 DEF ThreadsFine
    <2> QED BY <2>1 DEF Learnable, Behind, Zero, Clock
  <1>9. /\ DOMAIN d'.mutexVc = Lock /\ DOMAIN d'.waitTable = Thread /\ DOMAIN d'.signalTable = Thread
        /\ DOMAIN d'.writes = Addr /\ DOMAIN d'.signals = Thread /\ DOMAIN d'.cw = Thread
        /\ \A u \in Thread : Sequence(d'.signals[u])
        /\ SpinFine(d')
    BY <1>0, <1>2 DEF Fine, TablesFine, WritesFine, SignalsFine, WaitersFine, SpinFine
  <1>10. /\ \A l \in Lock : d'.mutexVc[l] = x.mutexVc[l]
         /\ \A a \in Addr : d'.writes[a] = x.writes[a]
         /\ \A u \in Thread : /\ d'.cw[u] = x.cw[u]
                               /\ \A n \in ToSet(d'.signals[u]) : n \in ToSet(x.signals[u])
    BY <1>2, <1>3
  <1>11. \A u \in Thread : /\ d'.waitTable[u] = x.waitTable[u] \/ Learnable(d', d'.waitTable[u])
                           /\ d'.signalTable[u] = x.signalTable[u] \/ Learnable(d', d'.signalTable[u])
    BY <1>1, <1>2, <1>3, <1>8
  <1> HIDE DEF e
  <1> SUFFICES ASSUME NEW y, y = d' PROVE Fine(y) OBVIOUS
  <1>12. Fields(y) /\ ThreadsFine(y) /\ Advanced(x, y) BY <1>2, <1>7
  <1>13. /\ DOMAIN y.mutexVc = Lock /\ DOMAIN y.waitTable = Thread /\ DOMAIN y.signalTable = Thread
         /\ DOMAIN y.writes = Addr /\ DOMAIN y.signals = Thread /\ DOMAIN y.cw = Thread
         /\ SpinFine(y)
    BY <1>9
  <1>14. /\ \A l \in Lock : y.mutexVc[l] = x.mutexVc[l]
         /\ \A a \in Addr : y.writes[a] = x.writes[a]
         /\ \A u \in Thread : y.cw[u] = x.cw[u]
         /\ \A u \in Thread : /\ Sequence(y.signals[u])
                               /\ \A n \in ToSet(y.signals[u]) : n \in ToSet(x.signals[u])
    BY <1>9, <1>10
  <1>15. /\ \A u \in Thread : y.waitTable[u] = x.waitTable[u] \/ Learnable(y, y.waitTable[u])
         /\ \A u \in Thread : y.signalTable[u] = x.signalTable[u] \/ Learnable(y, y.signalTable[u])
    BY <1>11
  <1> QED BY <1>4, <1>12, <1>13, <1>14, <1>15, FineStep

-----------------------------------------------------------------------------
(* Each step, and the theorem. *)

LEMMA InitFine == Init => AdhocInv
  <1> SUFFICES ASSUME Init PROVE AdhocInv OBVIOUS
  <1>1. pc \in [Thread -> DOMAIN Text] BY TextAssumption DEF Init
  <1>2. /\ Fields(d) /\ d.vc = [t \in Thread |-> Increment(Zero, t)]
        /\ d.mutexVc = [l \in Lock |-> Zero] /\ d.waitTable = [t \in Thread |-> Zero]
        /\ d.signalTable = [t \in Thread |-> Zero] /\ d.writes = [a \in Addr |-> None]
        /\ d.spin = [t \in Thread |-> None] /\ d.signals = [t \in Thread |-> << >>]
        /\ d.cw = [t \in Thread |-> None]
    BY DEF Init, Fields
  <1>3. ASSUME NEW t \in Thread
        PROVE  /\ d.vc[t] \in Clock /\ d.vc[t][t] = 1
               /\ \A u \in Thread \ {t} : d.vc[t][u] = 0
    BY <1>2 DEF Increment, Zero, Clock
  <1>4. ThreadsFine(d)
    <2>1. d.vc \in [Thread -> Clock] BY <1>2, <1>3
    <2>2. ASSUME NEW t \in Thread PROVE d.vc[t][t] > 0 /\ Had(d, d.vc[t], t)
      <3>1. \A u \in Thread \ {t} : Behind(d, d.vc[t], u)
        <4> TAKE u \in Thread \ {t}
        <4>1. d.vc[t][u] = 0 /\ d.vc[u][u] = 1 BY <1>3
        <4> QED BY <4>1 DEF Behind
      <3>2. d.vc[t] \in Clock /\ d.vc[t][t] = 1 BY <1>3
      <3> QED BY <3>1, <3>2 DEF Had
    <2> QED BY <2>1, <2>2 DEF ThreadsFine
  <1>5. Learnable(d, Zero)
    <2>1. Zero \in Clock /\ \A u \in Thread : Zero[u] = 0 BY DEF Zero, Clock
    <2>2. \A u \in Thread : d.vc[u][u] = 1 BY <1>3
    <2> QED BY <2>1, <2>2 DEF Learnable, Behind
  <1>6. TablesFine(d) BY <1>2, <1>5 DEF TablesFine
  <1>7. WritesFine(d) /\ SpinFine(d) /\ WaitersFine(d)
    BY <1>2 DEF WritesFine, SpinFine, WaitersFine
  <1>8. SignalsFine(d)
    <2>1. Sequence(<< >>) /\ ToSet(<< >>) = {} BY DEF Sequence, ToSet
    <2> QED BY <1>2, <2>1 DEF SignalsFine
  <1>9. DOMAIN phase = Thread /\ \A t \in Thread : phase[t] = "before" BY DEF Init
  <1> QED BY <1>1, <1>2, <1>4, <1>6, <1>7, <1>8, <1>9 DEF AdhocInv, Fine

\* Where a thread goes from an instruction that is not an exit is in the text.
LEMMA Onward ==
  ASSUME AdhocInv, NEW t \in Thread
  PROVE  /\ Op(t) # "exit" => Text[pc[t]].next \in DOMAIN Text /\ Text[pc[t]].zero \in DOMAIN Text
         /\ Op(t) = "read" => Arg(t) \in Addr
         /\ Op(t) = "wait" => Arg(t) \in Lock
  <1>1. pc[t] \in DOMAIN Text BY DEF AdhocInv
  <1> QED BY <1>1, TextAssumption DEF Op, Arg

\* A thread is told on, and no one falls asleep or wakes.
LEMMA GoneOn ==
  ASSUME AdhocInv, NEW t \in Thread, NEW i \in DOMAIN Text, Go(t, i), Fine(d')
  PROVE  AdhocInv'
  <1>1. pc' \in [Thread -> DOMAIN Text] /\ DOMAIN phase' = Thread BY DEF AdhocInv, Go
  <1>2. ASSUME NEW u \in Thread, phase'[u] \in {"asleep", "woken"} PROVE Op(u)' = "wait"
    <2>1. u # t /\ phase'[u] = phase[u] /\ pc'[u] = pc[u] BY <1>2 DEF AdhocInv, Go
    <2> QED BY <1>2, <2>1 DEF AdhocInv, Op
  <1> QED BY <1>1, <1>2 DEF AdhocInv

\* The thread's callback has been made.
LEMMA CalledBack ==
  ASSUME AdhocInv, NEW t \in Thread, NEW p, p \notin {"asleep", "woken"},
         phase' = [phase EXCEPT ![t] = p], pc' = pc, Fine(d')
  PROVE  AdhocInv'
  <1>1. pc' \in [Thread -> DOMAIN Text] /\ DOMAIN phase' = Thread BY DEF AdhocInv
  <1>2. ASSUME NEW u \in Thread, phase'[u] \in {"asleep", "woken"} PROVE Op(u)' = "wait"
    <2>1. u # t /\ phase'[u] = phase[u] /\ pc'[u] = pc[u] BY <1>2 DEF AdhocInv
    <2> QED BY <1>2, <2>1 DEF AdhocInv, Op
  <1> QED BY <1>1, <1>2 DEF AdhocInv

\* The callbacks.
LEMMA CallbackFine ==
  ASSUME AdhocInv, NEW t \in Thread, Callbacks(t)
  PROVE  AdhocInv'
  <1>0. Fine(d) BY DEF AdhocInv
  <1>1. CASE BeforeMemRead(t)
    <2>1. Fine(d') BY <1>1, ReadFine, Onward DEF BeforeMemRead, At
    <2>2. phase' = [phase EXCEPT ![t] = "after"] /\ pc' = pc BY <1>1 DEF BeforeMemRead, Called
    <2> QED BY <2>1, <2>2, CalledBack
  <1>2. CASE BeforeMemWrite(t)
    <2>1. Fine(d') BY <1>2, WriteStepFine
    <2>2. phase' = [phase EXCEPT ![t] = "after"] /\ pc' = pc BY <1>2 DEF BeforeMemWrite, Called
    <2> QED BY <2>1, <2>2, CalledBack
  <1>3. CASE BeforeOther(t)
    <2>1. Fine(d') BY <1>0, <1>3, SyncsFine DEF BeforeOther
    <2>2. phase' = [phase EXCEPT ![t] = "after"] /\ pc' = pc BY <1>3 DEF BeforeOther, Called
    <2> QED BY <2>1, <2>2, CalledBack
  <1>4. CASE BeforePthreadMutexUnlock(t)
    <2>1. Fine(d') BY <1>4, MutexUnlockFine
    <2>2. phase' = [phase EXCEPT ![t] = "after"] /\ pc' = pc
      BY <1>4 DEF BeforePthreadMutexUnlock, Called
    <2> QED BY <2>1, <2>2, CalledBack
  <1>5. CASE BeforePthreadRwlockUnlock(t)
    <2>1. Fine(d') BY <1>5, RwUnlockFine
    <2>2. phase' = [phase EXCEPT ![t] = "after"] /\ pc' = pc
      BY <1>5 DEF BeforePthreadRwlockUnlock, Called
    <2> QED BY <2>1, <2>2, CalledBack
  <1>6. CASE BeforePthreadCondSignal(t)
    <2>1. Fine(d') BY <1>6, CondSignalFine
    <2>2. phase' = [phase EXCEPT ![t] = "after"] /\ pc' = pc
      BY <1>6 DEF BeforePthreadCondSignal, Called
    <2> QED BY <2>1, <2>2, CalledBack
  <1>7. CASE BeforePthreadCondWait(t)
    <2>1. Op(t) = "wait" BY <1>7 DEF BeforePthreadCondWait, At
    <2>2. Fine(d') BY <1>7, <2>1, CondWaitStepFine, Onward
    <2>3. phase' = [phase EXCEPT ![t] = "after"] /\ pc' = pc
      BY <1>7 DEF BeforePthreadCondWait, Called
    <2> QED BY <2>2, <2>3, CalledBack
  <1>8. CASE BeforeCall(t)
    <2>1. Fine(d') BY <1>8, CallFine
    <2>2. phase' = [phase EXCEPT ![t] = "after"] /\ pc' = pc BY <1>8 DEF BeforeCall, Called
    <2> QED BY <2>1, <2>2, CalledBack
  <1>9. CASE ThreadExit(t)
    <2>1. Fine(d') BY <1>0, <1>9, SyncsFine DEF ThreadExit
    <2>2. phase' = [phase EXCEPT ![t] = "done"] /\ pc' = pc BY <1>9 DEF ThreadExit
    <2> QED BY <2>1, <2>2, CalledBack
  <1> QED BY <1>1, <1>2, <1>3, <1>4, <1>5, <1>6, <1>7, <1>8, <1>9 DEF Callbacks

\* The instructions that only move a thread on.
LEMMA MoveFine ==
  ASSUME AdhocInv, NEW t \in Thread, NEW ops, Done(t, ops), "exit" \notin ops, Fine(d')
  PROVE  AdhocInv'
  BY Onward, GoneOn DEF Done

\* The locks a thread holds do not matter here, nor does the call it has made.
LEMMA HeldFine ==
  ASSUME AdhocInv, NEW t \in Thread, RealLock(t) \/ RealRdlock(t) \/ RealCall(t)
  PROVE  Fine(d')
  <1>0. Fine(d) BY DEF AdhocInv
  <1>1. CASE RealLock(t)
    <2> DEFINE p == [d EXCEPT !.stack[t] = Append(@, Arg(t))]
    <2>1. Pushed(d, t, Arg(t)) = p \/ Pushed(d, t, Arg(t)) = d BY DEF Pushed
    <2>2. d' = [Pushed(d, t, Arg(t)) EXCEPT !.ls[t] = @ \cup {Arg(t)}] BY <1>1 DEF RealLock
    <2>3. Fields(d') /\ Same(d, d') BY <1>0, <2>1, <2>2 DEF Fine, Fields, Same
    <2> QED BY <1>0, <2>3, SameFine
  <1>2. CASE RealRdlock(t)
    <2>1. d' = [d EXCEPT !.rdls[t] = @ \cup {Arg(t)}] BY <1>2 DEF RealRdlock
    <2>2. Fields(d') /\ Same(d, d') BY <1>0, <2>1 DEF Fine, Fields, Same
    <2> QED BY <1>0, <2>2, SameFine
  <1>3. CASE RealCall(t)
    <2>1. d' = d \/ d' = [d EXCEPT !.spinCall[t] = NoCall] BY <1>3 DEF RealCall
    <2>2. Fields(d') /\ Same(d, d') BY <1>0, <2>1 DEF Fine, Fields, Same
    <2> QED BY <1>0, <2>2, SameFine
  <1> QED BY <1>1, <1>2, <1>3

\* The instructions.
LEMMA InstructionFine ==
  ASSUME AdhocInv, NEW t \in Thread, Instructions(t)
  PROVE  AdhocInv'
  <1>0. Fine(d) BY DEF AdhocInv
  <1>1. CASE RealRead(t) BY <1>0, <1>1, MoveFine DEF RealRead
  <1>2. CASE RealWrite(t) BY <1>0, <1>2, MoveFine DEF RealWrite
  <1>3. CASE Branch(t)
    <2>1. Op(t) = "branch" /\ d' = d /\ Go(t, IF reg[t] = 0 THEN Text[pc[t]].zero ELSE Text[pc[t]].next)
      BY <1>3 DEF Branch
    <2> QED BY <1>0, <2>1, Onward, GoneOn
  <1>4. CASE RealLock(t) BY <1>4, HeldFine, MoveFine DEF RealLock
  <1>5. CASE RealRdlock(t) BY <1>5, HeldFine, MoveFine DEF RealRdlock
  <1>6. CASE RealUnlock(t) BY <1>0, <1>6, MoveFine DEF RealUnlock
  <1>7. CASE RealCall(t) BY <1>7, HeldFine, MoveFine DEF RealCall
  <1>8. CASE RealSignal(t)
    <2>1. Op(t) \in {"signal", "broadcast"} /\ d' = d /\ pc' = [pc EXCEPT ![t] = Text[pc[t]].next]
      BY <1>8 DEF RealSignal
    <2>2. PICK woken \in SUBSET {u \in Thread : phase[u] = "asleep"} :
            phase' = [u \in Thread |-> IF u = t THEN "before" ELSE IF u \in woken THEN "woken" ELSE phase[u]]
      BY <1>8 DEF RealSignal
    <2>3. pc' \in [Thread -> DOMAIN Text] /\ DOMAIN phase' = Thread
      BY <2>1, <2>2, Onward DEF AdhocInv
    <2>4. ASSUME NEW u \in Thread, phase'[u] \in {"asleep", "woken"} PROVE Op(u)' = "wait"
      <3>1. u # t /\ phase[u] \in {"asleep", "woken"} /\ pc'[u] = pc[u]
        BY <2>1, <2>2, <2>4 DEF AdhocInv
      <3> QED BY <3>1 DEF AdhocInv, Op
    <2>5. Fine(d') BY <1>0, <2>1
    <2> QED BY <2>3, <2>4, <2>5 DEF AdhocInv
  <1>9. ASSUME RealWait(t) \/ Wake(t) PROVE AdhocInv'
    <2>1. Op(t) = "wait" /\ d' = d /\ pc' = pc BY <1>9 DEF RealWait, Wake, AdhocInv
    <2>2. \E p : phase' = [phase EXCEPT ![t] = p] BY <1>9 DEF RealWait, Wake
    <2>3. ASSUME NEW u \in Thread, phase'[u] \in {"asleep", "woken"} PROVE Op(u)' = "wait"
      <3>1. CASE u = t BY <2>1, <3>1 DEF Op
      <3>2. CASE u # t
        <4>1. phase'[u] = phase[u] BY <2>2, <3>2 DEF AdhocInv
        <4> QED BY <2>1, <2>3, <4>1 DEF AdhocInv, Op
      <3> QED BY <3>1, <3>2
    <2>4. pc' \in [Thread -> DOMAIN Text] /\ DOMAIN phase' = Thread BY <2>1, <2>2 DEF AdhocInv
    <2>5. Fine(d') BY <1>0, <2>1
    <2> QED BY <2>3, <2>4, <2>5 DEF AdhocInv
  <1>10. CASE RealReturn(t)
    <2>1. Op(t) = "wait" BY <1>10 DEF RealReturn, AdhocInv
    <2>2. Fine(d') BY <1>10, <2>1, Onward, ReturnFine
    <2>3. Go(t, Text[pc[t]].next) BY <1>10 DEF RealReturn
    <2> QED BY <2>1, <2>2, <2>3, Onward, GoneOn
  <1> QED BY <1>1, <1>2, <1>3, <1>4, <1>5, <1>6, <1>7, <1>8, <1>9, <1>10 DEF Instructions

LEMMA StepFine == AdhocInv /\ [Next]_vars => AdhocInv'
  <1> SUFFICES ASSUME AdhocInv, [Next]_vars PROVE AdhocInv' OBVIOUS
  <1>1. CASE UNCHANGED vars
    <2>1. pc' = pc /\ phase' = phase /\ d' = d BY <1>1 DEF vars, programVars
    <2>2. Fine(d') BY <2>1 DEF AdhocInv
    <2> QED BY <2>1, <2>2 DEF AdhocInv, Op
  <1>2. CASE Next BY <1>2, CallbackFine, InstructionFine DEF Next
  <1> QED BY <1>1, <1>2

\* Whatever the program and the loops in its tables, and whichever of the three
\* analyses run: no edge they add, and none of those the condition variables give,
\* lets a thread know the epoch another one is in, which would hide the races of
\* what that one does next (adhoc_sync.cc, loop.cc and cond_wait.cc, with
\* multilock_hb.cc's clocks); but for the epochs of which loop.cc leaves the end to
\* an unlock.
THEOREM EpochsKept == Spec => []EpochsEnd
  <1>1. Spec => []AdhocInv BY InitFine, StepFine, PTL DEF Spec
  <1>2. AdhocInv => EpochsEnd BY FineEpochs
  <1> QED BY <1>1, <1>2, PTL
=============================================================================
