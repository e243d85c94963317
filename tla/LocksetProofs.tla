---------------------------- MODULE LocksetProofs ----------------------------
(***************************************************************************)
(* The lockset and hybrid detectors and ThreadSanitizer, for any set of    *)
(* threads and mutexes, any number of accesses and any length of           *)
(* SimpleLock's lists.                                                      *)
(*                                                                         *)
(* First what all of them know of a thread: the tables of locks and the     *)
(* counts follow what the threads hold, and a clock that a thread has       *)
(* learnt by creation and join covers every access that these order before  *)
(* it.  Then Hybrids: data that one lock protects is never reported, what   *)
(* is reported was concurrent, and the accesses that are dropped lose no    *)
(* race.  Last Sanitizer: its reference counts are those of the references  *)
(* there are, so that no segment is deleted while in use, and it reports no *)
(* data that one lock protects and, as long as no clock has gone backwards, *)
(* no pair of accesses that creation and join order.                        *)
(***************************************************************************)
EXTENDS Hybrids, Sanitizer, DetectorProofs

\* A step of the program and of the tables.
LockStep(t) ==
  \/ \E c \in Thread : LockCreate(t, c) \/ LockJoin(t, c)
  \/ LockExit(t)
  \/ \E m \in Mutex : LockMutexLock(t, m) \/ LockMutexUnlock(t, m)
  \/ LockRdlock(t) \/ LockWrlock(t) \/ LockRwlockUnlock(t)
  \/ \E k \in Kind : LockTouch(t, k)

-----------------------------------------------------------------------------
(* The inductive invariant. *)

LockPC == {"unborn", "run", "exited", "reaped"}

\* Nobody is inside a call: calls and their callbacks are one step here.
BetweenCalls == \A t \in Thread : pc[t] \in LockPC

Held(t) == HeldWrite(t) \cup HeldRead(t)

TableTypes ==
  /\ wls \in [Thread -> SUBSET Lock] /\ rls \in [Thread -> SUBSET Lock]
  /\ ls \in [Thread -> SUBSET Lock] /\ rdls \in [Thread -> SUBSET Lock]
  /\ locked \subseteq Thread
  /\ lockRef \in Nat /\ lc \in [Thread -> Nat]

\* What the tables hold of t, between two calls or not.
Tables(t) ==
  /\ ls[t] = HeldWrite(t) /\ rdls[t] = HeldRead(t)
  /\ IsFiniteSet(HeldWrite(t)) /\ lc[t] = Cardinality(Held(t))
  /\ ls[t] # {} => t \in locked
  /\ wls[t] = HeldWrite(t)
  /\ Held(t) \subseteq rls[t]
  /\ rls[t] \ Held(t) \subseteq {Rw}

\* What lock_reference_map_ counts.
RefInv ==
  /\ writer # NoThread => readers = {} /\ lockRef = 1
  /\ writer = NoThread => lockRef = Cardinality(readers)

TablesInv == TableTypes /\ RefInv /\ \A t \in Thread : Tables(t)

-----------------------------------------------------------------------------
(* Types. *)

\* A new thread's clock is its own first epoch and all its parent has; the
\* parent goes on to its next.
LEMMA StartedProp ==
  ASSUME NEW C \in [Thread -> Clock], NEW t \in Thread, NEW c \in Thread, c # t
  PROVE  /\ Started(C, c, t) \in [Thread -> Clock]
         /\ Started(C, c, t)[c] = Join(Increment(Zero, c), C[t])
         /\ Started(C, c, t)[t] = Increment(C[t], t)
         /\ \A u \in Thread \ {c, t} : Started(C, c, t)[u] = C[u]
         /\ \A w \in Thread : /\ C[t][w] <= Started(C, c, t)[c][w]
                              /\ C[t][w] <= Started(C, c, t)[t][w]
                              /\ w # c => Started(C, c, t)[c][w] = C[t][w]
         /\ 1 <= Started(C, c, t)[c][c]
  <1> DEFINE N == Join(Increment(Zero, c), C[t])
             M == Increment(C[t], t)
  <1>1. C[t] \in Clock /\ Increment(Zero, c) \in Clock /\ N \in Clock /\ M \in Clock
    BY JoinProp, IncrementProp, ZeroProp
  <1>2. Started(C, c, t) = [[C EXCEPT ![c] = N] EXCEPT ![t] = M] BY DEF Started
  <1>3. /\ Started(C, c, t) \in [Thread -> Clock]
        /\ Started(C, c, t)[c] = N /\ Started(C, c, t)[t] = M
        /\ \A u \in Thread \ {c, t} : Started(C, c, t)[u] = C[u]
    <2> HIDE DEF N, M
    <2> QED BY <1>1, <1>2
  <1>4. /\ Increment(Zero, c)[c] = 1
        /\ \A w \in Thread \ {c} : Increment(Zero, c)[w] = 0
    BY DEF Increment, Zero
  <1>5. ASSUME NEW w \in Thread
        PROVE  C[t][w] <= N[w] /\ C[t][w] <= M[w] /\ (w # c => N[w] = C[t][w]) /\ 1 <= N[c]
    <2>1. C[t][w] \in Nat /\ N[w] \in Nat /\ M[w] \in Nat /\ N[c] \in Nat /\ C[t][c] \in Nat
      BY <1>1 DEF Clock
    <2>2. C[t][w] <= M[w] BY <1>1, <2>1 DEF Increment, Clock
    <2>3. N[w] = IF Increment(Zero, c)[w] < C[t][w] THEN C[t][w] ELSE Increment(Zero, c)[w]
      BY DEF Join
    <2>4. N[c] = IF Increment(Zero, c)[c] < C[t][c] THEN C[t][c] ELSE Increment(Zero, c)[c]
      BY DEF Join
    <2> QED BY <2>1, <2>2, <2>3, <2>4, <1>4
  <1> QED BY <1>3, <1>5

\* The joining thread learns all its child has and goes on to its next epoch.
LEMMA JoinedProp ==
  ASSUME NEW C \in [Thread -> Clock], NEW t \in Thread, NEW c \in Thread, c # t
  PROVE  /\ Joined(C, t, c) \in [Thread -> Clock]
         /\ Joined(C, t, c)[c] = Zero
         /\ \A u \in Thread \ {c, t} : Joined(C, t, c)[u] = C[u]
         /\ \A w \in Thread : /\ C[t][w] <= Joined(C, t, c)[t][w]
                              /\ C[c][w] <= Joined(C, t, c)[t][w]
                              /\ w # t => \/ Joined(C, t, c)[t][w] = C[t][w]
                                          \/ Joined(C, t, c)[t][w] = C[c][w]
         /\ C[t][t] < Joined(C, t, c)[t][t] /\ C[c][t] < Joined(C, t, c)[t][t]
  <1> DEFINE J == Join(C[t], C[c])
             N == Increment(J, t)
  <1>1. C[t] \in Clock /\ C[c] \in Clock /\ J \in Clock /\ N \in Clock /\ Zero \in Clock
    BY JoinProp, IncrementProp, ZeroProp
  <1>2. Joined(C, t, c) = [[C EXCEPT ![t] = N] EXCEPT ![c] = Zero] BY DEF Joined
  <1>3. /\ Joined(C, t, c) \in [Thread -> Clock]
        /\ Joined(C, t, c)[c] = Zero /\ Joined(C, t, c)[t] = N
        /\ \A u \in Thread \ {c, t} : Joined(C, t, c)[u] = C[u]
    <2> HIDE DEF J, N
    <2> QED BY <1>1, <1>2
  <1>4. /\ N[t] = J[t] + 1
        /\ \A w \in Thread \ {t} : N[w] = J[w]
    BY <1>1, IncrementProp
  <1>5. ASSUME NEW w \in Thread
        PROVE  /\ C[t][w] <= N[w] /\ C[c][w] <= N[w]
               /\ w # t => N[w] = C[t][w] \/ N[w] = C[c][w]
               /\ w = t => C[t][w] < N[w] /\ C[c][w] < N[w]
    <2>1. C[t][w] \in Nat /\ C[c][w] \in Nat /\ J[w] \in Nat /\ N[w] \in Nat BY <1>1 DEF Clock
    <2>2. C[t][w] <= J[w] /\ C[c][w] <= J[w] /\ (J[w] = C[t][w] \/ J[w] = C[c][w])
      BY <1>1, JoinProp
    <2> QED BY <2>1, <2>2, <1>4
  <1> QED BY <1>3, <1>5

\* The accesses and AccuLock's clocks.
AccessTypes == accuVc \in [Thread -> Clock] /\ seen \subseteq Access

\* Creation is of a thread that is not there yet, a join of one that has ended.
LEMMA OtherThread ==
  ASSUME NEW t \in Thread, NEW c \in Thread, TypeOK
  PROVE  /\ LockCreate(t, c) => pc[c] = "unborn" /\ c # t
         /\ LockJoin(t, c) => pc[c] = "exited" /\ c # t
  BY DEF LockCreate, LockJoin, Move

\* The core's variables keep their types.
LEMMA CoreTypes ==
  ASSUME NEW t \in Thread, TypeOK, BetweenCalls, LockStep(t)
  PROVE  TypeOK' /\ BetweenCalls'
  <1> USE DEF TypeOK, BetweenCalls, LockPC, PC
  <1>1. ASSUME NEW c \in Thread, LockCreate(t, c) PROVE TypeOK' /\ BetweenCalls'
    <2>1. c # t BY <1>1, OtherThread
    <2>2. vc' \in [Thread -> Clock] BY <1>1, <2>1, StartedProp DEF LockCreate
    <2>3. hb' \in [Thread -> Clock]
      <3>1. Join(hb[c], hb[t]) \in Clock BY JoinProp
      <3> QED BY <1>1, <3>1 DEF LockCreate, Learn
    <2>4. pc' = [pc EXCEPT ![c] = "run"] BY <1>1 DEF LockCreate, Move, Goto
    <2> QED BY <1>1, <2>2, <2>3, <2>4 DEF LockCreate, lockVars, rwVars, condVars, barVars, semVars
  <1>2. ASSUME NEW c \in Thread, LockJoin(t, c) PROVE TypeOK' /\ BetweenCalls'
    <2>1. c # t BY <1>2, OtherThread
    <2>2. vc' \in [Thread -> Clock] BY <1>2, <2>1, JoinedProp DEF LockJoin
    <2>3. hb' \in [Thread -> Clock]
      <3>1. Join(hb[t], hb[c]) \in Clock BY JoinProp
      <3> QED BY <1>2, <3>1 DEF LockJoin, Learn
    <2>4. pc' = [pc EXCEPT ![c] = "reaped"] BY <1>2 DEF LockJoin, Move, Goto
    <2> QED BY <1>2, <2>2, <2>3, <2>4 DEF LockJoin, lockVars, rwVars, condVars, barVars, semVars
  <1>3. CASE LockExit(t)
    <2>1. pc' = [pc EXCEPT ![t] = "exited"] BY <1>3 DEF LockExit, Move, Goto
    <2> QED BY <1>3, <2>1 DEF LockExit, lockVars, rwVars, condVars, barVars, semVars
  <1>4. ASSUME NEW m \in Mutex, LockMutexLock(t, m) PROVE TypeOK' /\ BetweenCalls'
    <2>1. left' \in 0..MaxOps BY <1>4, BoundAssumption DEF LockMutexLock, Raise
    <2>2. holder' \in [Mutex -> Thread \cup {NoThread}] BY <1>4 DEF LockMutexLock
    <2> QED BY <1>4, <2>1, <2>2 DEF LockMutexLock, rwVars, condVars, barVars, semVars
  <1>5. ASSUME NEW m \in Mutex, LockMutexUnlock(t, m) PROVE TypeOK' /\ BetweenCalls'
    <2>2. holder' \in [Mutex -> Thread \cup {NoThread}] BY <1>5 DEF LockMutexUnlock
    <2> QED BY <1>5, <2>2 DEF LockMutexUnlock, callVars, rwVars, condVars, barVars, semVars
  <1>6. CASE LockRdlock(t)
    <2>1. left' \in 0..MaxOps BY <1>6, BoundAssumption DEF LockRdlock, Raise
    <2> QED BY <1>6, <2>1 DEF LockRdlock, rwTruth, lockVars, condVars, barVars, semVars
  <1>7. CASE LockWrlock(t)
    <2>1. left' \in 0..MaxOps BY <1>7, BoundAssumption DEF LockWrlock, Raise
    <2> QED BY <1>7, <2>1 DEF LockWrlock, rwTruth, lockVars, condVars, barVars, semVars
  <1>8. CASE LockRwlockUnlock(t)
    <2>1. writer' \in Thread \cup {NoThread} /\ readers' \subseteq Thread BY <1>8 DEF LockRwlockUnlock
    <2> QED BY <1>8, <2>1 DEF LockRwlockUnlock, callVars, rwTruth, lockVars, condVars, barVars, semVars
  <1>9. ASSUME NEW k \in Kind, LockTouch(t, k) PROVE TypeOK' /\ BetweenCalls'
    <2>1. left' \in 0..MaxOps BY <1>9, BoundAssumption DEF LockTouch, Touch, Raise
    <2>2. epochs' \in [Thread -> Seq(Nat)]
      <3>1. epochs[t] \in Seq(Nat) /\ vc[t][t] \in Nat BY DEF Clock
      <3>2. Append(epochs[t], vc[t][t]) \in Seq(Nat) BY <3>1
      <3> QED BY <1>9, <3>2 DEF LockTouch, Touch
    <2>3. hb' \in [Thread -> Clock]
      <3>0. hb[t] \in Clock /\ hb[t][t] \in Nat BY DEF Clock
      <3>1. hb[t] \in Clock /\ hb[t][t] + 1 \in Nat BY <3>0
      <3>2. [hb[t] EXCEPT ![t] = @ + 1] \in Clock BY <3>1 DEF Clock
      <3>3. hb' = [hb EXCEPT ![t] = [hb[t] EXCEPT ![t] = @ + 1]] BY <1>9 DEF LockTouch, Touch
      <3> QED BY <3>2, <3>3
    <2> QED BY <1>9, <2>1, <2>2, <2>3 DEF LockTouch, Touch, lockVars, rwVars, condVars, barVars, semVars
  <1> QED BY <1>1, <1>2, <1>3, <1>4, <1>5, <1>6, <1>7, <1>8, <1>9 DEF LockStep

\* A step that creates and joins nobody.
LockCalls(t) ==
  \/ LockExit(t)
  \/ \E m \in Mutex : LockMutexLock(t, m) \/ LockMutexUnlock(t, m)
  \/ LockRdlock(t) \/ LockWrlock(t) \/ LockRwlockUnlock(t)
  \/ \E k \in Kind : LockTouch(t, k)

\* Clocks that creation and join move, and that no other step sets back.
ClockMove(t, C, D) ==
  \/ \E c \in Thread : LockCreate(t, c) /\ D = Started(C, c, t)
  \/ \E c \in Thread : LockJoin(t, c) /\ D = Joined(C, t, c)
  \/ LockCalls(t) /\ \A v \in Thread : HappensBefore(C[v], D[v])

LEMMA SameClocks ==
  ASSUME NEW C \in [Thread -> Clock]
  PROVE  \A v \in Thread : HappensBefore(C[v], C[v])
  BY ClockOrder

\* One thread enters its next epoch.
LEMMA RaiseProp ==
  ASSUME NEW C \in [Thread -> Clock], NEW t \in Thread
  PROVE  LET D == [C EXCEPT ![t] = Increment(@, t)] IN
         D \in [Thread -> Clock] /\ \A v \in Thread : HappensBefore(C[v], D[v])
  <1> DEFINE N == Increment(C[t], t)
  <1>1. N \in Clock /\ HappensBefore(C[t], N) BY ClockOrder
  <1>2. \A v \in Thread : HappensBefore(C[v], C[v]) BY SameClocks
  <1> HIDE DEF N
  <1>3. /\ [C EXCEPT ![t] = N] \in [Thread -> Clock]
        /\ \A v \in Thread : HappensBefore(C[v], [C EXCEPT ![t] = N][v])
    BY <1>1, <1>2
  <1> QED BY <1>3 DEF N

\* The core's clocks.
LEMMA VcStep ==
  ASSUME NEW t \in Thread, TypeOK, LockStep(t)
  PROVE  ClockMove(t, vc, vc')
  <1>1. CASE \E c \in Thread : LockCreate(t, c) \/ LockJoin(t, c)
    BY <1>1 DEF ClockMove, LockCreate, LockJoin
  <1>2. CASE LockCalls(t)
    <2>1. vc' = vc
      BY <1>2 DEF LockCalls, LockExit, LockMutexLock, LockMutexUnlock, LockRdlock, LockWrlock,
         LockRwlockUnlock, LockTouch, Touch
    <2>2. vc \in [Thread -> Clock] BY DEF TypeOK
    <2> QED BY <1>2, <2>1, <2>2, SameClocks DEF ClockMove
  <1> QED BY <1>1, <1>2 DEF LockStep, LockCalls

\* What a thread holds are locks.
LEMMA HeldType ==
  ASSUME NEW t \in Thread
  PROVE  HeldWrite(t) \in SUBSET Lock /\ HeldRead(t) \in SUBSET Lock
  BY DEF HeldWrite, HeldRead, Lock

\* So do the accesses, and AccuLock's clocks, which move as the core's do and
\* by the epochs of releases.
LEMMA AccuStep ==
  ASSUME NEW t \in Thread, TypeOK, AccessTypes, LockStep(t)
  PROVE  /\ AccessTypes'
         /\ ClockMove(t, accuVc, accuVc')
  <1>1. ASSUME NEW c \in Thread, LockCreate(t, c)
        PROVE  AccessTypes' /\ accuVc' = Started(accuVc, c, t)
    <2>1. c # t BY <1>1, OtherThread
    <2>2. accuVc' \in [Thread -> Clock] BY <1>1, <2>1, StartedProp DEF LockCreate, AccessTypes
    <2> QED BY <1>1, <2>2 DEF LockCreate, AccessTypes
  <1>2. ASSUME NEW c \in Thread, LockJoin(t, c)
        PROVE  AccessTypes' /\ accuVc' = Joined(accuVc, t, c)
    <2>1. c # t BY <1>2, OtherThread
    <2>2. accuVc' \in [Thread -> Clock] BY <1>2, <2>1, JoinedProp DEF LockJoin, AccessTypes
    <2> QED BY <1>2, <2>2 DEF LockJoin, AccessTypes
  <1>3. ASSUME AccuUnlock(t), UNCHANGED <<vc, seen>>
        PROVE  AccessTypes' /\ \A v \in Thread : HappensBefore(accuVc[v], accuVc'[v])
    <2>1. accuVc \in [Thread -> Clock] BY DEF AccessTypes
    <2>2. accuVc' = [accuVc EXCEPT ![t] = Increment(@, t)] BY <1>3 DEF AccuUnlock
    <2> QED BY <1>3, <2>1, <2>2, RaiseProp DEF AccessTypes
  <1>4. ASSUME NEW k \in Kind, LockTouch(t, k)
        PROVE  AccessTypes' /\ UNCHANGED accuVc
    <2>1. Making(t, k) \in Access
      <3>1. epochs[t] \in Seq(Nat) /\ vc[t][t] \in Nat BY DEF TypeOK, Clock
      <3>2. Len(epochs[t]) + 1 \in Nat BY <3>1
      <3> QED BY <3>1, <3>2, HeldType DEF Making, Access
    <2> QED BY <1>4, <2>1 DEF LockTouch, Touch, AccessTypes
  <1>5. CASE LockExit(t) \/ LockRdlock(t) \/ LockWrlock(t) \/ \E m \in Mutex : LockMutexLock(t, m)
    <2>1. UNCHANGED <<accuVc, seen>>
      BY <1>5 DEF LockExit, LockRdlock, LockWrlock, LockMutexLock, programVars
    <2> QED BY <1>5, <2>1, SameClocks DEF ClockMove, LockCalls, AccessTypes
  <1>6. CASE LockRwlockUnlock(t) \/ \E m \in Mutex : LockMutexUnlock(t, m)
    <2>1. AccuUnlock(t) /\ UNCHANGED <<vc, seen>>
      BY <1>6 DEF LockRwlockUnlock, LockMutexUnlock, HeldDrop, HeldDropRw
    <2> QED BY <1>3, <1>6, <2>1 DEF ClockMove, LockCalls
  <1>7. CASE \E k \in Kind : LockTouch(t, k)
    BY <1>4, <1>7, SameClocks DEF ClockMove, LockCalls, AccessTypes
  <1>8. CASE \E c \in Thread : LockCreate(t, c) \/ LockJoin(t, c)
    BY <1>1, <1>2, <1>8 DEF ClockMove
  <1> QED BY <1>5, <1>6, <1>7, <1>8 DEF LockStep

-----------------------------------------------------------------------------
(* The tables. *)

\* One more lock, one lock less.
LEMMA HeldMoves ==
  ASSUME NEW t \in Thread, TypeOK, RefInv
  PROVE  /\ \A m \in Mutex : LockMutexLock(t, m) =>
              /\ m \notin HeldWrite(t) /\ HeldWrite(t)' = HeldWrite(t) \cup {m}
              /\ HeldRead(t)' = HeldRead(t)
              /\ \A u \in Thread \ {t} : HeldWrite(u)' = HeldWrite(u) /\ HeldRead(u)' = HeldRead(u)
         /\ \A m \in Mutex : LockMutexUnlock(t, m) =>
              /\ m \in HeldWrite(t) /\ HeldWrite(t)' = HeldWrite(t) \ {m}
              /\ HeldRead(t)' = HeldRead(t)
              /\ \A u \in Thread \ {t} : HeldWrite(u)' = HeldWrite(u) /\ HeldRead(u)' = HeldRead(u)
         /\ LockRdlock(t) =>
              /\ Rw \notin Held(t) /\ HeldRead(t) = {} /\ HeldRead(t)' = {Rw}
              /\ HeldWrite(t)' = HeldWrite(t)
              /\ \A u \in Thread \ {t} : HeldWrite(u)' = HeldWrite(u) /\ HeldRead(u)' = HeldRead(u)
         /\ LockWrlock(t) =>
              /\ Rw \notin Held(t) /\ HeldWrite(t)' = HeldWrite(t) \cup {Rw}
              /\ HeldRead(t)' = HeldRead(t)
              /\ \A u \in Thread \ {t} : HeldWrite(u)' = HeldWrite(u) /\ HeldRead(u)' = HeldRead(u)
         /\ LockRwlockUnlock(t) =>
              /\ Rw \in Held(t) /\ HeldWrite(t)' = HeldWrite(t) \ {Rw} /\ HeldRead(t)' = {}
              /\ \A u \in Thread \ {t} : HeldWrite(u)' = HeldWrite(u) /\ HeldRead(u)' = HeldRead(u)
  <1> USE NullAssumption, RwAssumption DEF HeldWrite, HeldRead, Held, TypeOK
  <1>1. ASSUME NEW m \in Mutex, LockMutexLock(t, m)
        PROVE  /\ m \notin HeldWrite(t) /\ HeldWrite(t)' = HeldWrite(t) \cup {m}
               /\ HeldRead(t)' = HeldRead(t)
               /\ \A u \in Thread \ {t} : HeldWrite(u)' = HeldWrite(u) /\ HeldRead(u)' = HeldRead(u)
    BY <1>1 DEF LockMutexLock, rwVars
  <1>2. ASSUME NEW m \in Mutex, LockMutexUnlock(t, m)
        PROVE  /\ m \in HeldWrite(t) /\ HeldWrite(t)' = HeldWrite(t) \ {m}
               /\ HeldRead(t)' = HeldRead(t)
               /\ \A u \in Thread \ {t} : HeldWrite(u)' = HeldWrite(u) /\ HeldRead(u)' = HeldRead(u)
    BY <1>2 DEF LockMutexUnlock, rwVars
  <1>3. ASSUME LockRdlock(t)
        PROVE  /\ Rw \notin HeldWrite(t) \cup HeldRead(t)
               /\ HeldRead(t) = {} /\ HeldRead(t)' = {Rw} /\ HeldWrite(t)' = HeldWrite(t)
               /\ \A u \in Thread \ {t} : HeldWrite(u)' = HeldWrite(u) /\ HeldRead(u)' = HeldRead(u)
    <2>1. /\ writer = NoThread /\ t \notin readers /\ readers' = readers \cup {t}
          /\ writer' = writer /\ holder' = holder
      BY <1>3 DEF LockRdlock, lockVars
    <2>2. \A u \in Thread : HeldWrite(u)' = HeldWrite(u) BY <2>1
    <2>3. Rw \notin HeldWrite(t) BY <2>1
    <2>4. HeldRead(t) = {} /\ HeldRead(t)' = {Rw} BY <2>1
    <2>5. \A u \in Thread \ {t} : HeldRead(u)' = HeldRead(u) BY <2>1
    <2> QED BY <2>2, <2>3, <2>4, <2>5
  <1>4. ASSUME LockWrlock(t)
        PROVE  /\ Rw \notin HeldWrite(t) \cup HeldRead(t)
               /\ HeldWrite(t)' = HeldWrite(t) \cup {Rw} /\ HeldRead(t)' = HeldRead(t)
               /\ \A u \in Thread \ {t} : HeldWrite(u)' = HeldWrite(u) /\ HeldRead(u)' = HeldRead(u)
    <2>1. /\ writer = NoThread /\ readers = {} /\ readers' = readers
          /\ writer' = t /\ holder' = holder
      BY <1>4 DEF LockWrlock, lockVars
    <2>2. \A u \in Thread : HeldRead(u)' = HeldRead(u) BY <2>1
    <2>3. Rw \notin HeldWrite(t) /\ Rw \notin HeldRead(t) BY <2>1
    <2>4. HeldWrite(t)' = HeldWrite(t) \cup {Rw} BY <2>1
    <2>5. \A u \in Thread \ {t} : HeldWrite(u)' = HeldWrite(u) BY <2>1
    <2> QED BY <2>2, <2>3, <2>4, <2>5
  <1>5. ASSUME LockRwlockUnlock(t)
        PROVE  /\ Rw \in HeldWrite(t) \cup HeldRead(t)
               /\ HeldWrite(t)' = HeldWrite(t) \ {Rw} /\ HeldRead(t)' = {}
               /\ \A u \in Thread \ {t} : HeldWrite(u)' = HeldWrite(u) /\ HeldRead(u)' = HeldRead(u)
    <2>1. /\ (writer = t \/ t \in readers) /\ readers' = readers \ {t}
          /\ writer' = (IF writer = t THEN NoThread ELSE writer) /\ holder' = holder
      BY <1>5 DEF LockRwlockUnlock, lockVars
    <2>2. HeldRead(t)' = {} BY <2>1
    <2>3. Rw \in HeldWrite(t) \cup HeldRead(t) BY <2>1
    <2>4. HeldWrite(t)' = HeldWrite(t) \ {Rw} BY <2>1
    <2>5. \A u \in Thread \ {t} : HeldWrite(u)' = HeldWrite(u) BY <2>1
    <2>6. \A u \in Thread \ {t} : HeldRead(u)' = HeldRead(u) BY <2>1
    <2> QED BY <2>2, <2>3, <2>4, <2>5, <2>6
  <1> QED BY <1>1, <1>2, <1>3, <1>4, <1>5 DEF Held

\* lock_reference_map_ counts the holders.
LEMMA RefStep ==
  ASSUME NEW t \in Thread, TypeOK, lockRef \in Nat, RefInv, LockStep(t)
  PROVE  RefInv' /\ lockRef' \in Nat
  <1>0. IsFiniteSet(readers) BY FiniteAssumption, FS_Subset DEF TypeOK
  <1>1. CASE LockRdlock(t)
    <2>1. Cardinality(readers \cup {t}) = Cardinality(readers) + 1
      BY <1>0, <1>1, FS_AddElement DEF LockRdlock
    <2> QED BY <1>1, <2>1 DEF LockRdlock, SetsTakeRead, RefInv
  <1>2. CASE LockWrlock(t)
    BY <1>2, NullAssumption DEF LockWrlock, RefInv
  <1>3. CASE LockRwlockUnlock(t)
    <2>1. /\ lockRef' = lockRef - 1 /\ readers' = readers \ {t}
          /\ writer' = (IF writer = t THEN NoThread ELSE writer)
      BY <1>3 DEF LockRwlockUnlock, RwUnlockReference
    <2>2. CASE writer = t
      <3>1. readers = {} /\ lockRef = 1 BY <2>2, NullAssumption DEF RefInv
      <3>2. readers' = {} /\ lockRef' = 0 /\ writer' = NoThread BY <2>1, <2>2, <3>1
      <3> QED BY <3>2, FS_EmptySet DEF RefInv
    <2>3. CASE writer # t
      <3>1. t \in readers BY <1>3, <2>3 DEF LockRwlockUnlock
      <3>2. writer = NoThread /\ lockRef = Cardinality(readers) BY <3>1 DEF RefInv
      <3>3. Cardinality(readers \ {t}) = Cardinality(readers) - 1 BY <1>0, <3>1, FS_RemoveElement
      <3>4. IsFiniteSet(readers \ {t}) BY <1>0, FS_RemoveElement
      <3>5. Cardinality(readers \ {t}) \in Nat BY <3>4, FS_CardinalityType
      <3> QED BY <2>1, <2>3, <3>2, <3>3, <3>5 DEF RefInv
    <2> QED BY <2>2, <2>3
  <1>4. CASE UNCHANGED <<writer, readers, lockRef>>
    BY <1>4 DEF RefInv
  <1>5. CASE \E m \in Mutex : LockMutexLock(t, m) \/ LockMutexUnlock(t, m)
    BY <1>4, <1>5 DEF LockMutexLock, LockMutexUnlock, rwVars
  <1>6. CASE \E c \in Thread : LockCreate(t, c) \/ LockJoin(t, c)
    BY <1>4, <1>6 DEF LockCreate, LockJoin, rwVars, tableVars
  <1>7. CASE LockExit(t) \/ \E k \in Kind : LockTouch(t, k)
    BY <1>4, <1>7 DEF LockExit, LockTouch, Touch, rwVars, tableVars, programVars
  <1> QED BY <1>1, <1>2, <1>3, <1>5, <1>6, <1>7 DEF LockStep

\* Entries that do not move still say what is held.
LEMMA TablesKept ==
  ASSUME NEW u \in Thread, Tables(u),
         ls'[u] = ls[u], rdls'[u] = rdls[u], wls'[u] = wls[u], rls'[u] = rls[u], lc'[u] = lc[u],
         u \in locked => u \in locked',
         HeldWrite(u)' = HeldWrite(u), HeldRead(u)' = HeldRead(u)
  PROVE  Tables(u)'
  BY DEF Tables, Held

\* Entries of an updated table.
LEMMA AddRemove ==
  ASSUME NEW table \in [Thread -> SUBSET Lock], NEW t \in Thread, NEW l \in Lock
  PROVE  /\ Add(table, t, l) \in [Thread -> SUBSET Lock]
         /\ Add(table, t, l)[t] = table[t] \cup {l}
         /\ Remove(table, t, l) \in [Thread -> SUBSET Lock]
         /\ Remove(table, t, l)[t] = table[t] \ {l}
         /\ \A u \in Thread \ {t} : Add(table, t, l)[u] = table[u] /\ Remove(table, t, l)[u] = table[u]
  BY DEF Add, Remove

\* A mutex, or the rwlock for writing, is taken.
LEMMA TakeStep ==
  ASSUME NEW t \in Thread, NEW l \in Lock, TableTypes, \A u \in Thread : Tables(u),
         SetsTake(t, l), HeldTake(t, l), CountUp(t), UNCHANGED rdls,
         l \notin Held(t), HeldWrite(t)' = HeldWrite(t) \cup {l}, HeldRead(t)' = HeldRead(t),
         \A u \in Thread \ {t} : HeldWrite(u)' = HeldWrite(u) /\ HeldRead(u)' = HeldRead(u)
  PROVE  /\ wls' \in [Thread -> SUBSET Lock] /\ rls' \in [Thread -> SUBSET Lock]
         /\ ls' \in [Thread -> SUBSET Lock] /\ rdls' \in [Thread -> SUBSET Lock]
         /\ locked' \subseteq Thread /\ lc' \in [Thread -> Nat]
         /\ \A u \in Thread : Tables(u)'
  <1>1. /\ wls' = Add(wls, t, l) /\ rls' = Add(rls, t, l) /\ ls' = Add(ls, t, l)
        /\ locked' = locked \cup {t} /\ lc' = [lc EXCEPT ![t] = @ + 1] /\ rdls' = rdls
    BY DEF SetsTake, HeldTake, CountUp
  <1>2. ASSUME NEW u \in Thread \ {t} PROVE Tables(u)'
    <2>1. ls'[u] = ls[u] /\ wls'[u] = wls[u] /\ rls'[u] = rls[u] BY <1>1 DEF TableTypes, Add
    <2>2. rdls'[u] = rdls[u] /\ lc'[u] = lc[u] /\ (u \in locked => u \in locked') BY <1>1 DEF TableTypes
    <2> QED BY <2>1, <2>2, TablesKept
  <1>3. Tables(t)'
    <2>1. /\ ls'[t] = ls[t] \cup {l} /\ wls'[t] = wls[t] \cup {l} /\ rls'[t] = rls[t] \cup {l}
          /\ rdls'[t] = rdls[t] /\ lc'[t] = lc[t] + 1 /\ t \in locked'
      BY <1>1, AddRemove DEF TableTypes
    <2>2. Held(t)' = Held(t) \cup {l} BY DEF Held
    <2>3. IsFiniteSet(HeldWrite(t)) /\ IsFiniteSet(HeldRead(t))
      BY FS_EmptySet, FS_Singleton DEF Tables, HeldRead
    <2>4. IsFiniteSet(HeldWrite(t)') BY <2>3, FS_AddElement
    <2>5. IsFiniteSet(Held(t)) BY <2>3, FS_Union DEF Held
    <2>6. Cardinality(Held(t) \cup {l}) = Cardinality(Held(t)) + 1 BY <2>5, FS_AddElement
    <2>7. Tables(t) OBVIOUS
    <2> QED BY <2>1, <2>2, <2>4, <2>6, <2>7 DEF Tables
  <1>4. lc' \in [Thread -> Nat] BY <1>1 DEF TableTypes
  <1> QED BY <1>1, <1>2, <1>3, <1>4, AddRemove DEF TableTypes

\* The rwlock is taken for reading.
LEMMA TakeReadStep ==
  ASSUME NEW t \in Thread, TypeOK, RefInv, TableTypes, \A u \in Thread : Tables(u), LockRdlock(t)
  PROVE  /\ wls' \in [Thread -> SUBSET Lock] /\ rls' \in [Thread -> SUBSET Lock]
         /\ ls' \in [Thread -> SUBSET Lock] /\ rdls' \in [Thread -> SUBSET Lock]
         /\ locked' \subseteq Thread /\ lc' \in [Thread -> Nat]
         /\ \A u \in Thread : Tables(u)'
  <1>0. Rw \in Lock BY DEF Lock
  <1>1. /\ rls' = Add(rls, t, Rw) /\ rdls' = Add(rdls, t, Rw)
        /\ lc' = [lc EXCEPT ![t] = @ + 1] /\ wls' = wls /\ ls' = ls /\ locked' = locked
    BY DEF LockRdlock, SetsTakeRead, CountUp
  <1>2. /\ Rw \notin Held(t) /\ HeldRead(t) = {} /\ HeldRead(t)' = {Rw} /\ HeldWrite(t)' = HeldWrite(t)
        /\ \A u \in Thread \ {t} : HeldWrite(u)' = HeldWrite(u) /\ HeldRead(u)' = HeldRead(u)
    BY HeldMoves
  <1>3. ASSUME NEW u \in Thread \ {t} PROVE Tables(u)'
    BY <1>0, <1>1, <1>2, <1>3, AddRemove, TablesKept DEF TableTypes
  <1>4. Tables(t)'
    <2>1. /\ ls'[t] = ls[t] /\ wls'[t] = wls[t] /\ rls'[t] = rls[t] \cup {Rw}
          /\ rdls'[t] = rdls[t] \cup {Rw} /\ lc'[t] = lc[t] + 1 /\ (t \in locked <=> t \in locked')
      BY <1>0, <1>1, AddRemove DEF TableTypes
    <2>2. Held(t)' = Held(t) \cup {Rw} BY <1>2 DEF Held
    <2>3. IsFiniteSet(HeldWrite(t)) /\ Held(t) = HeldWrite(t) BY <1>2 DEF Tables, Held
    <2>6. Cardinality(Held(t) \cup {Rw}) = Cardinality(Held(t)) + 1 BY <1>2, <2>3, FS_AddElement
    <2>7. Tables(t) OBVIOUS
    <2> QED BY <1>2, <2>1, <2>2, <2>3, <2>6, <2>7 DEF Tables
  <1>5. lc' \in [Thread -> Nat] BY <1>1 DEF TableTypes
  <1> QED BY <1>0, <1>1, <1>3, <1>4, <1>5, AddRemove DEF TableTypes

\* A lock is given up; the rwlock may stay among the locks for reading.
LEMMA DropStep ==
  ASSUME NEW t \in Thread, NEW l \in Lock, TableTypes, \A u \in Thread : Tables(u),
         ls' = Remove(ls, t, l), wls'[t] = wls[t] \ {l},
         wls' \in [Thread -> SUBSET Lock], rls' \in [Thread -> SUBSET Lock],
         rdls' \in [Thread -> SUBSET Lock],
         rls'[t] = rls[t] \ {l} \/ (rls'[t] = rls[t] /\ l = Rw),
         rdls'[t] = rdls[t] \ {l}, CountDown(t), UNCHANGED locked,
         \A u \in Thread \ {t} : wls'[u] = wls[u] /\ rls'[u] = rls[u] /\ rdls'[u] = rdls[u],
         l \in Held(t), HeldWrite(t)' = HeldWrite(t) \ {l}, HeldRead(t)' = HeldRead(t) \ {l},
         \A u \in Thread \ {t} : HeldWrite(u)' = HeldWrite(u) /\ HeldRead(u)' = HeldRead(u)
  PROVE  /\ ls' \in [Thread -> SUBSET Lock] /\ lc' \in [Thread -> Nat]
         /\ \A u \in Thread : Tables(u)'
  <1>0. /\ ls' \in [Thread -> SUBSET Lock] /\ ls'[t] = ls[t] \ {l}
        /\ \A u \in Thread \ {t} : ls'[u] = ls[u]
    <2>1. ls \in [Thread -> SUBSET Lock] BY DEF TableTypes
    <2>2. ls' = [ls EXCEPT ![t] = @ \ {l}] BY DEF Remove
    <2> QED BY ONLY <2>1, <2>2, t \in Thread
  <1>1. lc' = [lc EXCEPT ![t] = @ - 1] BY DEF CountDown
  <1>2. ASSUME NEW u \in Thread \ {t} PROVE Tables(u)'
    <2>1. ls'[u] = ls[u] /\ lc'[u] = lc[u] BY <1>0, <1>1, <1>2 DEF TableTypes
    <2> QED BY <1>2, <2>1, TablesKept
  <1>3. /\ IsFiniteSet(HeldWrite(t)) /\ IsFiniteSet(HeldRead(t))
    BY FS_EmptySet, FS_Singleton DEF Tables, HeldRead
  <1>4. IsFiniteSet(HeldWrite(t)') /\ IsFiniteSet(HeldRead(t)') BY <1>3, FS_RemoveElement
  <1>5. IsFiniteSet(Held(t)) /\ IsFiniteSet(Held(t)') BY <1>3, <1>4, FS_Union DEF Held
  <1>6. Held(t)' = Held(t) \ {l} BY DEF Held
  <1>7. Cardinality(Held(t) \ {l}) = Cardinality(Held(t)) - 1 BY <1>5, FS_RemoveElement
  <1>8. Cardinality(Held(t)') \in Nat BY <1>5, FS_CardinalityType
  <1>9. Tables(t) OBVIOUS
  <1>10. lc'[t] = Cardinality(Held(t)') BY <1>1, <1>6, <1>7, <1>9 DEF TableTypes, Tables
  <1>11. Tables(t)'
    <2> QED BY <1>0, <1>4, <1>6, <1>9, <1>10 DEF Tables
  <1>12. lc' \in [Thread -> Nat] BY <1>1, <1>8, <1>10 DEF TableTypes
  <1> QED BY <1>0, <1>2, <1>11, <1>12

\* The tables follow what the threads hold.
LEMMA TablesStep ==
  ASSUME NEW t \in Thread, TypeOK, TablesInv, LockStep(t)
  PROVE  TablesInv'
  <1>0. RefInv' /\ lockRef' \in Nat BY RefStep DEF TablesInv, TableTypes
  <1>a. TableTypes /\ RefInv /\ \A u \in Thread : Tables(u) BY DEF TablesInv
  <1>b. Rw \in Lock /\ Mutex \subseteq Lock BY DEF Lock
  <1> DEFINE Goal == /\ wls' \in [Thread -> SUBSET Lock] /\ rls' \in [Thread -> SUBSET Lock]
                     /\ ls' \in [Thread -> SUBSET Lock] /\ rdls' \in [Thread -> SUBSET Lock]
                     /\ locked' \subseteq Thread /\ lc' \in [Thread -> Nat]
                     /\ \A u \in Thread : Tables(u)'
  <1>1. SUFFICES Goal BY <1>0 DEF TablesInv, TableTypes
  <1>2. ASSUME NEW m \in Mutex, LockMutexLock(t, m) PROVE Goal
    <2>1. m \notin HeldRead(t) BY RwAssumption DEF HeldRead
    <2>2. /\ m \notin Held(t) /\ HeldWrite(t)' = HeldWrite(t) \cup {m} /\ HeldRead(t)' = HeldRead(t)
          /\ \A u \in Thread \ {t} : HeldWrite(u)' = HeldWrite(u) /\ HeldRead(u)' = HeldRead(u)
      BY <1>2, <1>a, <2>1, HeldMoves DEF Held
    <2> QED BY <1>2, <1>a, <1>b, <2>2, TakeStep DEF LockMutexLock
  <1>3. CASE LockWrlock(t)
    <2>2. /\ Rw \notin Held(t) /\ HeldWrite(t)' = HeldWrite(t) \cup {Rw} /\ HeldRead(t)' = HeldRead(t)
          /\ \A u \in Thread \ {t} : HeldWrite(u)' = HeldWrite(u) /\ HeldRead(u)' = HeldRead(u)
      BY <1>3, <1>a, HeldMoves
    <2> QED BY <1>3, <1>a, <1>b, <2>2, TakeStep DEF LockWrlock
  <1>4. CASE LockRdlock(t)
    BY <1>4, <1>a, TakeReadStep
  <1>5. ASSUME NEW m \in Mutex, LockMutexUnlock(t, m) PROVE Goal
    <2>1. m \notin HeldRead(t) /\ m \in Lock /\ m # Rw BY <1>b, RwAssumption DEF HeldRead
    <2>2. /\ m \in Held(t) /\ HeldWrite(t)' = HeldWrite(t) \ {m} /\ HeldRead(t)' = HeldRead(t) \ {m}
          /\ \A u \in Thread \ {t} : HeldWrite(u)' = HeldWrite(u) /\ HeldRead(u)' = HeldRead(u)
      BY <1>5, <1>a, <2>1, HeldMoves DEF Held
    <2>3. /\ wls' = Remove(wls, t, m) /\ rls' = Remove(rls, t, m) /\ ls' = Remove(ls, t, m)
          /\ rdls' = rdls /\ locked' = locked /\ CountDown(t)
      BY <1>5 DEF LockMutexUnlock, SetsDrop, HeldDrop
    <2>4. rdls[t] = HeldRead(t) BY <1>a DEF Tables
    <2>5. /\ wls' \in [Thread -> SUBSET Lock] /\ wls'[t] = wls[t] \ {m}
          /\ rls' \in [Thread -> SUBSET Lock] /\ rls'[t] = rls[t] \ {m}
          /\ rdls' \in [Thread -> SUBSET Lock] /\ rdls'[t] = rdls[t] \ {m}
          /\ \A u \in Thread \ {t} : wls'[u] = wls[u] /\ rls'[u] = rls[u] /\ rdls'[u] = rdls[u]
      BY <1>a, <2>1, <2>3, <2>4, AddRemove DEF TableTypes
    <2>6. ls' \in [Thread -> SUBSET Lock] /\ lc' \in [Thread -> Nat] /\ \A u \in Thread : Tables(u)'
      BY <1>a, <2>1, <2>2, <2>3, <2>5, DropStep
    <2> QED BY <1>a, <2>3, <2>5, <2>6 DEF TableTypes
  <1>6. CASE LockRwlockUnlock(t)
    <2>1. /\ Rw \in Held(t) /\ HeldWrite(t)' = HeldWrite(t) \ {Rw} /\ HeldRead(t)' = {}
          /\ \A u \in Thread \ {t} : HeldWrite(u)' = HeldWrite(u) /\ HeldRead(u)' = HeldRead(u)
      BY <1>6, <1>a, HeldMoves
    <2>2. HeldRead(t)' = HeldRead(t) \ {Rw} BY <2>1 DEF HeldRead
    <2>3. /\ ls' = Remove(ls, t, Rw) /\ rdls' = Remove(rdls, t, Rw) /\ CountDown(t) /\ locked' = locked
          /\ \/ wls' = Remove(wls, t, Rw) /\ rls' = Remove(rls, t, Rw)
             \/ wls' = wls /\ rls' = rls /\ lockRef # 1
      BY <1>6 DEF LockRwlockUnlock, HeldDropRw, RwUnlockReference, SetsDrop
    <2>4. lockRef # 1 => Rw \notin wls[t]
      <3>1. lockRef # 1 => writer # t BY <1>a, NullAssumption DEF RefInv
      <3>2. wls[t] = HeldWrite(t) BY <1>a DEF Tables
      <3> QED BY <3>1, <3>2, RwAssumption DEF HeldWrite
    <2>5. /\ wls' \in [Thread -> SUBSET Lock] /\ wls'[t] = wls[t] \ {Rw}
          /\ rls' \in [Thread -> SUBSET Lock] /\ (rls'[t] = rls[t] \ {Rw} \/ rls'[t] = rls[t])
          /\ rdls' \in [Thread -> SUBSET Lock] /\ rdls'[t] = rdls[t] \ {Rw}
          /\ \A u \in Thread \ {t} : wls'[u] = wls[u] /\ rls'[u] = rls[u] /\ rdls'[u] = rdls[u]
      BY <1>a, <1>b, <2>3, <2>4, AddRemove DEF TableTypes
    <2>6. ls' \in [Thread -> SUBSET Lock] /\ lc' \in [Thread -> Nat] /\ \A u \in Thread : Tables(u)'
      BY <1>a, <1>b, <2>1, <2>2, <2>3, <2>5, DropStep
    <2> QED BY <1>a, <2>3, <2>5, <2>6 DEF TableTypes
  <1>7. ASSUME UNCHANGED <<wls, rls, ls, rdls, locked, lc, holder, writer, readers>> PROVE Goal
    <2>1. \A u \in Thread : HeldWrite(u)' = HeldWrite(u) /\ HeldRead(u)' = HeldRead(u)
      BY <1>7 DEF HeldWrite, HeldRead
    <2>2. \A u \in Thread : Tables(u)' BY <1>7, <1>a, <2>1, TablesKept
    <2> QED BY <1>7, <1>a, <2>2 DEF TableTypes
  <1>8. CASE \E c \in Thread : LockCreate(t, c) \/ LockJoin(t, c)
    BY <1>7, <1>8 DEF LockCreate, LockJoin, lockVars, rwVars, tableVars
  <1>9. CASE LockExit(t) \/ \E k \in Kind : LockTouch(t, k)
    BY <1>7, <1>9 DEF LockExit, LockTouch, Touch, lockVars, rwVars, tableVars, programVars
  <1> QED BY <1>2, <1>3, <1>4, <1>5, <1>6, <1>8, <1>9 DEF LockStep
-----------------------------------------------------------------------------
(* What creation and join order, and what the clocks say of it. *)

\* Only accesses that were made happen before anything.
LEMMA HbStep ==
  ASSUME NEW t \in Thread, TypeOK, HbInv, LockStep(t)
  PROVE  HbInv'
  <1>0. /\ \A u \in Thread : epochs[u] \in Seq(Nat) /\ Len(epochs[u]) \in Nat /\ hb[u] \in Clock
        /\ \A u, w \in Thread : hb[u][w] \in Nat
    <2>1. \A u \in Thread : epochs[u] \in Seq(Nat) /\ hb[u] \in Clock BY DEF TypeOK
    <2>2. \A u, w \in Thread : hb[u][w] \in Nat BY <2>1 DEF Clock
    <2> QED BY <2>1, <2>2
  <1>a. /\ \A u, w \in Thread : hb[u][w] <= Len(epochs[w])
        /\ \A u \in Thread : hb[u][u] = Len(epochs[u])
        /\ \A u \in Thread : pc[u] = "unborn" => hb[u] = Zero
    BY DEF HbInv, MadeIn
  <1> DEFINE Goal == /\ \A u, w \in Thread : hb'[u][w] <= Len(epochs'[w])
                     /\ \A u \in Thread : hb'[u][u] = Len(epochs'[u])
                     /\ \A u \in Thread : pc'[u] = "unborn" => hb'[u] = Zero
  <1>1. ASSUME NEW c \in Thread, LockCreate(t, c) PROVE Goal /\ UNCHANGED epochs
    <2>1. /\ pc[c] = "unborn" /\ c # t /\ pc' = [pc EXCEPT ![c] = "run"]
          /\ hb' = [hb EXCEPT ![c] = Join(hb[c], hb[t])] /\ epochs' = epochs
      BY <1>1, OtherThread DEF LockCreate, Move, Goto, Learn
    <2>2. hb[c] = Zero BY <1>a, <2>1
    <2>3. \A w \in Thread : Join(hb[c], hb[t])[w] = hb[c][w] \/ Join(hb[c], hb[t])[w] = hb[t][w]
      BY <1>0, JoinProp
    <2>4. Join(hb[c], hb[t])[c] = hb[c][c]
      <3>1. Len(epochs[c]) = 0 BY <1>a, <2>2, ZeroProp
      <3>2. hb[t][c] = 0 BY <1>0, <1>a, <3>1
      <3> QED BY <2>2, <2>3, <3>2, ZeroProp
    <2>5. pc \in [Thread -> PC] /\ hb \in [Thread -> Clock] BY DEF TypeOK
    <2>6. /\ hb'[c] = Join(hb[c], hb[t]) /\ pc'[c] = "run"
          /\ \A u \in Thread \ {c} : hb'[u] = hb[u] /\ pc'[u] = pc[u]
      BY <2>1, <2>5
    <2> HIDE DEF Goal
    <2>7. \A u, w \in Thread : hb'[u][w] <= Len(epochs'[w]) BY <1>a, <2>1, <2>3, <2>6
    <2>8. \A u \in Thread : hb'[u][u] = Len(epochs'[u]) BY <1>a, <2>1, <2>4, <2>6
    <2>9. \A u \in Thread : pc'[u] = "unborn" => hb'[u] = Zero BY <1>a, <2>6
    <2> QED BY <2>1, <2>7, <2>8, <2>9 DEF Goal
  <1>2. ASSUME NEW c \in Thread, LockJoin(t, c) PROVE Goal /\ UNCHANGED epochs
    <2>1. /\ pc[c] = "exited" /\ pc[t] = "run" /\ c # t /\ pc' = [pc EXCEPT ![c] = "reaped"]
          /\ hb' = [hb EXCEPT ![t] = Join(hb[t], hb[c])] /\ epochs' = epochs
      BY <1>2, OtherThread DEF LockJoin, Move, Goto, Learn
    <2>3. \A w \in Thread : /\ Join(hb[t], hb[c])[w] = hb[c][w] \/ Join(hb[t], hb[c])[w] = hb[t][w]
                            /\ hb[t][w] <= Join(hb[t], hb[c])[w] /\ Join(hb[t], hb[c])[w] \in Nat
      <3>1. Join(hb[t], hb[c]) \in Clock BY <1>0, JoinProp
      <3> QED BY <3>1, <1>0, JoinProp DEF Clock
    <2>5. pc \in [Thread -> PC] /\ hb \in [Thread -> Clock] BY DEF TypeOK
    <2>6. /\ hb'[t] = Join(hb[t], hb[c]) /\ pc'[t] = "run" /\ pc'[c] = "reaped"
          /\ \A u \in Thread \ {t} : hb'[u] = hb[u]
          /\ \A u \in Thread \ {c} : pc'[u] = pc[u]
      BY <2>1, <2>5
    <2> HIDE DEF Goal
    <2>7. \A u, w \in Thread : hb'[u][w] <= Len(epochs'[w]) BY <1>a, <2>1, <2>3, <2>6
    <2>8. hb'[t][t] = Len(epochs[t])
      <3>1. hb[c][t] <= Len(epochs[t]) /\ hb[t][t] = Len(epochs[t]) BY <1>a
      <3> QED BY <1>0, <2>3, <2>6, <3>1
    <2>9. \A u \in Thread : hb'[u][u] = Len(epochs'[u]) BY <1>a, <2>1, <2>8, <2>6
    <2>10. \A u \in Thread : pc'[u] = "unborn" => hb'[u] = Zero BY <1>a, <2>6
    <2> QED BY <2>1, <2>7, <2>9, <2>10 DEF Goal
  <1>3. ASSUME NEW k \in Kind, LockTouch(t, k)
        PROVE  Goal /\ \A w \in Thread : Len(epochs[w]) <= Len(epochs'[w])
    <2>1. /\ epochs' = [epochs EXCEPT ![t] = Append(@, vc[t][t])]
          /\ hb' = [hb EXCEPT ![t] = [hb[t] EXCEPT ![t] = @ + 1]] /\ pc' = pc /\ pc[t] = "run"
      BY <1>3 DEF LockTouch, Touch
    <2>2. epochs \in [Thread -> Seq(Nat)] /\ vc[t][t] \in Nat BY DEF TypeOK, Clock
    <2>3. /\ Len(epochs'[t]) = Len(epochs[t]) + 1
          /\ \A w \in Thread \ {t} : epochs'[w] = epochs[w]
      <3>1. epochs'[t] = Append(epochs[t], vc[t][t]) BY <2>1, <2>2
      <3>2. Len(Append(epochs[t], vc[t][t])) = Len(epochs[t]) + 1 BY <2>2
      <3> QED BY <2>1, <2>2, <3>1, <3>2
    <2>4. /\ hb'[t][t] = hb[t][t] + 1 /\ \A w \in Thread \ {t} : hb'[t][w] = hb[t][w]
          /\ \A u \in Thread \ {t} : hb'[u] = hb[u]
      <3>1. hb \in [Thread -> Clock] BY DEF TypeOK
      <3> QED BY <2>1, <3>1 DEF Clock
    <2>5. \A w \in Thread : Len(epochs[w]) <= Len(epochs'[w]) BY <1>0, <2>3
    <2>6. \A w \in Thread : Len(epochs'[w]) \in Nat BY <1>0, <2>3
    <2> HIDE DEF Goal
    <2>7. ASSUME NEW u \in Thread, NEW w \in Thread PROVE hb'[u][w] <= Len(epochs'[w])
      <3>1. hb[u][w] <= Len(epochs[w]) /\ Len(epochs[w]) <= Len(epochs'[w]) BY <1>a, <2>5
      <3>2. CASE u # t \/ w # t
        <4>1. hb'[u][w] = hb[u][w] BY <2>4, <3>2
        <4> QED BY <1>0, <2>6, <3>1, <4>1
      <3>3. CASE u = t /\ w = t BY <1>0, <1>a, <2>3, <2>4, <3>3
      <3> QED BY <3>2, <3>3
    <2>8. \A u \in Thread : hb'[u][u] = Len(epochs'[u]) BY <1>0, <1>a, <2>3, <2>4
    <2>9. \A u \in Thread : pc'[u] = "unborn" => hb'[u] = Zero BY <1>a, <2>1, <2>4
    <2> QED BY <2>5, <2>7, <2>8, <2>9 DEF Goal
  <1>4. ASSUME UNCHANGED <<hb, epochs>>, \A u \in Thread : pc'[u] = "unborn" => pc[u] = "unborn"
        PROVE  Goal
    BY <1>4, <1>a
  <1>5. ASSUME LockExit(t) \/ (\E m \in Mutex : LockMutexLock(t, m) \/ LockMutexUnlock(t, m))
               \/ LockRdlock(t) \/ LockWrlock(t) \/ LockRwlockUnlock(t)
        PROVE  UNCHANGED <<hb, epochs>> /\ \A u \in Thread : pc'[u] = "unborn" => pc[u] = "unborn"
    <2>1. pc \in [Thread -> PC] BY DEF TypeOK
    <2>2. UNCHANGED <<hb, epochs>> /\ (pc' = pc \/ pc' = [pc EXCEPT ![t] = "exited"])
      BY <1>5 DEF LockExit, LockMutexLock, LockMutexUnlock, LockRdlock, LockWrlock, LockRwlockUnlock,
         Move, Goto, callVars
    <2> QED BY <2>1, <2>2
  <1>6. UNCHANGED <<hbMutex, hbWriter, hbReaders, hbSem>>
    BY DEF LockStep, LockCreate, LockJoin, LockExit, LockMutexLock, LockMutexUnlock, LockRdlock,
       LockWrlock, LockRwlockUnlock, LockTouch, Touch, lockVars, rwVars, semVars, rwTruth
  <1>7. Goal /\ \A w \in Thread : Len(epochs[w]) <= Len(epochs'[w])
    <2> HIDE DEF Goal
    <2>1. CASE \E c \in Thread : LockCreate(t, c) \/ LockJoin(t, c) BY <1>0, <1>1, <1>2, <2>1
    <2>2. CASE \E k \in Kind : LockTouch(t, k) BY <1>3, <2>2
    <2>3. CASE LockExit(t) \/ (\E m \in Mutex : LockMutexLock(t, m) \/ LockMutexUnlock(t, m))
               \/ LockRdlock(t) \/ LockWrlock(t) \/ LockRwlockUnlock(t)
      BY <1>0, <1>4, <1>5, <2>3
    <2> QED BY <2>1, <2>2, <2>3 DEF LockStep
  <1>8. ASSUME NEW h \in Clock, MadeIn(epochs, h) PROVE MadeIn(epochs', h)
    <2>1. epochs' \in [Thread -> Seq(Nat)]
      <3>1. vc[t][t] \in Nat /\ epochs \in [Thread -> Seq(Nat)] BY DEF TypeOK, Clock
      <3>2. epochs' = epochs \/ epochs' = [epochs EXCEPT ![t] = Append(@, vc[t][t])]
        BY DEF LockStep, LockCreate, LockJoin, LockExit, LockMutexLock, LockMutexUnlock, LockRdlock,
           LockWrlock, LockRwlockUnlock, LockTouch, Touch
      <3>3. Append(epochs[t], vc[t][t]) \in Seq(Nat) BY <3>1
      <3> QED BY <3>1, <3>2, <3>3
    <2>2. \A w \in Thread : Len(epochs'[w]) \in Nat /\ h[w] \in Nat BY <2>1 DEF Clock
    <2> QED BY <1>0, <1>7, <1>8, <2>2 DEF MadeIn
  <1>9. /\ \A m \in Mutex : hbMutex[m] \in Clock /\ MadeIn(epochs, hbMutex[m])
        /\ hbWriter \in Clock /\ hbReaders \in Clock /\ hbSem \in Clock
        /\ MadeIn(epochs, hbWriter) /\ MadeIn(epochs, hbReaders) /\ MadeIn(epochs, hbSem)
    BY DEF TypeOK, HbInv
  <1> QED BY <1>6, <1>7, <1>8, <1>9 DEF HbInv, MadeIn

\* Threads that are there.
LivePC == {"run", "exited"}

\* Whoever comes after the n-th access of u has at least x of w in its clock.
KnownIn(p, h, C, u, n, w, x) ==
  \A v \in Thread : p[v] \in LivePC /\ n <= h[v][u] => x <= C[v][w]

\* What is known stays known: creation and join hand on the clock with the order.
LEMMA KnownStep ==
  ASSUME NEW t \in Thread, TypeOK, HbInv, LockStep(t),
         NEW C \in [Thread -> Clock], NEW D \in [Thread -> Clock], ClockMove(t, C, D),
         NEW u \in Thread, NEW n \in Nat \ {0}, n <= Len(epochs[u]), NEW w \in Thread, NEW x \in Nat,
         KnownIn(pc, hb, C, u, n, w, x)
  PROVE  KnownIn(pc', hb', D, u, n, w, x)
  <1>0. /\ \A v \in Thread : C[v][w] \in Nat /\ hb[v][u] \in Nat /\ hb[v] \in Clock
        /\ pc \in [Thread -> PC] /\ hb \in [Thread -> Clock]
    <2>1. pc \in [Thread -> PC] /\ hb \in [Thread -> Clock] BY DEF TypeOK
    <2>2. \A v \in Thread : C[v] \in Clock /\ hb[v] \in Clock BY <2>1
    <2> QED BY <2>1, <2>2 DEF Clock
  <1>a. /\ \A v \in Thread : pc[v] = "unborn" => hb[v] = Zero
        /\ \A v \in Thread : hb[v][v] = Len(epochs[v])
    BY DEF HbInv
  <1>1. ASSUME NEW c \in Thread, LockCreate(t, c), D = Started(C, c, t)
        PROVE  KnownIn(pc', hb', D, u, n, w, x)
    <2>1. /\ pc[c] = "unborn" /\ c # t /\ pc' = [pc EXCEPT ![c] = "run"] /\ pc[t] = "run"
          /\ hb' = [hb EXCEPT ![c] = Join(hb[c], hb[t])]
      BY <1>1, OtherThread DEF LockCreate, Move, Goto, Learn
    <2>2. D \in [Thread -> Clock] /\ C[t][w] <= D[c][w] /\ C[t][w] <= D[t][w]
          /\ \A v \in Thread \ {c, t} : D[v] = C[v]
      BY <1>1, <2>1, StartedProp
    <2>3. \A v \in Thread : D[v][w] \in Nat BY <2>2 DEF Clock
    <2>4. n <= Join(hb[c], hb[t])[u] => n <= hb[t][u]
      <3>1. Join(hb[c], hb[t])[u] = hb[c][u] \/ Join(hb[c], hb[t])[u] = hb[t][u] BY <1>0, JoinProp
      <3>2. hb[c][u] = 0 BY <1>a, <2>1, ZeroProp
      <3> QED BY <3>1, <3>2
    <2>5. ASSUME NEW v \in Thread, pc'[v] \in LivePC, n <= hb'[v][u] PROVE x <= D[v][w]
      <3>1. CASE v = c
        <4>1. hb'[v] = Join(hb[c], hb[t]) BY <1>0, <2>1, <3>1
        <4>2. x <= C[t][w] BY <2>1, <2>4, <2>5, <4>1 DEF KnownIn, LivePC
        <4> QED BY <1>0, <2>2, <2>3, <3>1, <4>2
      <3>2. CASE v # c
        <4>1. hb'[v] = hb[v] /\ pc'[v] = pc[v] BY <1>0, <2>1, <3>2
        <4>2. x <= C[v][w] BY <2>5, <4>1 DEF KnownIn
        <4>3. C[v][w] <= D[v][w]
          <5>1. CASE v = t BY <2>2, <5>1
          <5>2. CASE v # t
            <6>1. D[v] = C[v] BY <2>2, <3>2, <5>2
            <6> QED BY <1>0, <6>1
          <5> QED BY <5>1, <5>2
        <4> QED BY <1>0, <2>3, <4>2, <4>3
      <3> QED BY <3>1, <3>2
    <2> QED BY <2>5 DEF KnownIn
  <1>2. ASSUME NEW c \in Thread, LockJoin(t, c), D = Joined(C, t, c)
        PROVE  KnownIn(pc', hb', D, u, n, w, x)
    <2>1. /\ pc[c] = "exited" /\ pc[t] = "run" /\ c # t /\ pc' = [pc EXCEPT ![c] = "reaped"]
          /\ hb' = [hb EXCEPT ![t] = Join(hb[t], hb[c])]
      BY <1>2, OtherThread DEF LockJoin, Move, Goto, Learn
    <2>2. /\ D \in [Thread -> Clock] /\ C[t][w] <= D[t][w] /\ C[c][w] <= D[t][w]
          /\ \A v \in Thread \ {c, t} : D[v] = C[v]
      BY <1>2, <2>1, JoinedProp
    <2>3. \A v \in Thread : D[v][w] \in Nat BY <2>2 DEF Clock
    <2>4. n <= Join(hb[t], hb[c])[u] => n <= hb[t][u] \/ n <= hb[c][u]
      <3>1. Join(hb[t], hb[c])[u] = hb[c][u] \/ Join(hb[t], hb[c])[u] = hb[t][u] BY <1>0, JoinProp
      <3> QED BY <3>1
    <2>5. ASSUME NEW v \in Thread, pc'[v] \in LivePC, n <= hb'[v][u] PROVE x <= D[v][w]
      <3>0. v # c BY <1>0, <2>1, <2>5 DEF LivePC
      <3>1. CASE v = t
        <4>1. hb'[v] = Join(hb[t], hb[c]) BY <1>0, <2>1, <3>1
        <4>2. x <= C[t][w] \/ x <= C[c][w] BY <2>1, <2>4, <2>5, <4>1 DEF KnownIn, LivePC
        <4> QED BY <1>0, <2>2, <2>3, <3>1, <4>2
      <3>2. CASE v # t
        <4>1. hb'[v] = hb[v] /\ pc'[v] = pc[v] BY <1>0, <2>1, <3>0, <3>2
        <4>2. x <= C[v][w] BY <2>5, <4>1 DEF KnownIn
        <4>3. D[v] = C[v] BY <2>2, <3>0, <3>2
        <4> QED BY <4>2, <4>3
      <3> QED BY <3>1, <3>2
    <2> QED BY <2>5 DEF KnownIn
  <1>3. ASSUME LockCalls(t), \A v \in Thread : HappensBefore(C[v], D[v])
        PROVE  KnownIn(pc', hb', D, u, n, w, x)
    <2>1. \A v \in Thread : C[v][w] <= D[v][w] /\ D[v][w] \in Nat BY <1>3 DEF HappensBefore, Clock
    <2>2. \A v \in Thread : pc'[v] \in LivePC => pc[v] \in LivePC
      <3>1. pc' = pc \/ (pc' = [pc EXCEPT ![t] = "exited"] /\ pc[t] = "run")
        BY <1>3 DEF LockCalls, LockExit, LockMutexLock, LockMutexUnlock, LockRdlock, LockWrlock,
           LockRwlockUnlock, LockTouch, Touch, Move, Goto, callVars
      <3> QED BY <1>0, <3>1 DEF LivePC
    <2>3. \A v \in Thread : n <= hb'[v][u] => n <= hb[v][u]
      <3>1. hb' = hb \/ hb' = [hb EXCEPT ![t] = [hb[t] EXCEPT ![t] = @ + 1]]
        BY <1>3 DEF LockCalls, LockExit, LockMutexLock, LockMutexUnlock, LockRdlock, LockWrlock,
           LockRwlockUnlock, LockTouch, Touch
      <3>2. ASSUME NEW v \in Thread, v # t \/ u # t PROVE hb'[v][u] = hb[v][u]
        <4> DEFINE N == [hb[t] EXCEPT ![t] = @ + 1]
        <4>1. u # t => N[u] = hb[t][u] BY <1>0 DEF Clock
        <4>2. hb' = hb \/ hb' = [hb EXCEPT ![t] = N] BY <3>1
        <4> HIDE DEF N
        <4>3. hb' = [hb EXCEPT ![t] = N] => hb'[t] = N /\ (v # t => hb'[v] = hb[v]) BY <1>0
        <4> QED BY <3>2, <4>1, <4>2, <4>3
      <3>3. n <= hb[u][u] BY <1>a
      <3> QED BY <3>2, <3>3
    <2>4. ASSUME NEW v \in Thread, pc'[v] \in LivePC, n <= hb'[v][u] PROVE x <= D[v][w]
      <3>1. x <= C[v][w] BY <2>2, <2>3, <2>4 DEF KnownIn
      <3> QED BY <1>0, <2>1, <3>1
    <2> QED BY <2>4 DEF KnownIn
  <1> QED BY <1>1, <1>2, <1>3 DEF ClockMove

\* What the thread's clock held at its new access.
LEMMA NewAccess ==
  ASSUME NEW t \in Thread, NEW k \in Kind, TypeOK, HbInv, LockTouch(t, k),
         NEW C \in [Thread -> Clock], NEW w \in Thread
  PROVE  KnownIn(pc', hb', C, t, Len(epochs[t]) + 1, w, C[t][w])
  <1>1. hb' = [hb EXCEPT ![t][t] = @ + 1] BY DEF LockTouch, Touch
  <1>2. hb \in [Thread -> Clock] BY DEF TypeOK
  <1>3. \A v \in Thread : hb[v][t] <= Len(epochs[t]) BY DEF HbInv, MadeIn
  <1>4. \A v \in Thread : hb[v][t] \in Nat /\ C[v][w] \in Nat /\ Len(epochs[t]) \in Nat
    <2>1. \A v \in Thread : hb[v] \in Clock /\ C[v] \in Clock /\ epochs[v] \in Seq(Nat)
      BY <1>2 DEF TypeOK
    <2> QED BY <2>1 DEF Clock
  <1>5. \A v \in Thread \ {t} : hb'[v] = hb[v] BY <1>1, <1>2
  <1> QED BY <1>3, <1>4, <1>5 DEF KnownIn

-----------------------------------------------------------------------------
(* The accesses. *)

\* An access is one of its thread's, and whoever comes after it knows its clock.
SeenInv ==
  \A a \in seen : /\ a.n \in 1..Len(epochs[a.thd])
                  /\ KnownIn(pc, hb, vc, a.thd, a.n, a.thd, a.clk)

LockIInv == TypeOK /\ BetweenCalls /\ TablesInv /\ AccessTypes /\ HbInv /\ SeenInv

LEMMA SeenStep ==
  ASSUME NEW t \in Thread, TypeOK, BetweenCalls, HbInv, AccessTypes, SeenInv, LockStep(t)
  PROVE  SeenInv'
  <1>1. ClockMove(t, vc, vc') BY VcStep
  <1>2. vc \in [Thread -> Clock] /\ vc' \in [Thread -> Clock] BY CoreTypes DEF TypeOK
  <1>3. \A a \in seen : a.thd \in Thread /\ a.n \in Nat /\ a.clk \in Nat BY DEF AccessTypes, Access
  <1>4. \A u \in Thread : /\ Len(epochs[u]) \in Nat /\ Len(epochs'[u]) \in Nat
                          /\ Len(epochs[u]) <= Len(epochs'[u])
    <2>1. \A u \in Thread : epochs[u] \in Seq(Nat) /\ vc[u][u] \in Nat BY DEF TypeOK, Clock
    <2>2. epochs' = epochs \/ epochs' = [epochs EXCEPT ![t] = Append(@, vc[t][t])]
      BY DEF LockStep, LockCreate, LockJoin, LockExit, LockMutexLock, LockMutexUnlock, LockRdlock,
         LockWrlock, LockRwlockUnlock, LockTouch, Touch
    <2>3. \A u \in Thread : \/ epochs'[u] = epochs[u]
                            \/ epochs'[u] = Append(epochs[u], vc[u][u])
      BY <2>2 DEF TypeOK
    <2> QED BY <2>1, <2>3
  <1>5. ASSUME NEW a \in seen
        PROVE  /\ a.n \in 1..Len(epochs'[a.thd])
               /\ KnownIn(pc', hb', vc', a.thd, a.n, a.thd, a.clk)
    <2>1. /\ a.n \in 1..Len(epochs[a.thd]) /\ a.thd \in Thread /\ a.n \in Nat /\ a.clk \in Nat
          /\ KnownIn(pc, hb, vc, a.thd, a.n, a.thd, a.clk)
      BY <1>3 DEF SeenInv
    <2>2. a.n \in Nat \ {0} /\ a.n <= Len(epochs[a.thd]) BY <1>4, <2>1
    <2>3. a.n \in 1..Len(epochs'[a.thd]) BY <1>4, <2>1
    <2> QED BY <1>1, <1>2, <2>1, <2>2, <2>3, KnownStep
  <1>6. CASE seen' = seen BY <1>5, <1>6 DEF SeenInv
  <1>7. ASSUME NEW k \in Kind, LockTouch(t, k) PROVE SeenInv'
    <2> DEFINE m == Making(t, k)
    <2>1. seen' = seen \cup {m} /\ vc' = vc BY <1>7 DEF LockTouch, Touch
    <2>2. m.thd = t /\ m.n = Len(epochs[t]) + 1 /\ m.clk = vc[t][t] BY DEF Making
    <2>3. KnownIn(pc', hb', vc', t, Len(epochs[t]) + 1, t, vc[t][t]) BY <1>2, <1>7, <2>1, NewAccess
    <2>4. m.n \in 1..Len(epochs'[t])
      <3>1. epochs'[t] = Append(epochs[t], vc[t][t]) BY <1>7 DEF LockTouch, Touch, TypeOK
      <3>2. epochs[t] \in Seq(Nat) /\ vc[t][t] \in Nat BY DEF TypeOK, Clock
      <3>3. Len(epochs'[t]) = Len(epochs[t]) + 1 BY <3>1, <3>2
      <3> QED BY <1>4, <2>2, <3>3
    <2> HIDE DEF m
    <2> QED BY <1>5, <2>1, <2>2, <2>3, <2>4 DEF SeenInv
  <1>8. seen' = seen \/ \E k \in Kind : LockTouch(t, k)
    BY DEF LockStep, LockCreate, LockJoin, LockExit, LockMutexLock, LockMutexUnlock, LockRdlock,
       LockWrlock, LockRwlockUnlock, programVars
  <1> QED BY <1>6, <1>7, <1>8

\* The program starts with nothing held and nothing seen.
LEMMA LockIInvInit == ProgramInit => LockIInv
  <1> SUFFICES ASSUME ProgramInit PROVE LockIInv OBVIOUS
  <1>1. TypeOK /\ HbInv BY EdgeInit DEF ProgramInit, EdgeIInv, CallIInv
  <1>2. BetweenCalls BY DEF ProgramInit, Init, BetweenCalls, LockPC
  <1>3. \A t \in Thread : HeldWrite(t) = {} /\ HeldRead(t) = {}
    BY NullAssumption DEF ProgramInit, Init, HeldWrite, HeldRead
  <1>4. Cardinality({}) = 0 /\ IsFiniteSet({}) BY FS_EmptySet
  <1>5. RefInv BY <1>4 DEF ProgramInit, Init, RefInv
  <1>6. TableTypes BY DEF ProgramInit, TableTypes
  <1>7. ASSUME NEW t \in Thread PROVE Tables(t)
    <2>1. /\ ls[t] = {} /\ rdls[t] = {} /\ lc[t] = 0 /\ wls[t] = {} /\ rls[t] = {}
      BY DEF ProgramInit
    <2>2. Held(t) = {} BY <1>3 DEF Held
    <2> QED BY <1>3, <1>4, <2>1, <2>2 DEF Tables
  <1>8. AccessTypes BY <1>1 DEF ProgramInit, AccessTypes, TypeOK
  <1>9. SeenInv BY DEF ProgramInit, SeenInv
  <1> QED BY <1>1, <1>2, <1>5, <1>6, <1>7, <1>8, <1>9 DEF LockIInv, TablesInv

\* And keeps all of it.
LEMMA LockIInvStep ==
  ASSUME NEW t \in Thread, LockIInv, LockStep(t)
  PROVE  LockIInv'
  BY CoreTypes, TablesStep, AccuStep, HbStep, SeenStep DEF LockIInv

LEMMA LockIInvStutter ==
  ASSUME LockIInv, UNCHANGED <<vars, programVars>>
  PROVE  LockIInv'
  <1>1. UNCHANGED <<callVars, vc, lockVars, rwVars, condVars, barVars, semVars, epochs, hb,
                    tableVars, accuVc, seen>>
    BY DEF vars, programVars
  <1>2. TypeOK' /\ HbInv' /\ BetweenCalls'
    BY <1>1 DEF LockIInv, TypeOK, HbInv, BetweenCalls, callVars, lockVars, rwVars, condVars, barVars,
       semVars
  <1>3. \A u \in Thread : HeldWrite(u)' = HeldWrite(u) /\ HeldRead(u)' = HeldRead(u)
    BY <1>1 DEF HeldWrite, HeldRead, lockVars, rwVars
  <1>4. TableTypes' /\ RefInv' BY <1>1 DEF LockIInv, TablesInv, TableTypes, RefInv, tableVars, rwVars
  <1>5. \A u \in Thread : Tables(u)'
    BY <1>1, <1>3, TablesKept DEF LockIInv, TablesInv, tableVars
  <1>6. AccessTypes' /\ SeenInv'
    BY <1>1 DEF LockIInv, AccessTypes, SeenInv, KnownIn, callVars
  <1> QED BY <1>2, <1>4, <1>5, <1>6 DEF LockIInv, TablesInv

\* The tables say what the threads hold.
LEMMA TablesFollow == LockIInv => TablesFollowLocks
  BY DEF LockIInv, TablesInv, Tables, TablesFollowLocks, Held

\* A clock beyond what t knows is of an access that nothing orders before t.
LEMMA ConcurrentAccess ==
  ASSUME NEW C \in [Thread -> Clock], NEW t \in Thread, pc[t] = "run", TypeOK, NEW u \in Thread,
         NEW n \in Nat, NEW w \in Thread, NEW x \in Nat,
         KnownIn(pc, hb, C, u, n, w, x), x > C[t][w]
  PROVE  n > hb[t][u]
  <1>1. C[t][w] \in Nat /\ hb[t][u] \in Nat
    <2>1. C[t] \in Clock /\ hb[t] \in Clock BY DEF TypeOK
    <2> QED BY <2>1 DEF Clock
  <1>2. n <= hb[t][u] => x <= C[t][w] BY DEF KnownIn, LivePC
  <1> QED BY <1>1, <1>2

\* A step keeps what witnesses know.
LEMMA AccessKept ==
  ASSUME LockIInv, NEW t \in Thread, LockStep(t),
         NEW C \in [Thread -> Clock], NEW D \in [Thread -> Clock], ClockMove(t, C, D),
         NEW a \in seen, NEW w \in Thread, NEW x \in Nat, KnownIn(pc, hb, C, a.thd, a.n, w, x)
  PROVE  KnownIn(pc', hb', D, a.thd, a.n, w, x) /\ a \in seen'
  <1>1. a.thd \in Thread /\ a.n \in 1..Len(epochs[a.thd]) /\ TypeOK /\ HbInv
    BY DEF LockIInv, AccessTypes, Access, SeenInv
  <1>2. epochs[a.thd] \in Seq(Nat) BY <1>1 DEF TypeOK
  <1>3. a.n \in Nat \ {0} /\ a.n <= Len(epochs[a.thd]) BY <1>1, <1>2
  <1>4. seen \subseteq seen'
    BY DEF LockStep, LockCreate, LockJoin, LockExit, LockMutexLock, LockMutexUnlock, LockRdlock,
       LockWrlock, LockRwlockUnlock, LockTouch, programVars
  <1> QED BY <1>1, <1>3, <1>4, KnownStep

-----------------------------------------------------------------------------
(* The seven lockset and hybrid detectors.                                   *)

ErMeta == [state : ErState, owner : Thread \cup {NoThread}, racy : BOOLEAN,
           wr : SUBSET Lock, rd : SUBSET Lock,
           writers : SUBSET Thread, readers : SUBSET Thread]
RtMeta == [state : RtState, stop : BOOLEAN, racy : BOOLEAN,
           wr : SUBSET Lock, rd : SUBSET Lock, threads : Clock,
           writers : SUBSET Thread, readers : SUBSET Thread]
HgMeta == [state : HgState, clock : Clock, thd : Thread \cup {NoThread}, kind : Kind,
           threads : SUBSET Thread, locks : SUBSET Lock,
           lastop : [Thread -> Kind \cup {NoArg}]]
AccuMeta == [thd : Thread \cup {NoThread}, clk : Nat, locks : SUBSET Lock,
             reads : [Thread -> ClockSet]]

\* The locks that make t's access of kind k a protected one.
Covering(t, k) == IF k = "R" THEN Held(t) ELSE HeldWrite(t)

\* The tables give each detector these locks, or more.
LEMMA TableLocks ==
  ASSUME TablesInv, NEW t \in Thread, NEW k \in Kind
  PROVE  /\ Covering(t, k) \subseteq rls[t]
         /\ k = "W" => Covering(t, k) = wls[t]
         /\ Covering(t, k) = Protecting(t, k)
         /\ rls[t] \in SUBSET Lock /\ wls[t] \in SUBSET Lock
         /\ ls[t] \in SUBSET Lock /\ rdls[t] \in SUBSET Lock
         /\ ls[t] # {} => t \in locked
  BY DEF TablesInv, TableTypes, Tables, Covering, Held, Protecting, Kind

-----------------------------------------------------------------------------
(* Eraser's operators. *)

\* A move of the state machine; a unit's first access sets its candidate locks.
LEMMA ErMovedProp ==
  ASSUME TablesInv, NEW t \in Thread, NEW k \in Kind, NEW e \in ErMeta
  PROVE  /\ ErMoved(e, t, k) \in ErMeta
         /\ ErMoved(e, t, k).racy = e.racy /\ ErMoved(e, t, k).state # "UNKNOWN"
         /\ ErMoved(e, t, k).rd = IF e.state = "UNKNOWN" THEN rls[t] ELSE e.rd
  <1>1. rls[t] \in SUBSET Lock /\ wls[t] \in SUBSET Lock BY TableLocks
  <1> DEFINE second == IF k = "W" THEN "SHARED_MODIFIED" ELSE "READ_SHARED"
             first == IF k = "W" THEN "EXCLUSIVE" ELSE "VIRGIN"
  <1>2. first \in ErState /\ second \in ErState /\ "SHARED_MODIFIED" \in ErState
        /\ first # "UNKNOWN" /\ second # "UNKNOWN"
    BY DEF ErState
  <1>3. ErMoved(e, t, k) =
          CASE e.state = "UNKNOWN" ->
                 [e EXCEPT !.state = first, !.owner = t, !.wr = wls[t], !.rd = rls[t]]
            [] e.state = "VIRGIN" /\ e.owner = t -> [e EXCEPT !.state = first]
            [] e.state \in {"VIRGIN", "EXCLUSIVE"} /\ e.owner # t -> [e EXCEPT !.state = second]
            [] e.state = "READ_SHARED" /\ k = "W" -> [e EXCEPT !.state = "SHARED_MODIFIED"]
            [] OTHER -> e
    BY DEF ErMoved
  <1> HIDE DEF second, first
  <1>4. CASE e.state = "UNKNOWN"
    <2>1. ErMoved(e, t, k) = [e EXCEPT !.state = first, !.owner = t, !.wr = wls[t], !.rd = rls[t]]
      BY <1>3, <1>4
    <2> QED BY <1>1, <1>2, <1>4, <2>1 DEF ErMeta
  <1>5. CASE e.state # "UNKNOWN"
    <2>1. \/ ErMoved(e, t, k) = e
          \/ \E s \in {first, second, "SHARED_MODIFIED"} : ErMoved(e, t, k) = [e EXCEPT !.state = s]
      BY <1>3, <1>5
    <2>2. CASE ErMoved(e, t, k) = e BY <1>5, <2>2
    <2>3. ASSUME NEW s \in {first, second, "SHARED_MODIFIED"}, ErMoved(e, t, k) = [e EXCEPT !.state = s]
          PROVE  /\ ErMoved(e, t, k) \in ErMeta /\ ErMoved(e, t, k).racy = e.racy
                 /\ ErMoved(e, t, k).state # "UNKNOWN" /\ ErMoved(e, t, k).rd = e.rd
      <3>1. s \in ErState /\ s # "UNKNOWN" BY <1>2
      <3> QED BY <2>3, <3>1 DEF ErMeta
    <2> QED BY <1>5, <2>1, <2>2, <2>3
  <1> QED BY <1>4, <1>5

\* The refined locksets, and what the access leaves.
LEMMA ErMergedProp ==
  ASSUME TablesInv, NEW t \in Thread, NEW k \in Kind, NEW e \in ErMeta
  PROVE  /\ ErMerged(e, t, k) \in ErMeta
         /\ ErMerged(e, t, k).racy = e.racy /\ ErMerged(e, t, k).state = e.state
         /\ e.rd \cap rls[t] \subseteq ErMerged(e, t, k).rd
         /\ e.state = "SHARED_MODIFIED" /\ k = "W" =>
              (e.rd \cap wls[t]) \subseteq ErMerged(e, t, k).wr
  <1>1. rls[t] \in SUBSET Lock /\ wls[t] \in SUBSET Lock BY TableLocks
  <1> QED BY <1>1 DEF ErMerged, ErMeta, JoinAndMerge

LEMMA ErAfterProp ==
  ASSUME TablesInv, NEW t \in Thread, NEW k \in Kind, er \in ErMeta
  PROVE  /\ ErAfter(t, k) \in ErMeta
         /\ ~er.racy => ErAfter(t, k).state # "UNKNOWN"
         /\ \A l \in Covering(t, k) :
              ~er.racy /\ (er.state # "UNKNOWN" => l \in er.rd) =>
                ~ErAfter(t, k).racy /\ l \in ErAfter(t, k).rd
  <1> DEFINE m == ErMoved(er, t, k)
             e == ErMerged(m, t, k)
             f == [e EXCEPT !.racy = ErAlarm(e, k)]
  <1>1. /\ m \in ErMeta /\ m.racy = er.racy /\ m.state # "UNKNOWN"
        /\ m.rd = IF er.state = "UNKNOWN" THEN rls[t] ELSE er.rd
    BY ErMovedProp
  <1>2. /\ e \in ErMeta /\ e.racy = m.racy /\ e.state = m.state
        /\ m.rd \cap rls[t] \subseteq e.rd
        /\ m.state = "SHARED_MODIFIED" /\ k = "W" => (m.rd \cap wls[t]) \subseteq e.wr
    BY <1>1, ErMergedProp
  <1>3. ErAfter(t, k) = IF er.racy THEN er ELSE ErSeen(f, t, k) BY DEF ErAfter
  <1> HIDE DEF m, e
  <1>4. ErAlarm(e, k) \in BOOLEAN BY DEF ErAlarm
  <1>5. f \in ErMeta /\ f.racy = ErAlarm(e, k) /\ f.rd = e.rd /\ f.state = e.state
    BY <1>2, <1>4 DEF ErMeta
  <1> HIDE DEF f
  <1>6. ErSeen(f, t, k) \in ErMeta /\ ErSeen(f, t, k).racy = f.racy /\ ErSeen(f, t, k).rd = f.rd
        /\ ErSeen(f, t, k).state = f.state
    BY <1>5 DEF ErSeen, ErMeta
  <1>7. ASSUME NEW l \in Covering(t, k), ~er.racy, er.state # "UNKNOWN" => l \in er.rd
        PROVE  l \in e.rd /\ ~ErAlarm(e, k)
    <2>1. l \in rls[t] /\ (k = "W" => l \in wls[t]) BY TableLocks
    <2>2. l \in e.rd BY <1>1, <1>2, <1>7, <2>1
    <2>3. l \in m.rd BY <1>1, <1>7, <2>1
    <2>4. k = "W" /\ e.state = "SHARED_MODIFIED" => l \in e.wr BY <1>2, <2>1, <2>3
    <2> QED BY <2>2, <2>4 DEF ErAlarm, Kind
  <1> QED BY <1>1, <1>2, <1>3, <1>5, <1>6, <1>7
-----------------------------------------------------------------------------
(* RaceTrack's operators. *)

\* The thread set r keeps of q's: a thread leaves or stays as it is, t has its
\* last access or its present one.
Kept(r, q, t) ==
  /\ \A u \in Thread \ {t} : r.threads[u] = 0 \/ r.threads[u] = q.threads[u]
  /\ \/ r.threads[t] = 0 \/ r.threads[t] = q.threads[t] \/ r.threads[t] = vc[t][t]

\* Only accesses concurrent with t's are left.
Purged(r, t) == \A u \in Thread \ {t} : r.threads[u] # 0 => r.threads[u] > vc[t][u]

\* Lock l has been held at all accesses, as far as r shows.
RtCovered(r, l) == r.state # "RACY" /\ (r.state # "VIRGIN" => l \in r.rd \cup r.wr)

\* A stage makes s of r.  A unit becomes racy with its threads purged.
RtStage(r, s, t, k) ==
  /\ s \in RtMeta /\ s.racy = r.racy /\ Kept(s, r, t)
  /\ r.state # "VIRGIN" => s.state # "VIRGIN"
  /\ \A l \in Covering(t, k) : RtCovered(r, l) => RtCovered(s, l)
  /\ s.state = "RACY" /\ r.state # "RACY" => Purged(s, t)

LEMMA RtThreadsProp ==
  ASSUME vc \in [Thread -> Clock], NEW t \in Thread, NEW r \in RtMeta
  PROVE  /\ RtThreads(r, t) \in RtMeta /\ Kept(RtThreads(r, t), r, t) /\ Purged(RtThreads(r, t), t)
         /\ RtThreads(r, t).state = r.state /\ RtThreads(r, t).rd = r.rd
         /\ RtThreads(r, t).wr = r.wr /\ RtThreads(r, t).racy = r.racy
  <1> DEFINE ts == [u \in Thread |-> IF u = t THEN vc[t][t]
                                     ELSE IF r.threads[u] <= vc[t][u] THEN 0 ELSE r.threads[u]]
  <1>1. r.threads \in Clock /\ vc[t] \in Clock BY DEF RtMeta
  <1>2. \A u \in Thread : r.threads[u] \in Nat /\ vc[t][u] \in Nat BY <1>1 DEF Clock
  <1>3. ts \in Clock BY <1>2 DEF Clock
  <1>4. \A u \in Thread \ {t} : (ts[u] = 0 \/ ts[u] = r.threads[u]) /\ (ts[u] # 0 => ts[u] > vc[t][u])
    BY <1>2
  <1>5. ts[t] = vc[t][t] OBVIOUS
  <1>6. RtThreads(r, t) = [r EXCEPT !.threads = ts] BY DEF RtThreads, RtMeta
  <1> HIDE DEF ts
  <1>7. RtThreads(r, t) \in RtMeta /\ RtThreads(r, t).threads = ts
        /\ RtThreads(r, t).state = r.state /\ RtThreads(r, t).rd = r.rd
        /\ RtThreads(r, t).wr = r.wr /\ RtThreads(r, t).racy = r.racy
    BY <1>3, <1>6 DEF RtMeta
  <1> QED BY <1>4, <1>5, <1>7 DEF Kept, Purged

\* A refined or a new lockset.
LEMMA RtLocksProp ==
  ASSUME TablesInv, NEW t \in Thread, NEW k \in Kind, NEW r \in RtMeta
  PROVE  /\ RtLocks(r, t, k) \in RtMeta /\ RtLocks(r, t, k).threads = r.threads
         /\ RtLocks(r, t, k).state = r.state /\ RtLocks(r, t, k).racy = r.racy
         /\ \A l \in Covering(t, k) : l \in r.rd \cup r.wr =>
              /\ l \in RtLocks(r, t, k).rd \cup RtLocks(r, t, k).wr
              /\ k = "W" => l \in RtLocks(r, t, k).wr
  <1>1. rls[t] \in SUBSET Lock /\ wls[t] \in SUBSET Lock BY TableLocks
  <1>2. \A l \in Covering(t, k) : l \in rls[t] /\ (k = "W" => l \in wls[t]) BY TableLocks
  <1>3. k = "R" \/ k = "W" BY DEF Kind
  <1> QED BY <1>1, <1>2, <1>3 DEF RtLocks, RtMeta, JoinAndMerge

LEMMA RtFreshProp ==
  ASSUME TablesInv, NEW t \in Thread, NEW k \in Kind, NEW r \in RtMeta
  PROVE  /\ RtFresh(r, t, k) \in RtMeta /\ RtFresh(r, t, k).threads = r.threads
         /\ RtFresh(r, t, k).state = r.state /\ RtFresh(r, t, k).racy = r.racy
         /\ \A l \in Covering(t, k) : l \in RtFresh(r, t, k).rd \cup RtFresh(r, t, k).wr
  <1>1. rls[t] \in SUBSET Lock /\ wls[t] \in SUBSET Lock BY TableLocks
  <1>2. \A l \in Covering(t, k) : l \in rls[t] /\ (k = "W" => l \in wls[t]) BY TableLocks
  <1>3. k = "R" \/ k = "W" BY DEF Kind
  <1> QED BY <1>1, <1>2, <1>3 DEF RtFresh, RtMeta

LEMMA KeptSame ==
  ASSUME NEW t \in Thread, NEW r, NEW s, s.threads = r.threads
  PROVE  Kept(s, r, t)
  BY DEF Kept

LEMMA RtSame ==
  ASSUME NEW t \in Thread, NEW k \in Kind, NEW r \in RtMeta
  PROVE  RtStage(r, r, t, k)
  BY DEF RtStage, Kept

\* The stages of UpdateMemoryState.
LEMMA RtVirginProp ==
  ASSUME TablesInv, vc \in [Thread -> Clock], NEW t \in Thread, NEW k \in Kind, NEW r \in RtMeta
  PROVE  RtStage(r, RtVirgin(r, t, k), t, k) /\ RtVirgin(r, t, k).state # "VIRGIN"
  <1> DEFINE a == RtThreads(r, t)
             f == RtFresh(a, t, k)
             s == [f EXCEPT !.state = "EXCLUSIVE1", !.stop = TRUE]
  <1>1. a \in RtMeta /\ Kept(a, r, t) /\ a.racy = r.racy BY RtThreadsProp
  <1>2. f \in RtMeta /\ f.threads = a.threads /\ f.racy = a.racy
        /\ \A l \in Covering(t, k) : l \in f.rd \cup f.wr
    BY <1>1, RtFreshProp
  <1> HIDE DEF a, f
  <1>3. s \in RtMeta /\ s.threads = f.threads /\ s.racy = f.racy /\ s.rd = f.rd /\ s.wr = f.wr
        /\ s.state = "EXCLUSIVE1"
    BY <1>2 DEF RtMeta, RtState
  <1>4. RtStage(r, s, t, k) BY <1>1, <1>2, <1>3 DEF RtStage, Kept, RtCovered
  <1>5. RtVirgin(r, t, k) = IF r.state # "VIRGIN" THEN r ELSE s BY DEF RtVirgin, a, f
  <1> HIDE DEF s
  <1> QED BY <1>3, <1>4, <1>5, RtSame

LEMMA RtExclusive1Prop ==
  ASSUME TablesInv, vc \in [Thread -> Clock], NEW t \in Thread, NEW k \in Kind, NEW r \in RtMeta
  PROVE  RtStage(r, RtExclusive1(r, t, k), t, k)
  <1> DEFINE a == RtThreads(r, t)
             s == RtLocks(a, t, k)
             x == [s EXCEPT !.stop = TRUE]
             y == [s EXCEPT !.threads = Zero, !.stop = (k = "R"),
                            !.state = IF k = "R" THEN "READ_SHARED" ELSE "SHARED_MODIFIED1"]
  <1>1. a \in RtMeta /\ Kept(a, r, t) /\ a.racy = r.racy /\ a.state = r.state
        /\ a.rd = r.rd /\ a.wr = r.wr
    BY RtThreadsProp
  <1>2. s \in RtMeta /\ s.threads = a.threads /\ s.racy = a.racy /\ s.state = a.state
        /\ \A l \in Covering(t, k) : l \in a.rd \cup a.wr => l \in s.rd \cup s.wr
    BY <1>1, RtLocksProp
  <1>3. Zero \in Clock /\ \A u \in Thread : Zero[u] = 0 BY ZeroProp
  <1> HIDE DEF a, s
  <1>4. x \in RtMeta /\ x.threads = s.threads /\ x.racy = s.racy /\ x.rd = s.rd /\ x.wr = s.wr
        /\ x.state = s.state
    BY <1>2 DEF RtMeta
  <1>5. y \in RtMeta /\ y.threads = Zero /\ y.racy = s.racy /\ y.rd = s.rd /\ y.wr = s.wr
        /\ y.state \in {"READ_SHARED", "SHARED_MODIFIED1"}
    BY <1>2, <1>3 DEF RtMeta, RtState
  <1>6. RtStage(r, x, t, k) BY <1>1, <1>2, <1>4 DEF RtStage, Kept, RtCovered
  <1>7. r.state = "EXCLUSIVE1" => RtStage(r, y, t, k)
    BY <1>1, <1>2, <1>3, <1>5 DEF RtStage, Kept, RtCovered
  <1>8. RtExclusive1(r, t, k) =
          IF r.stop \/ r.state # "EXCLUSIVE1" THEN r ELSE IF RtAlone(s) THEN x ELSE y
    BY DEF RtExclusive1, a, s
  <1> HIDE DEF x, y
  <1> QED BY <1>6, <1>7, <1>8, RtSame

LEMMA RtReadSharedProp ==
  ASSUME TablesInv, NEW t \in Thread, NEW k \in Kind, NEW r \in RtMeta
  PROVE  RtStage(r, RtReadShared(r, t, k), t, k)
  <1> DEFINE s == RtLocks(r, t, k)
             f == RtFresh(s, t, k)
             x == [f EXCEPT !.state = "EXCLUSIVE2"]
             y == [s EXCEPT !.stop = TRUE, !.state = IF k = "W" THEN "SHARED_MODIFIED1" ELSE @]
  <1>2. s \in RtMeta /\ s.threads = r.threads /\ s.racy = r.racy /\ s.state = r.state
        /\ \A l \in Covering(t, k) : l \in r.rd \cup r.wr => l \in s.rd \cup s.wr
    BY RtLocksProp
  <1>3. f \in RtMeta /\ f.threads = s.threads /\ f.racy = s.racy
        /\ \A l \in Covering(t, k) : l \in f.rd \cup f.wr
    BY <1>2, RtFreshProp
  <1> HIDE DEF s, f
  <1>4. x \in RtMeta /\ x.threads = f.threads /\ x.racy = f.racy /\ x.rd = f.rd /\ x.wr = f.wr
        /\ x.state = "EXCLUSIVE2"
    BY <1>3 DEF RtMeta, RtState
  <1>5. y \in RtMeta /\ y.threads = s.threads /\ y.racy = s.racy /\ y.rd = s.rd /\ y.wr = s.wr
        /\ (y.state = "SHARED_MODIFIED1" \/ y.state = s.state)
    BY <1>2 DEF RtMeta, RtState
  <1>6. RtStage(r, x, t, k) BY <1>2, <1>3, <1>4 DEF RtStage, Kept, RtCovered
  <1>7. r.state = "READ_SHARED" => RtStage(r, y, t, k)
    BY <1>2, <1>5 DEF RtStage, Kept, RtCovered
  <1>8. \/ RtReadShared(r, t, k) \in {r, x}
        \/ r.state = "READ_SHARED" /\ RtReadShared(r, t, k) = y
    BY DEF RtReadShared, s, f
  <1> HIDE DEF x, y
  <1> QED BY <1>6, <1>7, <1>8, RtSame

LEMMA RtSharedModified1Prop ==
  ASSUME TablesInv, NEW t \in Thread, NEW k \in Kind, NEW r \in RtMeta
  PROVE  RtStage(r, RtSharedModified1(r, t, k), t, k)
  <1> DEFINE s == RtLocks(r, t, k)
             f == RtFresh(s, t, k)
             x == [f EXCEPT !.state = "EXCLUSIVE2"]
             y == [s EXCEPT !.stop = TRUE]
  <1>2. s \in RtMeta /\ s.threads = r.threads /\ s.racy = r.racy /\ s.state = r.state
        /\ \A l \in Covering(t, k) : l \in r.rd \cup r.wr => l \in s.rd \cup s.wr
    BY RtLocksProp
  <1>3. f \in RtMeta /\ f.threads = s.threads /\ f.racy = s.racy
        /\ \A l \in Covering(t, k) : l \in f.rd \cup f.wr
    BY <1>2, RtFreshProp
  <1> HIDE DEF s, f
  <1>4. x \in RtMeta /\ x.threads = f.threads /\ x.racy = f.racy /\ x.rd = f.rd /\ x.wr = f.wr
        /\ x.state = "EXCLUSIVE2"
    BY <1>3 DEF RtMeta, RtState
  <1>5. y \in RtMeta /\ y.threads = s.threads /\ y.racy = s.racy /\ y.rd = s.rd /\ y.wr = s.wr
        /\ y.state = s.state
    BY <1>2 DEF RtMeta
  <1>6. RtStage(r, x, t, k) BY <1>2, <1>3, <1>4 DEF RtStage, Kept, RtCovered
  <1>7. RtStage(r, y, t, k) BY <1>2, <1>5 DEF RtStage, Kept, RtCovered
  <1>8. RtSharedModified1(r, t, k) \in {r, x, y} BY DEF RtSharedModified1, s, f
  <1> HIDE DEF x, y
  <1> QED BY <1>6, <1>7, <1>8, RtSame

LEMMA RtExclusive2Prop ==
  ASSUME TablesInv, vc \in [Thread -> Clock], NEW t \in Thread, NEW k \in Kind, NEW r \in RtMeta
  PROVE  RtStage(r, RtExclusive2(r, t, k), t, k)
  <1> DEFINE a == RtThreads(r, t)
             s == RtLocks(a, t, k)
             x == [s EXCEPT !.stop = TRUE]
             y == [s EXCEPT !.state = "SHARED_MODIFIED2"]
  <1>1. a \in RtMeta /\ Kept(a, r, t) /\ a.racy = r.racy /\ a.state = r.state
        /\ a.rd = r.rd /\ a.wr = r.wr
    BY RtThreadsProp
  <1>2. s \in RtMeta /\ s.threads = a.threads /\ s.racy = a.racy /\ s.state = a.state
        /\ \A l \in Covering(t, k) : l \in a.rd \cup a.wr => l \in s.rd \cup s.wr
    BY <1>1, RtLocksProp
  <1> HIDE DEF a, s
  <1>4. x \in RtMeta /\ x.threads = s.threads /\ x.racy = s.racy /\ x.rd = s.rd /\ x.wr = s.wr
        /\ x.state = s.state
    BY <1>2 DEF RtMeta
  <1>5. y \in RtMeta /\ y.threads = s.threads /\ y.racy = s.racy /\ y.rd = s.rd /\ y.wr = s.wr
        /\ y.state = "SHARED_MODIFIED2"
    BY <1>2 DEF RtMeta, RtState
  <1>6. RtStage(r, x, t, k) BY <1>1, <1>2, <1>4 DEF RtStage, Kept, RtCovered
  <1>7. r.state = "EXCLUSIVE2" => RtStage(r, y, t, k)
    BY <1>1, <1>2, <1>5 DEF RtStage, Kept, RtCovered
  <1>8. RtExclusive2(r, t, k) =
          IF r.stop \/ r.state # "EXCLUSIVE2" THEN r ELSE IF RtAlone(s) THEN x ELSE y
    BY DEF RtExclusive2, a, s
  <1> HIDE DEF x, y
  <1> QED BY <1>6, <1>7, <1>8, RtSame

LEMMA RtSharedModified2Prop ==
  ASSUME TablesInv, vc \in [Thread -> Clock], NEW t \in Thread, NEW k \in Kind, NEW r \in RtMeta,
         r.state # "VIRGIN"
  PROVE  RtStage(r, RtSharedModified2(r, t, k), t, k)
  <1> DEFINE a == RtThreads(r, t)
             s == RtLocks(a, t, k)
             f == RtFresh(s, t, k)
             x == [f EXCEPT !.state = "EXCLUSIVE2"]
             y == [s EXCEPT !.state = "RACY"]
  <1>1. a \in RtMeta /\ Kept(a, r, t) /\ a.racy = r.racy /\ a.state = r.state
        /\ a.rd = r.rd /\ a.wr = r.wr /\ Purged(a, t)
    BY RtThreadsProp
  <1>2. s \in RtMeta /\ s.threads = a.threads /\ s.racy = a.racy /\ s.state = a.state
        /\ \A l \in Covering(t, k) : l \in a.rd \cup a.wr =>
             l \in s.rd \cup s.wr /\ (k = "W" => l \in s.wr)
    BY <1>1, RtLocksProp
  <1>3. f \in RtMeta /\ f.threads = s.threads /\ f.racy = s.racy
        /\ \A l \in Covering(t, k) : l \in f.rd \cup f.wr
    BY <1>2, RtFreshProp
  <1>9. k = "R" \/ k = "W" BY DEF Kind
  <1> HIDE DEF a, s, f
  <1>4. x \in RtMeta /\ x.threads = f.threads /\ x.racy = f.racy /\ x.rd = f.rd /\ x.wr = f.wr
        /\ x.state = "EXCLUSIVE2"
    BY <1>3 DEF RtMeta, RtState
  <1>5. y \in RtMeta /\ y.threads = s.threads /\ y.racy = s.racy /\ y.rd = s.rd /\ y.wr = s.wr
        /\ y.state = "RACY"
    BY <1>2 DEF RtMeta, RtState
  <1>6. RtStage(r, x, t, k) BY <1>1, <1>2, <1>3, <1>4 DEF RtStage, Kept, RtCovered
  <1>7. s.wr = {} /\ (k = "R" => s.rd = {}) => RtStage(r, y, t, k)
    <2> SUFFICES ASSUME s.wr = {}, k = "R" => s.rd = {} PROVE RtStage(r, y, t, k)
      OBVIOUS
    <2>1. \A l \in Covering(t, k) : l \notin r.rd \cup r.wr BY <1>1, <1>2, <1>9
    <2> QED BY <1>1, <1>2, <1>5, <2>1 DEF RtStage, Kept, RtCovered, Purged
  <1>8. RtStage(r, s, t, k) BY <1>1, <1>2 DEF RtStage, Kept, RtCovered
  <1>10. RtSharedModified2(r, t, k) =
           IF r.stop \/ r.state # "SHARED_MODIFIED2" THEN r
           ELSE IF RtAlone(s) THEN x
           ELSE IF s.wr = {} /\ (k = "R" => s.rd = {}) THEN y ELSE s
    BY DEF RtSharedModified2, a, s, f
  <1> HIDE DEF x, y
  <1> QED BY <1>1, <1>2, <1>4, <1>6, <1>7, <1>8, <1>10, RtSame

\* Stages follow each other.
LEMMA RtStages ==
  ASSUME NEW t \in Thread, NEW k \in Kind, NEW r \in RtMeta, NEW s, NEW m,
         RtStage(r, s, t, k), RtStage(s, m, t, k)
  PROVE  RtStage(r, m, t, k)
  BY DEF RtStage, Kept, Purged
LEMMA RtMovedProp ==
  ASSUME TablesInv, vc \in [Thread -> Clock], NEW t \in Thread, NEW k \in Kind, NEW r \in RtMeta
  PROVE  RtStage(r, RtMoved(r, t, k), t, k) /\ RtMoved(r, t, k).state # "VIRGIN"
  <1> DEFINE a == RtVirgin(r, t, k)
             b == RtExclusive1(a, t, k)
             c == RtReadShared(b, t, k)
             d == RtSharedModified1(c, t, k)
             e == RtExclusive2(d, t, k)
             m == RtSharedModified2(e, t, k)
  <1>1. RtStage(r, a, t, k) /\ a.state # "VIRGIN" BY RtVirginProp
  <1>2. RtStage(a, b, t, k) BY <1>1, RtExclusive1Prop DEF RtStage
  <1>3. RtStage(b, c, t, k) BY <1>2, RtReadSharedProp DEF RtStage
  <1>4. RtStage(c, d, t, k) BY <1>3, RtSharedModified1Prop DEF RtStage
  <1>5. RtStage(d, e, t, k) BY <1>4, RtExclusive2Prop DEF RtStage
  <1>6. a \in RtMeta /\ b \in RtMeta /\ c \in RtMeta /\ d \in RtMeta /\ e \in RtMeta
        /\ e.state # "VIRGIN"
    BY <1>1, <1>2, <1>3, <1>4, <1>5 DEF RtStage
  <1>7. RtStage(e, m, t, k) BY <1>6, RtSharedModified2Prop
  <1>8. RtMoved(r, t, k) = m BY DEF RtMoved
  <1>9. RtStage(r, m, t, k)
    <2> HIDE DEF a, b, c, d, e, m
    <2>1. RtStage(r, b, t, k) BY <1>1, <1>2, RtStages
    <2>2. RtStage(r, c, t, k) BY <1>3, <2>1, RtStages
    <2>3. RtStage(r, d, t, k) BY <1>4, <2>2, RtStages
    <2>4. RtStage(r, e, t, k) BY <1>5, <2>3, RtStages
    <2> QED BY <1>7, <2>4, RtStages
  <1> HIDE DEF e, m
  <1> QED BY <1>6, <1>7, <1>8, <1>9 DEF RtStage

LEMMA RtAfterProp ==
  ASSUME TablesInv, vc \in [Thread -> Clock], NEW t \in Thread, NEW k \in Kind, rt \in RtMeta,
         rt.racy <=> rt.state = "RACY"
  PROVE  LET r == RtAfter(t, k) IN
         /\ r \in RtMeta /\ (r.racy <=> r.state = "RACY") /\ Kept(r, rt, t)
         /\ r.racy /\ ~rt.racy => Purged(r, t)
         /\ r.state # "VIRGIN"
         /\ \A l \in Covering(t, k) : RtCovered(rt, l) => RtCovered(r, l)
  <1> DEFINE m == RtMoved(rt, t, k)
             s == [m EXCEPT !.stop = FALSE, !.racy = (m.state = "RACY")]
  <1>1. RtStage(rt, m, t, k) /\ m.state # "VIRGIN" BY RtMovedProp
  <1>2. RtAfter(t, k) = IF rt.racy THEN rt ELSE ErSeen(s, t, k) BY DEF RtAfter
  <1> HIDE DEF m
  <1>3. m \in RtMeta BY <1>1 DEF RtStage
  <1>4. /\ s \in RtMeta /\ s.racy = (m.state = "RACY") /\ s.state = m.state /\ s.threads = m.threads
        /\ s.rd = m.rd /\ s.wr = m.wr
    BY <1>3 DEF RtMeta
  <1> HIDE DEF s
  <1>5. LET e == ErSeen(s, t, k) IN
        /\ e \in RtMeta /\ e.racy = s.racy /\ e.state = s.state /\ e.threads = s.threads
        /\ e.rd = s.rd /\ e.wr = s.wr
    BY <1>4 DEF ErSeen, RtMeta
  <1>6. CASE rt.racy BY <1>2, <1>6 DEF Kept
  <1>7. CASE ~rt.racy
    <2> DEFINE e == ErSeen(s, t, k)
    <2>1. RtAfter(t, k) = e BY <1>2, <1>7
    <2>2. /\ e \in RtMeta /\ (e.racy <=> e.state = "RACY") /\ e.state = m.state
          /\ e.threads = m.threads /\ e.rd = m.rd /\ e.wr = m.wr
      BY <1>4, <1>5
    <2> HIDE DEF e
    <2>3. Kept(e, rt, t) BY <1>1, <2>2 DEF RtStage, Kept
    <2>4. e.racy => Purged(e, t) BY <1>1, <1>7, <2>2 DEF RtStage, Purged
    <2>5. \A l \in Covering(t, k) : RtCovered(rt, l) => RtCovered(e, l)
      BY <1>1, <2>2 DEF RtStage, RtCovered
    <2> QED BY <1>1, <2>1, <2>2, <2>3, <2>4, <2>5
  <1> QED BY <1>6, <1>7
-----------------------------------------------------------------------------
(* Helgrind+'s operators. *)

\* Lock l has been held at all accesses, as far as h shows.
HgCovered(h, l) ==
  h.state # "RACE" /\ (h.state \in {"SHARED_READ", "SHARED_MODIFIED"} => l \in h.locks)

\* A unit that was accessed has a segment.
HgProper(h) ==
  /\ h \in HgMeta
  /\ h.state = "NEW" => h.threads = {}
  /\ h.state # "NEW" => h.thd \in Thread

\* An access makes g of h: the segment's clock stays or is t's, and a race is
\* with a segment that is not ordered before the access.
HgStage(h, g, t, k) ==
  /\ g \in HgMeta /\ g.state # "NEW" /\ g.thd \in Thread
  /\ (h.state # "NEW" /\ g.clock = h.clock) \/ g.clock = vc[t]
  /\ g.state = "RACE" => ~HgOrdered(h, t)
  /\ \A l \in Covering(t, k) : HgCovered(h, l) => HgCovered(g, l)

LEMMA HgSegmentProp ==
  ASSUME vc \in [Thread -> Clock], NEW t \in Thread, NEW k \in Kind, NEW h \in HgMeta
  PROVE  LET g == HgSegment(h, t, k) IN
         /\ g \in HgMeta /\ g.clock = vc[t] /\ g.thd = t
         /\ g.state = h.state /\ g.locks = h.locks /\ g.threads = h.threads
  <1>1. vc[t] \in Clock OBVIOUS
  <1> QED BY <1>1 DEF HgSegment, HgMeta

LEMMA HgLocksProp ==
  ASSUME TablesInv, NEW t \in Thread, NEW k \in Kind
  PROVE  /\ HgLocks(t, k) \in SUBSET Lock
         /\ \A l \in Covering(t, k) : l \in rls[t] /\ l \in HgLocks(t, k)
  BY TableLocks DEF HgLocks, Kind

LEMMA HgFromExclusiveProp ==
  ASSUME TablesInv, vc \in [Thread -> Clock], NEW t \in Thread, NEW k \in Kind, NEW h \in HgMeta,
         h.state \in {"EXCLUSIVE_READ", "EXCLUSIVE_WRITE"}, h.thd \in Thread
  PROVE  HgStage(h, HgFromExclusive(h, t, k), t, k)
  <1> DEFINE L == HgLocks(t, k)
             g == HgSegment(h, t, k)
             n == (IF k = "R" THEN h.locks ELSE {}) \cup L
             reads == h.state = "EXCLUSIVE_READ" /\ k = "R"
             x == [g EXCEPT !.state = HgExclusive(k)]
             y == [h EXCEPT !.state = "SHARED_READ", !.threads = {h.thd, t}, !.locks = @ \cup rls[t]]
             z == [h EXCEPT !.state = "RACE"]
             w == [g EXCEPT !.state = "SHARED_MODIFIED", !.threads = {t}, !.locks = n]
  <1>1. /\ L \in SUBSET Lock /\ rls[t] \in SUBSET Lock
        /\ \A l \in Covering(t, k) : l \in rls[t] /\ l \in L
    BY TableLocks, HgLocksProp
  <1>2. /\ g \in HgMeta /\ g.clock = vc[t] /\ g.thd = t
        /\ g.state = h.state /\ g.locks = h.locks
    BY HgSegmentProp
  <1>3. n \in SUBSET Lock /\ L \subseteq n BY <1>1 DEF HgMeta
  <1>4. HgFromExclusive(h, t, k) =
          CASE HgOrdered(h, t) /\ (h.thd # t \/ reads) -> x
            [] HgOrdered(h, t) /\ h.thd = t /\ ~reads -> h
            [] ~HgOrdered(h, t) /\ reads -> IF h.thd = t THEN h ELSE y
            [] ~HgOrdered(h, t) /\ ~reads -> IF L = {} THEN z ELSE w
    BY <1>2 DEF HgFromExclusive
  <1>5. HgExclusive(k) \in {"EXCLUSIVE_READ", "EXCLUSIVE_WRITE"} BY DEF HgExclusive
  <1> HIDE DEF L, g, n, reads
  <1>6. x \in HgMeta /\ x.state \in {"EXCLUSIVE_READ", "EXCLUSIVE_WRITE"} /\ x.thd = t
        /\ x.clock = vc[t]
    BY <1>2, <1>5 DEF HgMeta, HgState
  <1>7. y \in HgMeta /\ y.state = "SHARED_READ" /\ y.thd = h.thd /\ y.clock = h.clock
        /\ rls[t] \subseteq y.locks
    BY <1>1 DEF HgMeta, HgState
  <1>8. z \in HgMeta /\ z.state = "RACE" /\ z.thd = h.thd /\ z.clock = h.clock
    BY DEF HgMeta, HgState
  <1>9. w \in HgMeta /\ w.state = "SHARED_MODIFIED" /\ w.thd = t /\ w.clock = vc[t]
        /\ w.locks = n
    BY <1>2, <1>3 DEF HgMeta, HgState
  <1> HIDE DEF x, y, z, w
  <1>10. HgStage(h, x, t, k) /\ HgStage(h, h, t, k) BY <1>6 DEF HgStage, HgCovered
  <1>11. HgStage(h, y, t, k) BY <1>1, <1>7 DEF HgStage, HgCovered
  <1>12. ~HgOrdered(h, t) /\ L = {} => HgStage(h, z, t, k) BY <1>1, <1>8 DEF HgStage, HgCovered
  <1>13. HgStage(h, w, t, k) BY <1>1, <1>3, <1>9 DEF HgStage, HgCovered
  <1>14. \/ HgFromExclusive(h, t, k) \in {x, h, y, w}
         \/ ~HgOrdered(h, t) /\ L = {} /\ HgFromExclusive(h, t, k) = z
    BY <1>4
  <1> QED BY <1>10, <1>11, <1>12, <1>13, <1>14

\* The lock set refined by the locks of the access.
LEMMA HgRefineProp ==
  ASSUME TablesInv, NEW t \in Thread, NEW k \in Kind, NEW h \in HgMeta
  PROVE  LET s == [h EXCEPT !.locks = @ \cap HgLocks(t, k)] IN
         /\ s \in HgMeta /\ s.state = h.state /\ s.clock = h.clock /\ s.thd = h.thd
         /\ s.threads = h.threads
         /\ \A l \in Covering(t, k) : l \in h.locks => l \in s.locks
  BY HgLocksProp DEF HgMeta

LEMMA HgFromSharedReadProp ==
  ASSUME TablesInv, vc \in [Thread -> Clock], NEW t \in Thread, NEW k \in Kind, NEW h \in HgMeta,
         h.state = "SHARED_READ", h.thd \in Thread
  PROVE  HgStage(h, HgFromSharedRead(h, t, k), t, k)
  <1> DEFINE s == [h EXCEPT !.locks = @ \cap HgLocks(t, k)]
             x == [s EXCEPT !.threads = @ \cup {t}]
             y == [s EXCEPT !.state = "SHARED_MODIFIED"]
             z == [s EXCEPT !.state = "RACE"]
  <1>1. /\ s \in HgMeta /\ s.state = h.state /\ s.clock = h.clock /\ s.thd = h.thd
        /\ \A l \in Covering(t, k) : l \in h.locks => l \in s.locks
    BY HgRefineProp
  <1>2. HgOrdered(s, t) = HgOrdered(h, t) BY <1>1 DEF HgOrdered
  <1>3. HgFromSharedRead(h, t, k) =
          CASE k = "R" -> x
            [] k = "W" /\ (s.locks # {} \/ HgOrdered(h, t)) -> y
            [] OTHER -> IF h.thd = t THEN s ELSE z
    BY DEF HgFromSharedRead
  <1> HIDE DEF s
  <1>4. x \in HgMeta /\ x.state = h.state /\ x.clock = h.clock /\ x.thd = h.thd /\ x.locks = s.locks
    BY <1>1 DEF HgMeta
  <1>5. y \in HgMeta /\ y.state = "SHARED_MODIFIED" /\ y.clock = h.clock /\ y.thd = h.thd
        /\ y.locks = s.locks
    BY <1>1 DEF HgMeta, HgState
  <1>6. z \in HgMeta /\ z.state = "RACE" /\ z.clock = h.clock /\ z.thd = h.thd
    BY <1>1 DEF HgMeta, HgState
  <1> HIDE DEF x, y, z
  <1>7. HgStage(h, x, t, k) /\ HgStage(h, y, t, k) /\ HgStage(h, s, t, k)
    BY <1>1, <1>4, <1>5 DEF HgStage, HgCovered
  <1>8. s.locks = {} /\ ~HgOrdered(h, t) => HgStage(h, z, t, k)
    BY <1>1, <1>6 DEF HgStage, HgCovered
  <1>9. \/ HgFromSharedRead(h, t, k) \in {x, y, s}
        \/ s.locks = {} /\ ~HgOrdered(h, t) /\ HgFromSharedRead(h, t, k) = z
    BY <1>3 DEF Kind
  <1> QED BY <1>7, <1>8, <1>9

LEMMA HgFromSharedModifiedProp ==
  ASSUME TablesInv, vc \in [Thread -> Clock], NEW t \in Thread, NEW k \in Kind, NEW h \in HgMeta,
         h.state = "SHARED_MODIFIED", h.thd \in Thread
  PROVE  HgStage(h, HgFromSharedModified(h, t, k), t, k)
  <1> DEFINE s == [h EXCEPT !.locks = @ \cap HgLocks(t, k)]
             g == HgSegment(s, t, k)
             y == [g EXCEPT !.state = HgExclusive(k), !.threads = {}]
             z == [s EXCEPT !.state = "RACE"]
  <1>1. /\ s \in HgMeta /\ s.state = h.state /\ s.clock = h.clock /\ s.thd = h.thd
        /\ \A l \in Covering(t, k) : l \in h.locks => l \in s.locks
    BY HgRefineProp
  <1>2. g \in HgMeta /\ g.clock = vc[t] /\ g.thd = t BY <1>1, HgSegmentProp
  <1>3. HgFromSharedModified(h, t, k) =
          CASE s.locks # {} -> s
            [] s.locks = {} /\ HgOrdered(h, t) -> y
            [] OTHER -> z
    BY DEF HgFromSharedModified
  <1>5. HgExclusive(k) \in {"EXCLUSIVE_READ", "EXCLUSIVE_WRITE"} BY DEF HgExclusive
  <1> HIDE DEF s, g
  <1>6. y \in HgMeta /\ y.state \in {"EXCLUSIVE_READ", "EXCLUSIVE_WRITE"} /\ y.clock = vc[t]
        /\ y.thd = t
    BY <1>2, <1>5 DEF HgMeta, HgState
  <1>7. z \in HgMeta /\ z.state = "RACE" /\ z.clock = h.clock /\ z.thd = h.thd
    BY <1>1 DEF HgMeta, HgState
  <1> HIDE DEF y, z
  <1>8. HgStage(h, y, t, k) /\ HgStage(h, s, t, k) BY <1>1, <1>6 DEF HgStage, HgCovered
  <1>9. s.locks = {} /\ ~HgOrdered(h, t) => HgStage(h, z, t, k)
    BY <1>1, <1>7 DEF HgStage, HgCovered
  <1>10. \/ HgFromSharedModified(h, t, k) \in {y, s}
         \/ s.locks = {} /\ ~HgOrdered(h, t) /\ HgFromSharedModified(h, t, k) = z
    BY <1>3
  <1> QED BY <1>8, <1>9, <1>10

LEMMA HgAfterProp ==
  ASSUME TablesInv, vc \in [Thread -> Clock], NEW t \in Thread, NEW k \in Kind, HgProper(hg)
  PROVE  LET g == HgAfter(t, k) IN
         /\ HgProper(g) /\ g.state # "NEW"
         /\ (hg.state # "NEW" /\ g.clock = hg.clock) \/ g.clock = vc[t]
         /\ g.state = "RACE" /\ hg.state # "RACE" => hg.state # "NEW" /\ ~HgOrdered(hg, t)
         /\ \A l \in Covering(t, k) : HgCovered(hg, l) => HgCovered(g, l)
  <1> DEFINE h == [hg EXCEPT !.lastop[t] = k]
  <1>1. /\ h \in HgMeta /\ h.state = hg.state /\ h.clock = hg.clock /\ h.thd = hg.thd
        /\ h.locks = hg.locks /\ h.threads = hg.threads
    BY DEF HgProper, HgMeta
  <1>2. HgOrdered(h, t) = HgOrdered(hg, t) /\ \A l : HgCovered(h, l) = HgCovered(hg, l)
    BY <1>1 DEF HgOrdered, HgCovered
  <1>3. hg.state \in HgState /\ (hg.state # "NEW" => h.thd \in Thread)
    BY <1>1 DEF HgProper, HgMeta
  <1>4. HgAfter(t, k) =
          CASE hg.state = "NEW" -> [HgSegment(h, t, k) EXCEPT !.state = HgExclusive(k)]
            [] hg.state \in {"EXCLUSIVE_READ", "EXCLUSIVE_WRITE"} -> HgFromExclusive(h, t, k)
            [] hg.state = "SHARED_READ" -> HgFromSharedRead(h, t, k)
            [] hg.state = "SHARED_MODIFIED" -> HgFromSharedModified(h, t, k)
            [] hg.state = "RACE" -> hg
    BY DEF HgAfter
  <1> HIDE DEF h
  <1>5. CASE hg.state = "NEW"
    <2> DEFINE s == HgSegment(h, t, k)
               g == [s EXCEPT !.state = HgExclusive(k)]
    <2>1. s \in HgMeta /\ s.clock = vc[t] /\ s.thd = t BY <1>1, HgSegmentProp
    <2>2. HgExclusive(k) \in {"EXCLUSIVE_READ", "EXCLUSIVE_WRITE"} BY DEF HgExclusive
    <2>3. HgAfter(t, k) = g BY <1>4, <1>5
    <2> HIDE DEF s
    <2>4. g \in HgMeta /\ g.state \in {"EXCLUSIVE_READ", "EXCLUSIVE_WRITE"} /\ g.clock = vc[t]
          /\ g.thd = t
      BY <2>1, <2>2 DEF HgMeta, HgState
    <2> HIDE DEF g
    <2> QED BY <2>3, <2>4 DEF HgProper, HgCovered
  <1>6. CASE hg.state = "RACE" BY <1>4, <1>6 DEF HgProper, HgCovered
  <1>7. ASSUME HgStage(h, HgAfter(t, k), t, k), hg.state \notin {"NEW", "RACE"}
        PROVE  LET g == HgAfter(t, k) IN
               /\ HgProper(g) /\ g.state # "NEW"
               /\ (hg.state # "NEW" /\ g.clock = hg.clock) \/ g.clock = vc[t]
               /\ g.state = "RACE" /\ hg.state # "RACE" => hg.state # "NEW" /\ ~HgOrdered(hg, t)
               /\ \A l \in Covering(t, k) : HgCovered(hg, l) => HgCovered(g, l)
    BY <1>1, <1>2, <1>7 DEF HgStage, HgProper
  <1>8. CASE hg.state \in {"EXCLUSIVE_READ", "EXCLUSIVE_WRITE"}
    <2>1. HgAfter(t, k) = HgFromExclusive(h, t, k) BY <1>4, <1>8
    <2> QED BY <1>1, <1>3, <1>7, <1>8, <2>1, HgFromExclusiveProp
  <1>9. CASE hg.state = "SHARED_READ"
    <2>1. HgAfter(t, k) = HgFromSharedRead(h, t, k) BY <1>4, <1>9
    <2> QED BY <1>1, <1>3, <1>7, <1>9, <2>1, HgFromSharedReadProp
  <1>10. CASE hg.state = "SHARED_MODIFIED"
    <2>1. HgAfter(t, k) = HgFromSharedModified(h, t, k) BY <1>4, <1>10
    <2> QED BY <1>1, <1>3, <1>7, <1>10, <2>1, HgFromSharedModifiedProp
  <1> QED BY <1>3, <1>5, <1>6, <1>8, <1>9, <1>10 DEF HgState

\* The unit after a join: the segment's clock stays.
LEMMA HgJoinedProp ==
  ASSUME HgProper(hg), NEW c \in Thread
  PROVE  LET g == HgJoined(c) IN
         /\ HgProper(g) /\ g.clock = hg.clock
         /\ hg.state = "NEW" => g.state = "NEW"
         /\ \A l : HgCovered(hg, l) => HgCovered(g, l)
  <1> DEFINE h == [hg EXCEPT !.threads = @ \ {c}, !.lastop[c] = NoArg]
             last == CHOOSE u \in h.threads : TRUE
             o == h.lastop[last]
             g == [h EXCEPT !.state = HgExclusive(o), !.threads = {}, !.locks = {},
                            !.thd = last, !.kind = o]
  <1>1. /\ h \in HgMeta /\ h.state = hg.state /\ h.clock = hg.clock /\ h.thd = hg.thd
        /\ h.locks = hg.locks /\ h.threads = hg.threads \ {c}
    BY DEF HgProper, HgMeta
  <1>2. HgJoined(c) = IF Cardinality(h.threads) # 1 \/ o = NoArg THEN h ELSE g BY DEF HgJoined
  <1>3. HgProper(h) /\ (\A l : HgCovered(hg, l) => HgCovered(h, l))
    BY <1>1 DEF HgProper, HgCovered
  <1>4. ASSUME Cardinality(h.threads) = 1, o # NoArg
        PROVE  /\ HgProper(g) /\ g.clock = h.clock /\ hg.state # "NEW"
               /\ \A l : HgCovered(g, l)
    <2>1. h.threads # {} BY <1>4, FS_EmptySet
    <2>2. last \in h.threads BY <2>1
    <2>3. last \in Thread /\ o \in Kind /\ hg.state # "NEW"
      BY <1>1, <1>4, <2>2 DEF HgProper, HgMeta
    <2>4. HgExclusive(o) \in {"EXCLUSIVE_READ", "EXCLUSIVE_WRITE"} BY DEF HgExclusive
    <2> HIDE DEF h, last, o
    <2>5. g \in HgMeta /\ g.state = HgExclusive(o) /\ g.thd = last /\ g.clock = h.clock
      BY <1>1, <2>3, <2>4 DEF HgMeta, HgState
    <2> HIDE DEF g
    <2> QED BY <2>3, <2>4, <2>5 DEF HgProper, HgCovered
  <1> HIDE DEF h, g, o
  <1> QED BY <1>1, <1>2, <1>3, <1>4
-----------------------------------------------------------------------------
(* AccuLock's operators. *)

\* Lock l has been held at all accesses, as far as m shows.
AccuCovered(m, l) ==
  /\ m.thd # NoThread => l \in m.locks
  /\ \A u \in Thread : m.reads[u].clk > 0 => l \in m.reads[u].locks

LEMMA AccuAfterProp ==
  ASSUME TablesInv, AccessTypes, NEW t \in Thread, NEW k \in Kind, accu \in AccuMeta
  PROVE  LET m == AccuAfter(t, k) IN
         /\ m \in AccuMeta
         /\ \/ m.thd = accu.thd /\ m.clk = accu.clk
            \/ k = "W" /\ m.thd = t /\ m.clk = accuVc[t][t]
         /\ \A u \in Thread : \/ m.reads[u].clk = 0 \/ m.reads[u].clk = accu.reads[u].clk
                              \/ k = "R" /\ u = t /\ m.reads[u].clk = accuVc[t][t]
         /\ \A l \in Covering(t, k) : AccuCovered(accu, l) => AccuCovered(m, l)
  <1> DEFINE n == AccuNow(t)
             d == [clk |-> n, locks |-> AccuReadLocks(t)]
             x == [accu EXCEPT !.reads[t] = d]
             none == [u \in Thread |-> [clk |-> 0, locks |-> {}]]
             y == [thd |-> t, clk |-> n, locks |-> AccuWriteLocks(t), reads |-> none]
  <1>1. n \in Nat /\ n = accuVc[t][t]
    <2>1. accuVc[t] \in Clock BY DEF AccessTypes
    <2> QED BY <2>1 DEF AccuNow, Clock
  <1>2. ls[t] \in SUBSET Lock /\ rdls[t] \in SUBSET Lock /\ (ls[t] # {} => t \in locked)
    BY TableLocks
  <1>3. /\ accu.locks \in SUBSET Lock /\ accu.reads \in [Thread -> ClockSet]
        /\ accu.reads[t].locks \in SUBSET Lock
    BY DEF AccuMeta, ClockSet
  <1>4. AccuReadLocks(t) \in SUBSET Lock /\ AccuWriteLocks(t) \in SUBSET Lock
    BY <1>2, <1>3 DEF AccuReadLocks, AccuWriteLocks
  <1>5. AccuAfter(t, k) = CASE k = "R" /\ ~AccuSeenRead(t) -> x
                            [] k = "W" /\ ~AccuSeenWrite(t) -> y
                            [] OTHER -> accu
    BY DEF AccuAfter
  <1>6. \A l \in Covering(t, k) : k = "R" => l \in AccuReadLocks(t)
    <2>1. \A l \in Covering(t, "R") : l \in ls[t] \cup rdls[t] BY TableLocks DEF Kind, Protecting
    <2> QED BY <1>2, <2>1 DEF AccuReadLocks
  <1>7. \A l \in Covering(t, k) : k = "W" /\ AccuCovered(accu, l) => l \in AccuWriteLocks(t)
    <2>1. \A l \in Covering(t, "W") : l \in ls[t] BY TableLocks DEF Kind, Protecting
    <2>2. AccuWriterAhead(t) => accu.thd # NoThread BY NullAssumption DEF AccuWriterAhead
    <2> QED BY <1>2, <2>1, <2>2 DEF AccuWriteLocks, AccuCovered
  <1>8. d \in ClockSet BY <1>1, <1>4 DEF ClockSet
  <1>9. none \in [Thread -> ClockSet] /\ \A u \in Thread : none[u].clk = 0 BY DEF ClockSet
  <1>10. d.clk = n /\ d.locks = AccuReadLocks(t) OBVIOUS
  <1>20. y \in AccuMeta /\ y.thd = t /\ y.clk = n /\ y.locks = AccuWriteLocks(t) /\ y.reads = none
    <2> HIDE DEF n, none
    <2> QED BY <1>1, <1>4, <1>9 DEF AccuMeta
  <1> HIDE DEF n, d, none, y
  <1>11. /\ x \in AccuMeta /\ x.thd = accu.thd /\ x.clk = accu.clk /\ x.locks = accu.locks
         /\ x.reads = [accu.reads EXCEPT ![t] = d]
    BY <1>3, <1>8 DEF AccuMeta
  <1> HIDE DEF x
  <1>12. x.reads[t] = d /\ \A u \in Thread \ {t} : x.reads[u] = accu.reads[u] BY <1>3, <1>11
  <1>13. \A l \in Covering(t, k) : k = "R" /\ AccuCovered(accu, l) => AccuCovered(x, l)
    BY <1>6, <1>10, <1>11, <1>12 DEF AccuCovered
  <1>14. \A l \in Covering(t, k) : k = "W" /\ AccuCovered(accu, l) => AccuCovered(y, l)
    BY <1>7, <1>9, <1>20 DEF AccuCovered
  <1>15. CASE AccuAfter(t, k) = accu BY <1>15
  <1>16. CASE AccuAfter(t, k) = x /\ k = "R"
    BY <1>1, <1>10, <1>11, <1>12, <1>13, <1>16
  <1>17. CASE AccuAfter(t, k) = y /\ k = "W" BY <1>1, <1>9, <1>14, <1>16, <1>17, <1>20
  <1> QED BY <1>5, <1>15, <1>16, <1>17

\* AccuLock reports what it takes to be concurrent and to share no lock.
LEMMA AccuReportsProp ==
  ASSUME TablesInv, AccessTypes, NEW t \in Thread, NEW k \in Kind, accu \in AccuMeta,
         NEW r \in AccuReports(t, k)
  PROVE  \E u \in Thread \ {t}, j \in Kind :
           /\ r = <<u, j, t, k>> /\ (k = "R" => j = "W")
           /\ j = "W" => accu.thd = u /\ accu.clk > accuVc[t][u]
           /\ j = "R" => accu.reads[u].clk > accuVc[t][u]
           /\ \A l \in Covering(t, k) : ~AccuCovered(accu, l)
  <1>1. "R" \in Kind /\ "W" \in Kind BY DEF Kind
  <1>2. \A u \in Thread : accuVc[t][u] \in Nat /\ accu.reads[u].clk \in Nat
    <2>1. accuVc[t] \in Clock /\ accu.reads \in [Thread -> ClockSet] BY DEF AccessTypes, AccuMeta
    <2> QED BY <2>1 DEF Clock, ClockSet
  <1>3. \A l \in Covering(t, k) : k = "R" => l \in AccuReadLocks(t)
    <2>1. \A l \in Covering(t, "R") : l \in ls[t] \cup rdls[t] BY TableLocks DEF Kind, Protecting
    <2> QED BY <2>1, TableLocks DEF AccuReadLocks
  <1>4. \A l \in Covering(t, k) : k = "W" => l \in ls[t] BY TableLocks DEF Kind, Protecting
  <1>5. AccuWriterAhead(t) => /\ accu.thd \in Thread \ {t} /\ accu.clk > accuVc[t][accu.thd]
                              /\ accu.thd # NoThread
    BY NullAssumption DEF AccuWriterAhead
  <1>6. CASE k = "R"
    <2>1. AccuWriterAhead(t) /\ Disjoint(accu.locks, AccuReadLocks(t)) /\ r = <<accu.thd, "W", t, "R">>
      BY <1>6 DEF AccuReports
    <2>2. \A l \in Covering(t, k) : ~AccuCovered(accu, l)
      BY <1>3, <1>5, <1>6, <2>1 DEF Disjoint, AccuCovered
    <2> QED BY <1>1, <1>5, <1>6, <2>1, <2>2
  <1>7. CASE k = "W"
    <2>1. \/ AccuWriterAhead(t) /\ AccuWriteLocks(t) = {} /\ r = <<accu.thd, "W", t, "W">>
          \/ \E u \in Thread \ {t} : /\ accu.reads[u].clk > accuVc[t][u]
                                     /\ Disjoint(accu.reads[u].locks, ls[t])
                                     /\ r = <<u, "R", t, "W">>
      BY <1>7 DEF AccuReports, RacesWith
    <2>2. CASE AccuWriterAhead(t) /\ AccuWriteLocks(t) = {} /\ r = <<accu.thd, "W", t, "W">>
      <3>1. \A l \in Covering(t, k) : ~AccuCovered(accu, l)
        BY <1>4, <1>5, <1>7, <2>2 DEF AccuWriteLocks, AccuCovered
      <3> QED BY <1>1, <1>5, <1>7, <2>2, <3>1
    <2>3. ASSUME NEW u \in Thread \ {t}, accu.reads[u].clk > accuVc[t][u],
                 Disjoint(accu.reads[u].locks, ls[t]), r = <<u, "R", t, "W">>
          PROVE  \A l \in Covering(t, k) : ~AccuCovered(accu, l)
      <3>1. accu.reads[u].clk > 0 BY <1>2, <2>3
      <3> QED BY <1>4, <1>7, <2>3, <3>1 DEF Disjoint, AccuCovered
    <2> QED BY <1>1, <1>7, <2>1, <2>2, <2>3
  <1> QED BY <1>6, <1>7 DEF Kind
-----------------------------------------------------------------------------
(* SimpleLock's list. *)

\* What list keeps of the accesses of S: for each of the last epochs, whether
\* one of its accesses was made without a lock.
Listed(list, S) ==
  /\ \A i, j \in 1..Len(list) : i < j => list[i].clk < list[j].clk
  /\ \A i \in 1..Len(list) : \E a \in S : a.clk = list[i].clk
  /\ \A i \in 1..Len(list) :
       list[i].cnt = 0 <=> \E a \in S : a.clk = list[i].clk /\ a.wr \cup a.rd = {}
  /\ \A a \in S : \/ \E i \in 1..Len(list) : list[i].clk = a.clk
                  \/ Len(list) = MaxListLen /\ a.clk < list[1].clk

\* The three things SlNoted does.
LEMMA SlNotedCases ==
  ASSUME NEW list \in Seq(ClockCnt), Len(list) <= MaxListLen, NEW t \in Thread,
         Now(t) \in Nat, lc[t] \in Nat
  PROVE  LET n == SlNoted(list, t)
             new == [clk |-> Now(t), cnt |-> lc[t]] IN
         /\ n \in Seq(ClockCnt) /\ Len(n) <= MaxListLen /\ Len(n) > 0
         /\ n[Len(n)].clk = Now(t)
         /\ \/ /\ Len(list) > 0 /\ list[Len(list)].clk = Now(t) /\ Len(n) = Len(list)
               /\ \A i \in 1..Len(n) : i # Len(n) => n[i] = list[i]
               /\ n[Len(n)].cnt = 0 <=> list[Len(list)].cnt = 0 \/ lc[t] = 0
            \/ /\ Len(list) > 0 => list[Len(list)].clk # Now(t)
               /\ Len(n) = Len(list) + 1
               /\ \A i \in 1..Len(list) : n[i] = list[i]
               /\ n[Len(n)] = new
            \/ /\ Len(list) > 0 /\ list[Len(list)].clk # Now(t)
               /\ Len(list) = MaxListLen /\ Len(n) = Len(list)
               /\ \A i \in 1..Len(n) : i # Len(n) => n[i] = list[i + 1]
               /\ n[Len(n)] = new
  <1> DEFINE n == SlNoted(list, t)
             new == [clk |-> Now(t), cnt |-> lc[t]]
             long == Append(list, new)
             x == [list EXCEPT ![Len(list)] = new]
             Good == /\ n \in Seq(ClockCnt) /\ Len(n) <= MaxListLen /\ Len(n) > 0
                     /\ n[Len(n)].clk = Now(t)
             Lower == /\ Len(list) > 0 /\ list[Len(list)].clk = Now(t) /\ Len(n) = Len(list)
                      /\ \A i \in 1..Len(n) : i # Len(n) => n[i] = list[i]
                      /\ n[Len(n)].cnt = 0 <=> list[Len(list)].cnt = 0 \/ lc[t] = 0
             Longer == /\ Len(list) > 0 => list[Len(list)].clk # Now(t)
                       /\ Len(n) = Len(list) + 1
                       /\ \A i \in 1..Len(list) : n[i] = list[i]
                       /\ n[Len(n)] = new
             Shifted == /\ Len(list) > 0 /\ list[Len(list)].clk # Now(t)
                        /\ Len(list) = MaxListLen /\ Len(n) = Len(list)
                        /\ \A i \in 1..Len(n) : i # Len(n) => n[i] = list[i + 1]
                        /\ n[Len(n)] = new
  <1>1. new \in ClockCnt /\ new.clk = Now(t) /\ new.cnt = lc[t] BY DEF ClockCnt
  <1>2. n = IF list # << >> /\ list[Len(list)].clk = Now(t)
            THEN IF list[Len(list)].cnt > lc[t] THEN x ELSE list
            ELSE IF Len(long) > MaxListLen THEN Tail(long) ELSE long
    BY DEF SlNoted
  <1>3. MaxListLen \in Nat \ {0} /\ Len(list) \in Nat BY ListAssumption
  <1>4. list # << >> <=> Len(list) > 0 BY <1>3
  <1> SUFFICES Good /\ (Lower \/ Longer \/ Shifted) OBVIOUS
  <1> HIDE DEF n, new
  <1>5. /\ long \in Seq(ClockCnt) /\ Len(long) = Len(list) + 1 /\ long[Len(list) + 1] = new
        /\ \A i \in 1..Len(list) : long[i] = list[i]
    BY <1>1
  <1> HIDE DEF long
  <1>6. /\ Tail(long) \in Seq(ClockCnt) /\ Len(Tail(long)) = Len(list)
        /\ \A i \in 1..Len(list) : Tail(long)[i] = long[i + 1]
    BY <1>3, <1>5
  <1>7. CASE Len(list) > 0 /\ list[Len(list)].clk = Now(t)
    <2>1. Len(list) \in 1..Len(list) BY <1>3, <1>7
    <2>2. /\ x \in Seq(ClockCnt) /\ Len(x) = Len(list) /\ x[Len(list)] = new
          /\ \A i \in 1..Len(list) : i # Len(list) => x[i] = list[i]
      BY <1>1, <2>1
    <2>3. list[Len(list)] \in ClockCnt BY <2>1
    <2>4. list[Len(list)].cnt \in Nat BY <2>3 DEF ClockCnt
    <2>5. n = IF list[Len(list)].cnt > lc[t] THEN x ELSE list BY <1>2, <1>4, <1>7
    <2> HIDE DEF x
    <2>6. CASE list[Len(list)].cnt > lc[t]
      <3>1. n = x BY <2>5, <2>6
      <3>2. n[Len(n)].cnt = lc[t] /\ n[Len(n)].clk = Now(t) BY <1>1, <2>2, <3>1
      <3>3. list[Len(list)].cnt # 0 BY <2>4, <2>6
      <3>4. Good BY <1>3, <1>7, <2>2, <3>1, <3>2
      <3>5. \A i \in 1..Len(n) : i # Len(n) => n[i] = list[i] BY <2>2, <3>1
      <3>6. Lower BY <1>7, <2>2, <3>1, <3>2, <3>3, <3>5
      <3> QED BY <3>4, <3>6
    <2>7. CASE ~(list[Len(list)].cnt > lc[t])
      <3>1. n = list BY <2>5, <2>7
      <3>2. lc[t] = 0 => list[Len(list)].cnt = 0 BY <2>4, <2>7
      <3>3. Good BY <1>3, <1>7, <3>1
      <3>4. Lower BY <1>7, <3>1, <3>2
      <3> QED BY <3>3, <3>4
    <2> QED BY <2>6, <2>7
  <1>8. CASE ~(Len(list) > 0 /\ list[Len(list)].clk = Now(t)) /\ Len(list) < MaxListLen
    <2>1. n = long BY <1>2, <1>3, <1>4, <1>5, <1>8
    <2>2. Good BY <1>1, <1>3, <1>5, <1>8, <2>1
    <2>3. Longer BY <1>5, <1>8, <2>1
    <2> QED BY <2>2, <2>3
  <1>9. CASE ~(Len(list) > 0 /\ list[Len(list)].clk = Now(t)) /\ Len(list) = MaxListLen
    <2>1. n = Tail(long) BY <1>2, <1>3, <1>4, <1>5, <1>9
    <2>2. Len(list) > 0 BY <1>3, <1>9
    <2>3. n[Len(list)] = new BY <1>3, <1>5, <1>6, <2>1, <2>2
    <2>4. \A i \in 1..Len(list) : i # Len(list) => n[i] = list[i + 1]
      <3>1. \A i \in 1..Len(list) : i # Len(list) => i + 1 \in 1..Len(list) BY <1>3
      <3> QED BY <1>5, <1>6, <2>1, <3>1
    <2>5. Len(n) = Len(list) BY <1>6, <2>1
    <2>6. Good BY <1>1, <1>3, <1>6, <1>9, <2>1, <2>2, <2>3, <2>5
    <2>7. Shifted BY <1>9, <2>2, <2>3, <2>4, <2>5
    <2> QED BY <2>6, <2>7
  <1> QED BY <1>3, <1>7, <1>8, <1>9

\* One more access, in the last epoch or a new one.
LEMMA SlNotedListed ==
  ASSUME NEW list \in Seq(ClockCnt), Len(list) <= MaxListLen, NEW t \in Thread,
         Now(t) \in Nat, lc[t] \in Nat, NEW S \in SUBSET Access, Listed(list, S),
         NEW m, m.clk = Now(t), lc[t] = 0 <=> m.wr \cup m.rd = {},
         \A a \in S : a.clk <= Now(t)
  PROVE  Listed(SlNoted(list, t), S \cup {m})
  <1> DEFINE n == SlNoted(list, t)
             new == [clk |-> Now(t), cnt |-> lc[t]]
             T == S \cup {m}
  <1>1. MaxListLen \in Nat \ {0} /\ Len(list) \in Nat BY ListAssumption
  <1>2. \A a \in S : a.clk \in Nat BY DEF Access
  <1>3. \A i \in 1..Len(list) : list[i].clk \in Nat /\ list[i].clk <= Now(t)
    BY <1>2 DEF Listed
  <1>4. \A i \in 1..Len(list) :
          list[Len(list)].clk # Now(t) => list[i].clk < Now(t)
    <2> SUFFICES ASSUME NEW i \in 1..Len(list), list[Len(list)].clk # Now(t)
                 PROVE  list[i].clk < Now(t)
      OBVIOUS
    <2>1. Len(list) \in 1..Len(list) /\ (i = Len(list) \/ i < Len(list)) BY <1>1
    <2>2. list[i].clk <= list[Len(list)].clk BY <1>3, <2>1 DEF Listed
    <2> QED BY <1>3, <2>1, <2>2
  <1>5. new.clk = Now(t) /\ new.cnt = lc[t] OBVIOUS
  <1>6. \A i \in 1..Len(list) :
          /\ \E a \in S : a.clk = list[i].clk
          /\ list[i].cnt = 0 <=> \E a \in S : a.clk = list[i].clk /\ a.wr \cup a.rd = {}
    BY DEF Listed
  <1>7. \A a \in S : \/ \E i \in 1..Len(list) : list[i].clk = a.clk
                     \/ Len(list) = MaxListLen /\ a.clk < list[1].clk
    BY DEF Listed
  <1>8. \A i, j \in 1..Len(list) : i < j => list[i].clk < list[j].clk BY DEF Listed
  <1> HIDE DEF n, new
  <1>9. CASE /\ Len(list) > 0 /\ list[Len(list)].clk = Now(t) /\ Len(n) = Len(list)
             /\ \A i \in 1..Len(n) : i # Len(n) => n[i] = list[i]
             /\ n[Len(n)].cnt = 0 <=> list[Len(list)].cnt = 0 \/ lc[t] = 0
             /\ n[Len(n)].clk = Now(t)
    <2>1. \A i \in 1..Len(n) : n[i].clk = list[i].clk BY <1>9
    <2>2. \A i, j \in 1..Len(n) : i < j => n[i].clk < n[j].clk BY <1>8, <1>9, <2>1
    <2>3. \A i \in 1..Len(n) : \E a \in T : a.clk = n[i].clk BY <1>6, <1>9, <2>1
    <2>4. ASSUME NEW i \in 1..Len(n)
          PROVE  n[i].cnt = 0 <=> \E a \in T : a.clk = n[i].clk /\ a.wr \cup a.rd = {}
      <3>1. CASE i = Len(n)
        <4>1. n[i].clk = Now(t) /\ Len(list) \in 1..Len(list) /\ list[Len(list)].clk = Now(t)
          BY <1>1, <1>9, <3>1
        <4>2. list[Len(list)].cnt = 0 <=> \E a \in S : a.clk = Now(t) /\ a.wr \cup a.rd = {}
          BY <1>6, <4>1
        <4>3. n[i].cnt = 0 <=> list[Len(list)].cnt = 0 \/ lc[t] = 0 BY <1>9, <3>1
        <4> QED BY <4>1, <4>2, <4>3
      <3>2. CASE i # Len(n)
        <4>1. Len(n) \in 1..Len(n) /\ i < Len(n) BY <1>1, <1>9, <3>2
        <4>2. n[i].clk < Now(t) BY <2>2, <1>9, <4>1
        <4>3. n[i] = list[i] /\ n[i].clk # Now(t) BY <1>3, <1>9, <2>1, <3>2, <4>2
        <4> QED BY <1>6, <1>9, <4>3
      <3> QED BY <3>1, <3>2
    <2>5. ASSUME NEW a \in T
          PROVE  \/ \E i \in 1..Len(n) : n[i].clk = a.clk
                 \/ Len(n) = MaxListLen /\ a.clk < n[1].clk
      <3>1. CASE a \in S
        <4>1. 1 \in 1..Len(n) BY <1>1, <1>9
        <4> QED BY <1>7, <1>9, <2>1, <3>1, <4>1
      <3>2. CASE a = m
        <4>1. Len(n) \in 1..Len(n) BY <1>1, <1>9
        <4> QED BY <1>9, <3>2, <4>1
      <3> QED BY <3>1, <3>2
    <2> HIDE DEF T
    <2>6. Listed(n, T) BY <2>2, <2>3, <2>4, <2>5 DEF Listed
    <2> QED BY <2>6 DEF n, T
  <1>10. CASE /\ Len(list) > 0 => list[Len(list)].clk # Now(t)
              /\ Len(n) = Len(list) + 1
              /\ \A i \in 1..Len(list) : n[i] = list[i]
              /\ n[Len(n)] = new
    <2>1. \A i \in 1..Len(n) : i \in 1..Len(list) \/ i = Len(n) BY <1>1, <1>10
    <2>0. \A i \in 1..Len(list) : list[i].clk < Now(t) BY <1>1, <1>4, <1>10
    <2>2. ASSUME NEW i \in 1..Len(n), NEW j \in 1..Len(n), i < j PROVE n[i].clk < n[j].clk
      <3>1. i \in 1..Len(list) BY <1>1, <1>10, <2>2
      <3> QED BY <1>5, <1>8, <1>10, <2>0, <2>1, <2>2, <3>1
    <2>3. \A i \in 1..Len(n) : \E a \in T : a.clk = n[i].clk BY <1>5, <1>6, <1>10, <2>1
    <2>4. ASSUME NEW i \in 1..Len(n)
          PROVE  n[i].cnt = 0 <=> \E a \in T : a.clk = n[i].clk /\ a.wr \cup a.rd = {}
      <3>1. CASE i \in 1..Len(list)
        <4>1. n[i] = list[i] /\ n[i].clk # Now(t) BY <1>3, <1>10, <2>0, <3>1
        <4> QED BY <1>6, <3>1, <4>1
      <3>2. CASE i = Len(n)
        <4>1. \A a \in S : a.clk # Now(t)
          <5> SUFFICES ASSUME NEW a \in S, a.clk = Now(t) PROVE FALSE OBVIOUS
          <5>1. \A j \in 1..Len(list) : list[j].clk # a.clk BY <1>3, <2>0
          <5>2. Len(list) = MaxListLen /\ a.clk < list[1].clk BY <1>7, <5>1
          <5>3. 1 \in 1..Len(list) BY <1>1, <5>2
          <5> QED BY <1>2, <1>3, <5>2, <5>3
        <4> QED BY <1>5, <1>10, <3>2, <4>1
      <3> QED BY <2>1, <3>1, <3>2
    <2>5. ASSUME NEW a \in T
          PROVE  \/ \E i \in 1..Len(n) : n[i].clk = a.clk
                 \/ Len(n) = MaxListLen /\ a.clk < n[1].clk
      <3>1. CASE a \in S
        <4>1. \A i \in 1..Len(list) : i \in 1..Len(n) BY <1>1, <1>10
        <4>2. \E i \in 1..Len(list) : list[i].clk = a.clk
          <5>1. Len(n) <= MaxListLen BY <1>10, SlNotedCases DEF n
          <5> QED BY <1>1, <1>7, <1>10, <3>1, <5>1
        <4> QED BY <1>10, <4>1, <4>2
      <3>2. CASE a = m
        <4>1. Len(n) \in 1..Len(n) BY <1>1, <1>10
        <4> QED BY <1>5, <1>10, <3>2, <4>1
      <3> QED BY <3>1, <3>2
    <2> HIDE DEF T
    <2>6. Listed(n, T) BY <2>2, <2>3, <2>4, <2>5 DEF Listed
    <2> QED BY <2>6 DEF n, T
  <1>11. CASE /\ Len(list) > 0 /\ list[Len(list)].clk # Now(t)
              /\ Len(list) = MaxListLen /\ Len(n) = Len(list)
              /\ \A i \in 1..Len(n) : i # Len(n) => n[i] = list[i + 1]
              /\ n[Len(n)] = new
    <2>0. \A i \in 1..Len(list) : list[i].clk < Now(t) BY <1>4, <1>11
    <2>1. \A i \in 1..Len(n) : i # Len(n) => i + 1 \in 1..Len(list) /\ n[i] = list[i + 1]
      BY <1>1, <1>11
    <2>2. ASSUME NEW i \in 1..Len(n), NEW j \in 1..Len(n), i < j PROVE n[i].clk < n[j].clk
      <3>1. i # Len(n) BY <1>1, <1>11, <2>2
      <3>2. CASE j = Len(n) BY <1>5, <1>11, <2>0, <2>1, <3>1, <3>2
      <3>3. CASE j # Len(n)
        <4>1. i + 1 < j + 1 BY <2>2
        <4> QED BY <1>8, <2>1, <3>1, <3>3, <4>1
      <3> QED BY <3>2, <3>3
    <2>3. \A i \in 1..Len(n) : \E a \in T : a.clk = n[i].clk BY <1>5, <1>6, <1>11, <2>1
    <2>4. ASSUME NEW i \in 1..Len(n)
          PROVE  n[i].cnt = 0 <=> \E a \in T : a.clk = n[i].clk /\ a.wr \cup a.rd = {}
      <3>1. CASE i # Len(n)
        <4>1. n[i] = list[i + 1] /\ i + 1 \in 1..Len(list) BY <2>1, <3>1
        <4>2. n[i].clk # Now(t) BY <1>3, <2>0, <4>1
        <4> QED BY <1>6, <4>1, <4>2
      <3>2. CASE i = Len(n)
        <4>1. \A a \in S : a.clk # Now(t)
          <5> SUFFICES ASSUME NEW a \in S, a.clk = Now(t) PROVE FALSE OBVIOUS
          <5>1. \A j \in 1..Len(list) : list[j].clk # a.clk BY <1>3, <2>0
          <5>2. Len(list) = MaxListLen /\ a.clk < list[1].clk BY <1>7, <5>1
          <5>3. 1 \in 1..Len(list) BY <1>1, <5>2
          <5> QED BY <1>2, <1>3, <5>2, <5>3
        <4> QED BY <1>5, <1>11, <3>2, <4>1
      <3> QED BY <3>1, <3>2
    <2>5. ASSUME NEW a \in T
          PROVE  \/ \E i \in 1..Len(n) : n[i].clk = a.clk
                 \/ Len(n) = MaxListLen /\ a.clk < n[1].clk
      <3>0. 1 \in 1..Len(list) /\ Len(n) \in 1..Len(n) BY <1>1, <1>11
      <3>a. list[1].clk < n[1].clk
        <4>1. CASE Len(n) = 1 BY <1>5, <1>11, <2>0, <3>0, <4>1
        <4>2. CASE Len(n) # 1
          <5>1. 1 \in 1..Len(n) /\ n[1] = list[2] /\ 2 \in 1..Len(list) BY <1>1, <1>11, <2>1, <4>2
          <5> QED BY <1>8, <3>0, <5>1
        <4> QED BY <4>1, <4>2
      <3>b. n[1].clk \in Nat BY <1>3, <1>5, <1>11, <2>1, <3>0
      <3>1. CASE a \in S /\ \E i \in 1..Len(list) : list[i].clk = a.clk
        <4>1. PICK i \in 1..Len(list) : list[i].clk = a.clk BY <3>1
        <4>2. CASE i = 1 BY <1>11, <3>a, <4>1, <4>2
        <4>3. CASE i # 1
          <5>1. i - 1 \in 1..Len(n) /\ i - 1 # Len(n) /\ (i - 1) + 1 = i BY <1>1, <1>11, <4>3
          <5>2. n[i - 1] = list[i] BY <1>11, <5>1
          <5> QED BY <4>1, <5>1, <5>2
        <4> QED BY <4>2, <4>3
      <3>2. CASE a \in S /\ Len(list) = MaxListLen /\ a.clk < list[1].clk
        <4>1. a.clk < n[1].clk BY <1>2, <1>3, <3>0, <3>2, <3>a, <3>b
        <4> QED BY <1>11, <4>1
      <3>3. CASE a = m BY <1>5, <1>11, <3>0, <3>3
      <3> QED BY <1>7, <3>1, <3>2, <3>3
    <2> HIDE DEF T
    <2>6. Listed(n, T) BY <2>2, <2>3, <2>4, <2>5 DEF Listed
    <2> QED BY <2>6 DEF n, T
  <1>12. n[Len(n)].clk = Now(t) BY SlNotedCases DEF n
  <1> QED BY <1>9, <1>10, <1>11, <1>12, SlNotedCases DEF n, new

\* The clocks in the list are the last MaxListLen ones.
LEMMA ListedLast ==
  ASSUME NEW list \in Seq(ClockCnt), Len(list) <= MaxListLen, NEW S \in SUBSET Access,
         Listed(list, S), NEW b \in S
  PROVE  LET clks == {a.clk : a \in S} IN
         Cardinality({d \in clks : d > b.clk}) < MaxListLen
           <=> \E i \in 1..Len(list) : list[i].clk = b.clk
  <1> DEFINE clks == {a.clk : a \in S}
             c == b.clk
             G == {d \in clks : d > c}
             N == Len(list)
  <1>1. MaxListLen \in Nat \ {0} /\ N \in Nat BY ListAssumption
  <1>2. clks \in SUBSET Nat /\ c \in Nat BY DEF Access
  <1>3. \A i \in 1..N : list[i].clk \in clks /\ list[i].clk \in Nat BY <1>2 DEF Listed
  <1>4. \A d \in clks : (\E i \in 1..N : list[i].clk = d) \/ (N = MaxListLen /\ d < list[1].clk)
    BY DEF Listed
  <1>5. \A i, j \in 1..N : i < j => list[i].clk < list[j].clk BY DEF Listed
  <1>6. c \in clks OBVIOUS
  <1> HIDE DEF clks, c
  <1>7. G \in SUBSET Nat BY <1>2
  <1>8. ASSUME NEW i \in 1..N, list[i].clk = c PROVE Cardinality(G) < MaxListLen
    <2> DEFINE J == (i + 1)..N
               f == [j \in J |-> list[j].clk]
    <2>1. ASSUME NEW j \in J PROVE j \in 1..N /\ list[j].clk \in G
      <3>1. j \in 1..N /\ i < j BY <1>1, <2>1
      <3> QED BY <1>3, <1>5, <1>8, <3>1
    <2>2. ASSUME NEW d \in G PROVE \E j \in J : list[j].clk = d
      <3>1. d > c /\ d \in clks OBVIOUS
      <3>2. list[1].clk <= c BY <1>1, <1>2, <1>3, <1>5, <1>8
      <3>3. PICK j \in 1..N : list[j].clk = d
        <4>1. 1 \in 1..N BY <1>1
        <4> QED BY <1>2, <1>3, <1>4, <3>1, <3>2, <4>1
      <3>4. i < j
        <4>1. j < i => list[j].clk < c BY <1>5, <1>8, <3>3
        <4>2. j = i => list[j].clk = c BY <1>8
        <4> QED BY <1>1, <1>2, <3>1, <3>3, <4>1, <4>2
      <3>5. j \in J BY <1>1, <3>4
      <3> QED BY <3>3, <3>5
    <2>3. f \in Surjection(J, G)
      <3>1. f \in [J -> G] BY <2>1
      <3>2. \A d \in G : \E j \in J : f[j] = d BY <2>2
      <3> QED BY <3>1, <3>2 DEF Surjection
    <2>4. IsFiniteSet(J) /\ Cardinality(J) = IF i + 1 > N THEN 0 ELSE N - (i + 1) + 1
      <3>1. i + 1 \in Int /\ N \in Int BY <1>1
      <3> HIDE DEF N
      <3> QED BY <3>1, FS_Interval
    <2>5. IsFiniteSet(G) /\ Cardinality(G) <= Cardinality(J) BY <2>3, <2>4, FS_Surjection
    <2>6. Cardinality(G) \in Nat BY <2>5, FS_CardinalityType
    <2> QED BY <1>1, <2>4, <2>5, <2>6
  <1>9. ASSUME \A i \in 1..N : list[i].clk # c PROVE ~(Cardinality(G) < MaxListLen)
    <2> DEFINE J == 1..N
               f == [j \in J |-> list[j].clk]
    <2>1. N = MaxListLen /\ c < list[1].clk /\ 1 \in J BY <1>1, <1>4, <1>6, <1>9
    <2>2. \A j \in J : list[1].clk <= list[j].clk
      <3>1. \A j \in J : j = 1 \/ 1 < j BY <1>1
      <3> QED BY <1>3, <1>5, <2>1, <3>1
    <2>3. \A j \in J : list[j].clk \in G BY <1>2, <1>3, <2>1, <2>2
    <2>4. f \in Injection(J, G)
      <3>1. f \in [J -> G] BY <2>3
      <3>2. ASSUME NEW x \in J, NEW y \in J, f[x] = f[y] PROVE x = y
        <4>1. list[x].clk = list[y].clk BY <3>2
        <4>2. ~(x < y) /\ ~(y < x) BY <1>3, <1>5, <4>1
        <4> QED BY <1>1, <4>2
      <3> HIDE DEF f
      <3> QED BY <3>1, <3>2 DEF Injection, IsInjective
    <2>5. IsFiniteSet(G)
      <3>1. \A d \in G : d <= list[N].clk
        <4>1. N \in J /\ \A j \in J : j = N \/ j < N BY <1>1, <2>1
        <4>2. \A j \in J : list[j].clk <= list[N].clk BY <1>3, <1>5, <4>1
        <4> SUFFICES ASSUME NEW d \in G PROVE d <= list[N].clk OBVIOUS
        <4>3. d \in clks /\ d \in Nat BY <1>2
        <4>4. list[1].clk \in Nat /\ list[N].clk \in Nat /\ list[1].clk <= list[N].clk
          BY <1>3, <2>1, <4>1, <4>2
        <4>5. CASE \E i \in 1..N : list[i].clk = d BY <4>2, <4>5
        <4>6. CASE d < list[1].clk BY <4>3, <4>4, <4>6
        <4> QED BY <1>4, <4>3, <4>5, <4>6
      <3>2. list[N].clk \in Nat BY <1>1, <1>3, <2>1
      <3> QED BY <1>7, <3>1, <3>2, FS_BoundedSetOfNaturals
    <2>6. Cardinality(J) <= Cardinality(G) BY <2>4, <2>5, FS_Injection
    <2>7. Cardinality(J) = MaxListLen BY <1>1, <2>1, FS_Interval
    <2>8. Cardinality(G) \in Nat BY <2>5, FS_CardinalityType
    <2> QED BY <1>1, <2>6, <2>7, <2>8
  <1> QED BY <1>8, <1>9 DEF clks, c
-----------------------------------------------------------------------------
(* Steps. *)

\* What detector d reports at t's access.
ReportsOf(d, t, k) ==
  CASE d = "Eraser" -> ErReports(t, k)
    [] d = "RaceTrack" -> RtReports(t, k)
    [] d = "Helgrind" -> HgReports(t, k)
    [] d = "AccuLock" -> AccuReports(t, k)
    [] d = "MultiLockHb" -> MlReports(t, k)
    [] d = "SimpleLock" -> SlReports(t, k)
    [] d = "SimpleLockPlus" -> SlpReports(t, k)

\* A step that is no access.
Quiet == UNCHANGED <<seen, hybridVars>> /\ (hg' = hg \/ \E c \in Thread : hg' = HgJoined(c))

LEMMA HybridsSteps ==
  ASSUME [HybridsNext]_allVars
  PROVE  \/ UNCHANGED allVars
         \/ \E t \in Thread : LockStep(t) /\ (Quiet \/ \E k \in Kind : Touching(t, k))
  <1>1. ASSUME NEW t \in Thread, LockSync(t), UNCHANGED hybridVars PROVE LockStep(t) /\ Quiet
    <2>1. LockStep(t) /\ (hg' = hg \/ \E c \in Thread : hg' = HgJoined(c))
      BY <1>1 DEF LockSync, LockStep
    <2>2. seen' = seen
      BY <1>1 DEF LockSync, LockCreate, LockJoin, LockExit, LockMutexLock, LockMutexUnlock,
         LockRdlock, LockWrlock, LockRwlockUnlock, programVars
    <2> QED BY <1>1, <2>1, <2>2 DEF Quiet
  <1>2. ASSUME NEW t \in Thread, NEW k \in Kind, Touching(t, k) PROVE LockStep(t)
    BY <1>2 DEF Touching, LockStep
  <1> QED BY <1>1, <1>2 DEF HybridsNext

\* Every detector adds its reports.
LEMMA ReportsStep ==
  ASSUME NEW t \in Thread, NEW k \in Kind, Touching(t, k),
         reports \in [Detectors -> SUBSET Race]
  PROVE  /\ DOMAIN reports' = Detectors /\ reports' = [d \in DOMAIN reports' |-> reports'[d]]
         /\ \A d \in Detectors : reports'[d] = reports[d] \cup ReportsOf(d, t, k)
  <1> DEFINE A == ErReports(t, k)
             B == RtReports(t, k)
             C == HgReports(t, k)
             D == AccuReports(t, k)
             E == MlReports(t, k)
             F == SlReports(t, k)
             G == SlpReports(t, k)
  <1>1. reports' = [reports EXCEPT
          !["Eraser"] = @ \cup A, !["RaceTrack"] = @ \cup B, !["Helgrind"] = @ \cup C,
          !["AccuLock"] = @ \cup D, !["MultiLockHb"] = @ \cup E, !["SimpleLock"] = @ \cup F,
          !["SimpleLockPlus"] = @ \cup G]
    BY DEF Touching
  <1>2. /\ DOMAIN reports' = Detectors /\ reports' = [d \in DOMAIN reports' |-> reports'[d]]
        /\ reports'["Eraser"] = reports["Eraser"] \cup A
        /\ reports'["RaceTrack"] = reports["RaceTrack"] \cup B
        /\ reports'["Helgrind"] = reports["Helgrind"] \cup C
        /\ reports'["AccuLock"] = reports["AccuLock"] \cup D
        /\ reports'["MultiLockHb"] = reports["MultiLockHb"] \cup E
        /\ reports'["SimpleLock"] = reports["SimpleLock"] \cup F
        /\ reports'["SimpleLockPlus"] = reports["SimpleLockPlus"] \cup G
    <2> HIDE DEF A, B, C, D, E, F, G
    <2> QED BY <1>1 DEF Detectors
  <1>3. ASSUME NEW d \in Detectors PROVE reports'[d] = reports[d] \cup ReportsOf(d, t, k)
    BY <1>2 DEF ReportsOf, Detectors
  <1> QED BY <1>2, <1>3

-----------------------------------------------------------------------------
(* Types. *)

MetaTypes ==
  /\ er \in ErMeta
  /\ rt \in RtMeta /\ (rt.racy <=> rt.state = "RACY")
  /\ HgProper(hg)
  /\ accu \in AccuMeta
  /\ ml \in [Kind -> [Thread -> SUBSET ClockSet]]
  /\ sl \in [Kind -> [Thread -> Seq(ClockCnt)]]
  /\ slp \in [Kind -> [Thread -> [clk : Nat, iszero : BOOLEAN]]]
  /\ \A k \in Kind, t \in Thread : Len(sl[k][t]) <= MaxListLen
  /\ reports \in [Detectors -> SUBSET Race]
  /\ unpruned \subseteq Race /\ unlocked \subseteq Race /\ unordered \subseteq Race

HybridsBase == LockIInv /\ MetaTypes

LEMMA BaseTypes ==
  ASSUME HybridsBase
  PROVE  /\ TypeOK /\ TablesInv /\ AccessTypes /\ HbInv /\ SeenInv /\ BetweenCalls
         /\ \A t \in Thread : /\ vc[t] \in Clock /\ Now(t) \in Nat /\ lc[t] \in Nat
                              /\ Covering(t, "R") = Held(t)
                              /\ lc[t] = 0 <=> HeldWrite(t) \cup HeldRead(t) = {}
  <1>1. TypeOK /\ TablesInv /\ AccessTypes /\ HbInv /\ SeenInv /\ BetweenCalls
    BY DEF HybridsBase, LockIInv
  <1>2. ASSUME NEW t \in Thread
        PROVE  /\ vc[t] \in Clock /\ Now(t) \in Nat /\ lc[t] \in Nat
               /\ lc[t] = 0 <=> HeldWrite(t) \cup HeldRead(t) = {}
    <2>1. vc[t] \in Clock BY <1>1 DEF TypeOK
    <2>2. Now(t) \in Nat BY <2>1 DEF Now, Clock
    <2>3. lc[t] = Cardinality(Held(t)) /\ IsFiniteSet(HeldWrite(t)) /\ lc[t] \in Nat
      BY <1>1 DEF TablesInv, TableTypes, Tables
    <2>4. IsFiniteSet(Held(t))
      <3>1. IsFiniteSet(HeldRead(t)) BY FS_EmptySet, FS_Singleton DEF HeldRead
      <3> QED BY <2>3, <3>1, FS_Union DEF Held
    <2>5. Cardinality(Held(t)) = 0 <=> Held(t) = {} BY <2>4, FS_EmptySet
    <2> QED BY <2>1, <2>2, <2>3, <2>5 DEF Held
  <1> QED BY <1>1, <1>2 DEF Covering

\* What is reported at an access names threads and kinds.
LEMMA ReportsType ==
  ASSUME HybridsBase, NEW t \in Thread, NEW k \in Kind, NEW d \in Detectors
  PROVE  ReportsOf(d, t, k) \subseteq Race
  <1>0. "R" \in Kind /\ "W" \in Kind /\ Against(k) \subseteq Kind BY DEF Kind, Against
  <1>1. er.writers \subseteq Thread /\ er.readers \subseteq Thread
        /\ rt.writers \subseteq Thread /\ rt.readers \subseteq Thread
    BY DEF HybridsBase, MetaTypes, ErMeta, RtMeta
  <1>2. ErReports(t, k) \subseteq Race BY <1>0, <1>1 DEF ErReports, RacesWith, Race, Kind
  <1>3. RtReports(t, k) \subseteq Race BY <1>0, <1>1 DEF RtReports, RacesWith, Race, Kind
  <1>4. HgReports(t, k) \subseteq Race
    <2>1. HgProper(hg) /\ TablesInv /\ vc \in [Thread -> Clock]
      BY BaseTypes DEF HybridsBase, MetaTypes, TypeOK
    <2>2. hg.kind \in Kind /\ (hg.state # "NEW" => hg.thd \in Thread) BY <2>1 DEF HgProper, HgMeta
    <2>3. HgReports(t, k) # {} => hg.state # "NEW" BY <2>1, HgAfterProp DEF HgReports
    <2> QED BY <2>2, <2>3 DEF HgReports, Race, Kind
  <1>5. AccuReports(t, k) \subseteq Race
    <2>1. TablesInv /\ AccessTypes /\ accu \in AccuMeta BY BaseTypes DEF HybridsBase, MetaTypes
    <2> SUFFICES ASSUME NEW r \in AccuReports(t, k) PROVE r \in Race OBVIOUS
    <2>2. PICK u \in Thread \ {t}, j \in Kind : r = <<u, j, t, k>> BY <2>1, AccuReportsProp
    <2> QED BY <2>2 DEF Race, Kind
  <1>6. MlReports(t, k) \subseteq Race BY <1>0 DEF MlReports, RacesWith, Race, Kind
  <1>7. SlReports(t, k) \subseteq Race BY <1>0 DEF SlReports, RacesWith, Race, Kind
  <1>8. SlpReports(t, k) \subseteq Race BY <1>0 DEF SlpReports, RacesWith, Race, Kind
  <1> QED BY <1>2, <1>3, <1>4, <1>5, <1>6, <1>7, <1>8 DEF ReportsOf, Detectors

\* The metas of a pair of tables, after t's access of kind k.
LEMMA SlAfterProp ==
  ASSUME HybridsBase, NEW t \in Thread, NEW k \in Kind
  PROVE  /\ SlAfter(t, k) \in [Kind -> [Thread -> Seq(ClockCnt)]]
         /\ \A j \in Kind, u \in Thread :
              SlAfter(t, k)[j][u] = IF j = k /\ u = t THEN SlNoted(sl[k][t], t) ELSE sl[j][u]
         /\ \A j \in Kind, u \in Thread : Len(SlAfter(t, k)[j][u]) <= MaxListLen
  <1> DEFINE n == SlNoted(sl[k][t], t)
  <1>1. sl \in [Kind -> [Thread -> Seq(ClockCnt)]]
        /\ \A j \in Kind, u \in Thread : Len(sl[j][u]) <= MaxListLen
    BY DEF HybridsBase, MetaTypes
  <1>2. n \in Seq(ClockCnt) /\ Len(n) <= MaxListLen
    <2>1. sl[k][t] \in Seq(ClockCnt) /\ Len(sl[k][t]) <= MaxListLen BY <1>1
    <2> QED BY <2>1, BaseTypes, SlNotedCases
  <1>3. SlAfter(t, k) = [sl EXCEPT ![k] = [sl[k] EXCEPT ![t] = n]] BY <1>1 DEF SlAfter
  <1> HIDE DEF n
  <1>4. [sl[k] EXCEPT ![t] = n] \in [Thread -> Seq(ClockCnt)] BY <1>1, <1>2
  <1>5. SlAfter(t, k) \in [Kind -> [Thread -> Seq(ClockCnt)]] BY <1>1, <1>3, <1>4
  <1>6. \A j \in Kind, u \in Thread : SlAfter(t, k)[j][u] = IF j = k /\ u = t THEN n ELSE sl[j][u]
    BY <1>1, <1>3
  <1> QED BY <1>1, <1>2, <1>5, <1>6 DEF n

LEMMA SlpAfterProp ==
  ASSUME HybridsBase, NEW t \in Thread, NEW k \in Kind
  PROVE  /\ SlpAfter(t, k) \in [Kind -> [Thread -> [clk : Nat, iszero : BOOLEAN]]]
         /\ \A j \in Kind, u \in Thread :
              \/ SlpAfter(t, k)[j][u] = slp[j][u]
              \/ j = k /\ u = t /\ SlpAfter(t, k)[j][u] = [clk |-> Now(t), iszero |-> lc[t] = 0]
  <1> DEFINE n == [clk |-> Now(t), iszero |-> lc[t] = 0]
  <1>1. slp \in [Kind -> [Thread -> [clk : Nat, iszero : BOOLEAN]]] BY DEF HybridsBase, MetaTypes
  <1>2. n \in [clk : Nat, iszero : BOOLEAN] BY BaseTypes
  <1>3. SlpAfter(t, k) = slp \/ SlpAfter(t, k) = [slp EXCEPT ![k] = [slp[k] EXCEPT ![t] = n]]
    BY <1>1 DEF SlpAfter
  <1> HIDE DEF n
  <1>4. [slp[k] EXCEPT ![t] = n] \in [Thread -> [clk : Nat, iszero : BOOLEAN]] BY <1>1, <1>2
  <1>5. SlpAfter(t, k) \in [Kind -> [Thread -> [clk : Nat, iszero : BOOLEAN]]] BY <1>1, <1>3, <1>4
  <1>6. \A j \in Kind, u \in Thread :
          SlpAfter(t, k)[j][u] = slp[j][u] \/ (j = k /\ u = t /\ SlpAfter(t, k)[j][u] = n)
    BY <1>1, <1>3
  <1> QED BY <1>5, <1>6 DEF n

\* MultiLock-HB's pair of clock and locks of t's access of kind k.
MlPair(t, k) == [clk |-> Now(t), locks |-> Protecting(t, k)]

\* What becomes of u's pairs for accesses of kind j, if the access is recorded.
MlRow(j, u, t, k) ==
  IF u # t \/ (j = "W" /\ k = "R") THEN ml[j][u]
  ELSE (ml[j][u] \ MlSubsumed(t, k)) \cup (IF j = k THEN {MlPair(t, k)} ELSE {})

LEMMA MlAfterProp ==
  ASSUME HybridsBase, NEW t \in Thread, NEW k \in Kind
  PROVE  /\ MlAfter(t, k) \in [Kind -> [Thread -> SUBSET ClockSet]]
         /\ MlRedundant(t, k) => MlAfter(t, k) = ml
         /\ ~MlRedundant(t, k) =>
              \A j \in Kind, u \in Thread : MlAfter(t, k)[j][u] = MlRow(j, u, t, k)
  <1> DEFINE n == MlPair(t, k)
             row(j) == [ml[j] EXCEPT ![t] = (ml[j][t] \ MlSubsumed(t, k)) \cup (IF j = k THEN {n} ELSE {})]
             x == [j \in Kind |-> IF j = "W" /\ k = "R" THEN ml[j] ELSE row(j)]
  <1>1. ml \in [Kind -> [Thread -> SUBSET ClockSet]] BY DEF HybridsBase, MetaTypes
  <1>2. n \in ClockSet
    <2>1. Protecting(t, k) \in SUBSET Lock BY BaseTypes, TableLocks DEF Protecting
    <2> QED BY <2>1, BaseTypes DEF MlPair, ClockSet
  <1>3. MlAfter(t, k) = IF MlRedundant(t, k) THEN ml ELSE x BY <1>1 DEF MlAfter, MlPair
  <1> HIDE DEF n
  <1>4. ASSUME NEW j \in Kind
        PROVE  /\ row(j) \in [Thread -> SUBSET ClockSet]
               /\ \A u \in Thread : row(j)[u] =
                    IF u # t THEN ml[j][u]
                    ELSE (ml[j][u] \ MlSubsumed(t, k)) \cup (IF j = k THEN {n} ELSE {})
    BY <1>1, <1>2
  <1> HIDE DEF row
  <1>5. x \in [Kind -> [Thread -> SUBSET ClockSet]] BY <1>1, <1>4
  <1>6. \A j \in Kind, u \in Thread :
          x[j][u] = IF u # t \/ (j = "W" /\ k = "R") THEN ml[j][u]
                    ELSE (ml[j][u] \ MlSubsumed(t, k)) \cup (IF j = k THEN {n} ELSE {})
    BY <1>4
  <1> HIDE DEF x
  <1> QED BY <1>1, <1>3, <1>5, <1>6 DEF n, MlRow

\* The metas and the reports keep their types.
LEMMA MetaTypesStep ==
  ASSUME HybridsBase, [HybridsNext]_allVars
  PROVE  MetaTypes'
  <1> USE DEF HybridsBase, MetaTypes
  <1>1. CASE UNCHANGED allVars
    BY <1>1 DEF allVars, hybridVars, metaVars, HgProper
  <1>2. CASE Quiet
    <2>1. HgProper(hg') BY <1>2, HgJoinedProp DEF Quiet
    <2> QED BY <1>2, <2>1 DEF Quiet, hybridVars, metaVars
  <1>3. ASSUME NEW t \in Thread, NEW k \in Kind, Touching(t, k) PROVE MetaTypes'
    <2>0. TablesInv /\ AccessTypes /\ vc \in [Thread -> Clock] /\ seen \subseteq Access
      BY BaseTypes DEF TypeOK, AccessTypes
    <2>1. er' \in ErMeta BY <1>3, <2>0, ErAfterProp DEF Touching
    <2>2. rt' \in RtMeta /\ (rt'.racy <=> rt'.state = "RACY") BY <1>3, <2>0, RtAfterProp DEF Touching
    <2>3. HgProper(hg') BY <1>3, <2>0, HgAfterProp DEF Touching
    <2>4. accu' \in AccuMeta BY <1>3, <2>0, AccuAfterProp DEF Touching
    <2>5. ml' \in [Kind -> [Thread -> SUBSET ClockSet]] BY <1>3, MlAfterProp DEF Touching
    <2>6. /\ sl' \in [Kind -> [Thread -> Seq(ClockCnt)]]
          /\ \A j \in Kind, u \in Thread : Len(sl'[j][u]) <= MaxListLen
      BY <1>3, SlAfterProp DEF Touching
    <2>7. slp' \in [Kind -> [Thread -> [clk : Nat, iszero : BOOLEAN]]]
      BY <1>3, SlpAfterProp DEF Touching
    <2>8. reports' \in [Detectors -> SUBSET Race]
      <3>1. \A d \in Detectors : reports'[d] \in SUBSET Race
        <4>1. \A d \in Detectors : reports'[d] = reports[d] \cup ReportsOf(d, t, k)
          BY <1>3, ReportsStep
        <4>2. \A d \in Detectors : ReportsOf(d, t, k) \subseteq Race /\ reports[d] \subseteq Race
          BY ReportsType
        <4> QED BY <4>1, <4>2
      <3>2. DOMAIN reports' = Detectors /\ reports' = [d \in DOMAIN reports' |-> reports'[d]]
        BY <1>3, ReportsStep
      <3> HIDE DEF HybridsBase, MetaTypes
      <3> QED BY <3>1, <3>2
    <2>9. unpruned' \subseteq Race /\ unlocked' \subseteq Race /\ unordered' \subseteq Race
      <3>1. \A a \in seen : a.thd \in Thread /\ a.kind \in Kind BY <2>0 DEF Access
      <3>2. Unpruned(t, k) \subseteq Race BY <3>1 DEF Unpruned, Against_, Race, Kind
      <3>3. Unlocked(t, k) \subseteq Race BY <3>1 DEF Unlocked, Against_, Race, Kind
      <3>4. Unordered(t, k) \subseteq Race BY <3>1 DEF Unordered, Race, Kind
      <3> QED BY <1>3, <3>2, <3>3, <3>4 DEF Touching
    <2> HIDE DEF HybridsBase
    <2> QED BY <2>1, <2>2, <2>3, <2>4, <2>5, <2>6, <2>7, <2>8, <2>9
  <1> QED BY <1>1, <1>2, <1>3, HybridsSteps

LEMMA BaseStep ==
  ASSUME HybridsBase, [HybridsNext]_allVars
  PROVE  HybridsBase'
  <1>1. LockIInv'
    <2>1. CASE UNCHANGED allVars BY <2>1, LockIInvStutter DEF allVars, HybridsBase
    <2> QED BY <2>1, HybridsSteps, LockIInvStep DEF HybridsBase
  <1> QED BY <1>1, MetaTypesStep DEF HybridsBase

LEMMA BaseInit == HybridsInit => HybridsBase
  <1> SUFFICES ASSUME HybridsInit PROVE HybridsBase OBVIOUS
  <1>1. LockIInv BY LockIInvInit DEF HybridsInit
  <1>2. Zero \in Clock BY ZeroProp
  <1>3. er \in ErMeta BY DEF HybridsInit, StatesInit, ErMeta, ErState
  <1>4. rt \in RtMeta /\ (rt.racy <=> rt.state = "RACY")
    BY <1>2 DEF HybridsInit, StatesInit, RtMeta, RtState
  <1>5. HgProper(hg) BY <1>2 DEF HybridsInit, StatesInit, HgProper, HgMeta, HgState, Kind
  <1>6. accu \in AccuMeta BY DEF HybridsInit, AccuMeta, ClockSet
  <1>7. ml \in [Kind -> [Thread -> SUBSET ClockSet]] BY DEF HybridsInit
  <1>8. sl \in [Kind -> [Thread -> Seq(ClockCnt)]] /\ \A k \in Kind, t \in Thread : sl[k][t] = << >>
    BY DEF HybridsInit
  <1>9. slp \in [Kind -> [Thread -> [clk : Nat, iszero : BOOLEAN]]] BY DEF HybridsInit
  <1>10. /\ reports \in [Detectors -> SUBSET Race]
         /\ unpruned \subseteq Race /\ unlocked \subseteq Race /\ unordered \subseteq Race
    BY DEF HybridsInit
  <1>11. \A k \in Kind, t \in Thread : Len(sl[k][t]) <= MaxListLen
    BY <1>8, ListAssumption
  <1> QED BY <1>1, <1>3, <1>4, <1>5, <1>6, <1>7, <1>8, <1>9, <1>10, <1>11 DEF HybridsBase, MetaTypes

\* The metas, tables and reports of all detectors are of their types in every
\* reachable state, and so is what the program knows.
THEOREM HybridsTyped == HybridsSpec => []HybridsTypeOK
  <1>1. HybridsBase => HybridsTypeOK
    BY DEF HybridsBase, LockIInv, TablesInv, TableTypes, AccessTypes, MetaTypes, HgProper,
       HybridsTypeOK, ProgramTypeOK, StatesTypeOK, ErMeta, RtMeta, HgMeta, AccuMeta
  <1>2. HybridsInit => HybridsBase BY BaseInit
  <1>3. HybridsBase /\ [HybridsNext]_allVars => HybridsBase' BY BaseStep
  <1> QED BY <1>1, <1>2, <1>3, PTL DEF HybridsSpec

\* A thread that is not in a callback has in every detector's tables the locks
\* it holds, except that Eraser, RaceTrack and Helgrind+ may still have the
\* rwlock among the locks for reading.
THEOREM HybridsTables == HybridsSpec => []TablesFollowLocks
  <1>1. HybridsBase => TablesFollowLocks BY TablesFollow DEF HybridsBase
  <1>2. HybridsInit => HybridsBase BY BaseInit
  <1>3. HybridsBase /\ [HybridsNext]_allVars => HybridsBase' BY BaseStep
  <1> QED BY <1>1, <1>2, <1>3, PTL DEF HybridsSpec
-----------------------------------------------------------------------------
(* Quiet on locked data. *)

\* Lock l has been held at all accesses.
Always(l) == \A a \in seen : l \in a.wr \/ (a.kind = "R" /\ l \in a.rd)

\* Then every detector has it among the candidates, or counted.
QuietFor(l) ==
  /\ ~er.racy /\ (er.state # "UNKNOWN" => l \in er.rd)
  /\ RtCovered(rt, l) /\ HgCovered(hg, l) /\ AccuCovered(accu, l)
  /\ \A j \in Kind, u \in Thread : \A p \in ml[j][u] : l \in p.locks
  /\ \A j \in Kind, u \in Thread : \A i \in 1..Len(sl[j][u]) : sl[j][u][i].cnt # 0
  /\ \A j \in Kind, u \in Thread : slp[j][u].clk > 0 => ~slp[j][u].iszero
  /\ \A d \in Detectors : reports[d] = {}

QuietInv == \A l \in Lock : Always(l) => QuietFor(l)

\* What a protected access reports: nothing.
LEMMA QuietReports ==
  ASSUME HybridsBase, NEW t \in Thread, NEW k \in Kind, NEW l \in Covering(t, k), QuietFor(l),
         NEW d \in Detectors
  PROVE  ReportsOf(d, t, k) = {}
  <1>0. TablesInv /\ AccessTypes /\ vc \in [Thread -> Clock] /\ er \in ErMeta /\ rt \in RtMeta
        /\ (rt.racy <=> rt.state = "RACY") /\ HgProper(hg) /\ accu \in AccuMeta
    BY BaseTypes DEF HybridsBase, MetaTypes, TypeOK
  <1>1. ErReports(t, k) = {} BY <1>0, ErAfterProp DEF QuietFor, ErReports
  <1>2. RtReports(t, k) = {}
    <2>1. RtCovered(RtAfter(t, k), l) /\ (RtAfter(t, k).racy <=> RtAfter(t, k).state = "RACY")
      BY <1>0, RtAfterProp DEF QuietFor
    <2> QED BY <2>1 DEF RtCovered, RtReports
  <1>3. HgReports(t, k) = {}
    <2>1. HgCovered(HgAfter(t, k), l) BY <1>0, HgAfterProp DEF QuietFor
    <2> QED BY <2>1 DEF HgCovered, HgReports
  <1>4. AccuReports(t, k) = {} BY <1>0, AccuReportsProp DEF QuietFor
  <1>5. l \in Protecting(t, k) /\ lc[t] # 0
    <2>1. l \in Held(t) BY DEF Covering, Held
    <2> QED BY <1>0, <2>1, TableLocks, BaseTypes DEF Held
  <1>6. Against(k) \subseteq Kind BY DEF Against, Kind
  <1>7. MlReports(t, k) = {} BY <1>5, <1>6 DEF QuietFor, MlReports, RacesWith, Disjoint
  <1>8. SlReports(t, k) = {} BY <1>5, <1>6 DEF QuietFor, SlReports, RacesWith
  <1>9. SlpReports(t, k) = {}
    <2>1. ASSUME NEW j \in Against(k), NEW u \in Thread, slp[j][u].clk > vc[t][u]
          PROVE  ~slp[j][u].iszero
      <3>1. vc[t][u] \in Nat BY <1>0 DEF Clock
      <3>2. slp[j][u] \in [clk : Nat, iszero : BOOLEAN] BY <1>6 DEF HybridsBase, MetaTypes
      <3>3. slp[j][u].clk \in Nat BY <3>2
      <3>4. slp[j][u].clk > 0 BY <2>1, <3>1, <3>3
      <3> QED BY <1>6, <3>4 DEF QuietFor
    <2> QED BY <1>5, <2>1 DEF SlpReports, RacesWith
  <1> QED BY <1>1, <1>2, <1>3, <1>4, <1>7, <1>8, <1>9 DEF ReportsOf, Detectors

LEMMA QuietStep ==
  ASSUME HybridsBase, QuietInv, [HybridsNext]_allVars
  PROVE  QuietInv'
  <1>1. CASE UNCHANGED allVars
    BY <1>1 DEF allVars, hybridVars, metaVars, programVars, QuietInv, QuietFor, Always, RtCovered,
       HgCovered, AccuCovered
  <1>2. CASE Quiet
    <2>1. UNCHANGED <<seen, er, rt, accu, ml, sl, slp, reports>>
      BY <1>2 DEF Quiet, hybridVars, metaVars
    <2>2. \A l : HgCovered(hg, l) => HgCovered(hg', l)
      BY <1>2, HgJoinedProp DEF Quiet, HybridsBase, MetaTypes
    <2> QED BY <2>1, <2>2 DEF QuietInv, QuietFor, Always
  <1>3. ASSUME NEW t \in Thread, NEW k \in Kind, Touching(t, k) PROVE QuietInv'
    <2> SUFFICES ASSUME NEW l \in Lock, Always(l)' PROVE QuietFor(l)'
      BY DEF QuietInv
    <2>0. /\ TablesInv /\ AccessTypes /\ vc \in [Thread -> Clock] /\ er \in ErMeta /\ rt \in RtMeta
          /\ (rt.racy <=> rt.state = "RACY") /\ HgProper(hg) /\ accu \in AccuMeta
      BY BaseTypes DEF HybridsBase, MetaTypes, TypeOK
    <2>1. seen' = seen \cup {Making(t, k)} BY <1>3 DEF Touching, LockTouch
    <2>2. QuietFor(l) BY <2>1 DEF QuietInv, Always
    <2>3. l \in Covering(t, k)
      <3> DEFINE m == Making(t, k)
      <3>1. m.wr = HeldWrite(t) /\ m.rd = HeldRead(t) /\ m.kind = k BY DEF Making
      <3> HIDE DEF m
      <3>2. l \in m.wr \/ (m.kind = "R" /\ l \in m.rd) BY <2>1 DEF Always, m
      <3> QED BY <3>1, <3>2 DEF Covering, Held
    <2>4. ~er'.racy /\ l \in er'.rd BY <1>3, <2>0, <2>2, <2>3, ErAfterProp DEF Touching, QuietFor
    <2>5. RtCovered(rt', l) BY <1>3, <2>0, <2>2, <2>3, RtAfterProp DEF Touching, QuietFor
    <2>6. HgCovered(hg', l) BY <1>3, <2>0, <2>2, <2>3, HgAfterProp DEF Touching, QuietFor
    <2>7. AccuCovered(accu', l) BY <1>3, <2>0, <2>2, <2>3, AccuAfterProp DEF Touching, QuietFor
    <2>8. \A j \in Kind, u \in Thread : \A p \in ml'[j][u] : l \in p.locks
      <3>1. l \in MlPair(t, k).locks BY <2>0, <2>3, TableLocks DEF MlPair
      <3>2. \A j \in Kind, u \in Thread : ml'[j][u] \subseteq ml[j][u] \cup {MlPair(t, k)}
        <4>1. ml' = MlAfter(t, k) BY <1>3 DEF Touching
        <4>2. CASE MlRedundant(t, k) BY <4>1, <4>2, MlAfterProp
        <4>3. CASE ~MlRedundant(t, k)
          <5>1. \A j \in Kind, u \in Thread : ml'[j][u] = MlRow(j, u, t, k)
            BY <4>1, <4>3, MlAfterProp
          <5> QED BY <5>1 DEF MlRow
        <4> QED BY <4>2, <4>3
      <3> QED BY <2>2, <3>1, <3>2 DEF QuietFor
    <2>a. lc[t] # 0
      <3>1. l \in Held(t) BY <2>3 DEF Covering, Held
      <3> QED BY <3>1, BaseTypes DEF Held
    <2>9. ASSUME NEW j \in Kind, NEW u \in Thread, NEW i \in 1..Len(sl'[j][u])
          PROVE  sl'[j][u][i].cnt # 0
      <3>1. sl'[j][u] = IF j = k /\ u = t THEN SlNoted(sl[k][t], t) ELSE sl[j][u]
        BY <1>3, SlAfterProp DEF Touching
      <3>2. CASE ~(j = k /\ u = t) BY <2>2, <2>9, <3>1, <3>2 DEF QuietFor
      <3>3. CASE j = k /\ u = t
        <4> DEFINE list == sl[k][t]
                   n == SlNoted(list, t)
        <4>1. list \in Seq(ClockCnt) /\ Len(list) <= MaxListLen /\ Now(t) \in Nat /\ lc[t] \in Nat
          BY BaseTypes DEF HybridsBase, MetaTypes
        <4>2. \A h \in 1..Len(list) : list[h].cnt # 0 BY <2>2 DEF QuietFor
        <4>3. i \in 1..Len(n) /\ sl'[j][u][i] = n[i] BY <3>1, <3>3
        <4>4. n[Len(n)].cnt # 0 /\ \A h \in 1..Len(n) : h # Len(n) =>
                                      \E g \in 1..Len(list) : n[h] = list[g]
          <5> DEFINE new == [clk |-> Now(t), cnt |-> lc[t]]
          <5>1. /\ Len(n) > 0 /\ Len(n) \in Nat /\ Len(list) \in Nat
                /\ \/ /\ Len(list) > 0 /\ Len(n) = Len(list)
                      /\ \A h \in 1..Len(n) : h # Len(n) => n[h] = list[h]
                      /\ n[Len(n)].cnt = 0 <=> list[Len(list)].cnt = 0 \/ lc[t] = 0
                   \/ /\ Len(n) = Len(list) + 1
                      /\ \A h \in 1..Len(list) : n[h] = list[h]
                      /\ n[Len(n)] = new
                   \/ /\ Len(list) > 0 /\ Len(n) = Len(list)
                      /\ \A h \in 1..Len(n) : h # Len(n) => n[h] = list[h + 1]
                      /\ n[Len(n)] = new
            <6> HIDE DEF list
            <6>1. Len(n) > 0 /\ Len(n) \in Nat /\ Len(list) \in Nat
              <7>1. n \in Seq(ClockCnt) /\ Len(n) > 0 BY <4>1, SlNotedCases
              <7> HIDE DEF n
              <7> QED BY <4>1, <7>1
            <6> QED BY <4>1, <6>1, SlNotedCases
          <5>2. new.cnt = lc[t] OBVIOUS
          <5> HIDE DEF n, list, new
          <5>3. \A h \in 1..Len(n) : h # Len(n) => h + 1 \in 1..Len(n) /\ h \in 1..(Len(n) - 1)
            BY <5>1
          <5>4. Len(list) > 0 => Len(list) \in 1..Len(list) BY <5>1
          <5>5. \A h \in 1..Len(n) : h # Len(n) => \E g \in 1..Len(list) : n[h] = list[g]
            BY <5>1, <5>3
          <5> QED BY <2>a, <4>2, <5>1, <5>2, <5>4, <5>5
        <4> HIDE DEF n, list
        <4> QED BY <4>2, <4>3, <4>4
      <3> QED BY <3>2, <3>3
    <2>10. \A j \in Kind, u \in Thread : slp'[j][u].clk > 0 => ~slp'[j][u].iszero
      <3> DEFINE new == [clk |-> Now(t), iszero |-> lc[t] = 0]
      <3>1. ~new.iszero BY <2>a
      <3>2. \A j \in Kind, u \in Thread : slp'[j][u] = slp[j][u] \/ slp'[j][u] = new
        BY <1>3, SlpAfterProp DEF Touching
      <3> HIDE DEF new
      <3> QED BY <2>2, <3>1, <3>2 DEF QuietFor
    <2>11. \A d \in Detectors : reports'[d] = {}
      <3>1. \A d \in Detectors : reports[d] = {} BY <2>2 DEF QuietFor
      <3>2. reports \in [Detectors -> SUBSET Race] BY DEF HybridsBase, MetaTypes
      <3>3. \A d \in Detectors : ReportsOf(d, t, k) = {} BY <2>2, <2>3, QuietReports
      <3> QED BY <1>3, <3>1, <3>2, <3>3, ReportsStep
    <2> QED BY <2>4, <2>5, <2>6, <2>7, <2>8, <2>9, <2>10, <2>11 DEF QuietFor
  <1> QED BY <1>1, <1>2, <1>3, HybridsSteps

\* No detector reports anything about data that one lock has protected at all
\* its accesses, for writing at the writes.
THEOREM HybridsQuiet == HybridsSpec => []QuietWhenLocked
  <1>1. HybridsInit => QuietInv
    <2> SUFFICES ASSUME HybridsInit, NEW l \in Lock PROVE QuietFor(l) BY DEF QuietInv
    <2>1. RtCovered(rt, l) /\ HgCovered(hg, l) /\ ~er.racy /\ er.state = "UNKNOWN"
      BY DEF HybridsInit, StatesInit, RtCovered, HgCovered
    <2>2. AccuCovered(accu, l) BY DEF HybridsInit, AccuCovered
    <2>3. /\ \A j \in Kind, u \in Thread : /\ ml[j][u] = {} /\ Len(sl[j][u]) = 0
                                          /\ slp[j][u].clk = 0
          /\ \A d \in Detectors : reports[d] = {}
      BY DEF HybridsInit
    <2> QED BY <2>1, <2>2, <2>3 DEF QuietFor
  <1>2. QuietInv => QuietWhenLocked BY DEF QuietInv, QuietFor, Always, QuietWhenLocked, Protected
  <1>3. HybridsInit => HybridsBase BY BaseInit
  <1>4. HybridsBase /\ QuietInv /\ [HybridsNext]_allVars => HybridsBase' /\ QuietInv'
    BY BaseStep, QuietStep
  <1> QED BY <1>1, <1>2, <1>3, <1>4, PTL DEF HybridsSpec
-----------------------------------------------------------------------------
(* Only concurrent accesses are reported. *)

\* Some access of u, of a kind of J, is such that whoever comes after it has at
\* least x of w in the clock of C.
Witness(p, h, S, C, u, J, w, x) ==
  \E a \in S : a.thd = u /\ a.kind \in J /\ KnownIn(p, h, C, u, a.n, w, x)

\* Where the clocks in the metas come from.
WitnessInv ==
  /\ accu.thd # NoThread => Witness(pc, hb, seen, accuVc, accu.thd, {"W"}, accu.thd, accu.clk)
  /\ \A u \in Thread : accu.reads[u].clk > 0 =>
       Witness(pc, hb, seen, accuVc, u, {"R"}, u, accu.reads[u].clk)
  /\ \A j \in Kind, u \in Thread : \A p \in ml[j][u] : Witness(pc, hb, seen, vc, u, {j}, u, p.clk)
  /\ \A j \in Kind, u \in Thread : \A i \in 1..Len(sl[j][u]) :
       Witness(pc, hb, seen, vc, u, {j}, u, sl[j][u][i].clk)
  /\ \A j \in Kind, u \in Thread : slp[j][u].clk > 0 =>
       Witness(pc, hb, seen, vc, u, {j}, u, slp[j][u].clk)
  /\ \A u \in Thread : rt.threads[u] # 0 => Witness(pc, hb, seen, vc, u, Kind, u, rt.threads[u])

\* The whole clock of Helgrind+'s segment was some access's, whoever's.
SegmentInv ==
  hg.state # "NEW" =>
    \E a \in seen : \A w \in Thread : KnownIn(pc, hb, vc, a.thd, a.n, w, hg.clock[w])

LEMMA WitnessKept ==
  ASSUME LockIInv, NEW t \in Thread, LockStep(t),
         NEW C \in [Thread -> Clock], NEW D \in [Thread -> Clock], ClockMove(t, C, D),
         NEW u \in Thread, NEW J, NEW w \in Thread, NEW x \in Nat,
         Witness(pc, hb, seen, C, u, J, w, x)
  PROVE  Witness(pc', hb', seen', D, u, J, w, x)
  <1>1. PICK a \in seen : a.thd = u /\ a.kind \in J /\ KnownIn(pc, hb, C, u, a.n, w, x)
    BY DEF Witness
  <1>2. KnownIn(pc', hb', D, a.thd, a.n, w, x) /\ a \in seen' BY <1>1, AccessKept
  <1> QED BY <1>1, <1>2 DEF Witness

\* A new access is a witness of what its thread knows.
LEMMA WitnessNew ==
  ASSUME LockIInv, NEW t \in Thread, NEW k \in Kind, LockTouch(t, k),
         NEW C \in [Thread -> Clock], NEW J, k \in J, NEW w \in Thread
  PROVE  /\ Witness(pc', hb', seen', C, t, J, w, C[t][w])
         /\ LET a == Making(t, k) IN a \in seen' /\ a.thd = t
                                     /\ KnownIn(pc', hb', C, t, a.n, w, C[t][w])
  <1> DEFINE a == Making(t, k)
  <1>1. a \in seen' /\ a.thd = t /\ a.kind = k /\ a.n = Len(epochs[t]) + 1
    BY DEF LockTouch, Making
  <1>2. KnownIn(pc', hb', C, t, a.n, w, C[t][w]) BY <1>1, NewAccess DEF LockIInv
  <1> HIDE DEF a
  <1> QED BY <1>1, <1>2 DEF Witness, a

\* The tables are no older than the metas: an access makes new entries with
\* the clock of its thread and leaves the others.
LEMMA WitnessStep ==
  ASSUME HybridsBase, WitnessInv, SegmentInv, [HybridsNext]_allVars
  PROVE  WitnessInv' /\ SegmentInv'
  <1>0. /\ LockIInv /\ TypeOK /\ TablesInv /\ AccessTypes /\ vc \in [Thread -> Clock]
        /\ accuVc \in [Thread -> Clock]
        /\ rt \in RtMeta /\ (rt.racy <=> rt.state = "RACY") /\ HgProper(hg) /\ accu \in AccuMeta
        /\ ml \in [Kind -> [Thread -> SUBSET ClockSet]]
        /\ sl \in [Kind -> [Thread -> Seq(ClockCnt)]]
        /\ slp \in [Kind -> [Thread -> [clk : Nat, iszero : BOOLEAN]]]
        /\ \A j \in Kind, u \in Thread : Len(sl[j][u]) <= MaxListLen
    BY BaseTypes DEF HybridsBase, MetaTypes, TypeOK, AccessTypes
  <1>a. /\ accu.clk \in Nat /\ hg.clock \in Clock
        /\ \A u \in Thread : accu.reads[u].clk \in Nat /\ rt.threads[u] \in Nat
                             /\ hg.clock[u] \in Nat
        /\ \A j \in Kind, u \in Thread :
             /\ \A p \in ml[j][u] : p.clk \in Nat
             /\ \A i \in 1..Len(sl[j][u]) : sl[j][u][i].clk \in Nat
             /\ slp[j][u].clk \in Nat
    <2>1. rt.threads \in Clock /\ hg.clock \in Clock /\ accu.reads \in [Thread -> ClockSet]
          /\ accu.clk \in Nat
      BY <1>0 DEF RtMeta, HgProper, HgMeta, AccuMeta
    <2>2. \A u \in Thread : accu.reads[u].clk \in Nat /\ rt.threads[u] \in Nat
                            /\ hg.clock[u] \in Nat
      BY <2>1 DEF Clock, ClockSet
    <2>3. ASSUME NEW j \in Kind, NEW u \in Thread
          PROVE  /\ \A p \in ml[j][u] : p.clk \in Nat
                 /\ \A i \in 1..Len(sl[j][u]) : sl[j][u][i].clk \in Nat
                 /\ slp[j][u].clk \in Nat
      <3>1. ml[j][u] \in SUBSET ClockSet /\ sl[j][u] \in Seq(ClockCnt)
            /\ slp[j][u] \in [clk : Nat, iszero : BOOLEAN]
        BY <1>0
      <3>2. \A p \in ml[j][u] : p.clk \in Nat BY <3>1 DEF ClockSet
      <3>3. \A i \in 1..Len(sl[j][u]) : sl[j][u][i] \in ClockCnt BY <3>1
      <3>4. \A i \in 1..Len(sl[j][u]) : sl[j][u][i].clk \in Nat BY <3>3 DEF ClockCnt
      <3> QED BY <3>1, <3>2, <3>4
    <2> QED BY <2>1, <2>2, <2>3
  <1>b. NoThread \notin Thread /\ (accu.thd # NoThread => accu.thd \in Thread)
    BY <1>0, NullAssumption DEF AccuMeta
  <1>1. CASE UNCHANGED allVars
    BY <1>1 DEF allVars, vars, callVars, hybridVars, metaVars, programVars, WitnessInv, SegmentInv
  <1>2. ASSUME NEW t \in Thread, LockStep(t)
        PROVE  /\ \A u \in Thread, J \in SUBSET Kind, w \in Thread, x \in Nat :
                    Witness(pc, hb, seen, vc, u, J, w, x) => Witness(pc', hb', seen', vc', u, J, w, x)
               /\ \A u \in Thread, J \in SUBSET Kind, w \in Thread, x \in Nat :
                    Witness(pc, hb, seen, accuVc, u, J, w, x)
                      => Witness(pc', hb', seen', accuVc', u, J, w, x)
               /\ hg.state # "NEW" =>
                    \E a \in seen' : \A w \in Thread : KnownIn(pc', hb', vc', a.thd, a.n, w, hg.clock[w])
    <2>1. ClockMove(t, vc, vc') /\ ClockMove(t, accuVc, accuVc') BY <1>0, <1>2, VcStep, AccuStep
    <2>2. vc' \in [Thread -> Clock] /\ accuVc' \in [Thread -> Clock]
      BY <1>0, <1>2, LockIInvStep DEF LockIInv, TypeOK, AccessTypes
    <2>3. hg.state # "NEW" =>
            \E a \in seen' : \A w \in Thread : KnownIn(pc', hb', vc', a.thd, a.n, w, hg.clock[w])
      BY <1>0, <1>2, <1>a, <2>1, <2>2, AccessKept DEF SegmentInv
    <2> QED BY <1>0, <1>2, <2>1, <2>2, <2>3, WitnessKept
  <1>3. CASE Quiet /\ \E t \in Thread : LockStep(t)
    <2>1. UNCHANGED <<er, rt, accu, ml, sl, slp>> BY <1>3 DEF Quiet, hybridVars, metaVars
    <2>2. hg'.clock = hg.clock /\ (hg.state = "NEW" => hg'.state = "NEW")
      BY <1>0, <1>3, HgJoinedProp DEF Quiet
    <2>3. SegmentInv' BY <1>2, <1>3, <2>2 DEF SegmentInv
    <2>4. \A j \in Kind : {j} \in SUBSET Kind OBVIOUS
    <2>5. "R" \in Kind /\ "W" \in Kind BY DEF Kind
    <2>6. WitnessInv' BY <1>2, <1>3, <1>a, <1>b, <2>1, <2>4, <2>5 DEF WitnessInv
    <2> QED BY <2>3, <2>6
  <1>4. ASSUME NEW t \in Thread, NEW k \in Kind, Touching(t, k) PROVE WitnessInv' /\ SegmentInv'
    <2>1. LockTouch(t, k) /\ LockStep(t) /\ vc' = vc /\ accuVc' = accuVc
      BY <1>4 DEF Touching, LockStep, LockTouch, Touch
    <2> DEFINE Known(C, u, J, w, x) == Witness(pc', hb', seen', C, u, J, w, x)
    <2>2. /\ \A u \in Thread, J \in SUBSET Kind, w \in Thread, x \in Nat :
               Witness(pc, hb, seen, vc, u, J, w, x) => Known(vc, u, J, w, x)
          /\ \A u \in Thread, J \in SUBSET Kind, w \in Thread, x \in Nat :
               Witness(pc, hb, seen, accuVc, u, J, w, x) => Known(accuVc, u, J, w, x)
      BY <1>2, <2>1
    <2>3. \A J \in SUBSET Kind : k \in J =>
            Known(vc, t, J, t, vc[t][t]) /\ Known(accuVc, t, J, t, accuVc[t][t])
      BY <1>0, <2>1, WitnessNew
    <2>4. \A j \in Kind : {j} \in SUBSET Kind OBVIOUS
    <2>5. "R" \in Kind /\ "W" \in Kind BY DEF Kind
    <2> HIDE DEF Known
    <2>6. /\ accu'.thd # NoThread => Known(accuVc, accu'.thd, {"W"}, accu'.thd, accu'.clk)
          /\ \A u \in Thread : accu'.reads[u].clk > 0 => Known(accuVc, u, {"R"}, u, accu'.reads[u].clk)
      <3>1. /\ \/ accu'.thd = accu.thd /\ accu'.clk = accu.clk
               \/ k = "W" /\ accu'.thd = t /\ accu'.clk = accuVc[t][t]
            /\ \A u \in Thread : \/ accu'.reads[u].clk = 0 \/ accu'.reads[u].clk = accu.reads[u].clk
                                 \/ k = "R" /\ u = t /\ accu'.reads[u].clk = accuVc[t][t]
        BY <1>0, <1>4, AccuAfterProp DEF Touching
      <3>2. accu'.thd # NoThread => Known(accuVc, accu'.thd, {"W"}, accu'.thd, accu'.clk)
        <4>1. CASE accu'.thd = accu.thd /\ accu'.clk = accu.clk
          BY <1>a, <1>b, <2>2, <2>4, <2>5, <4>1 DEF WitnessInv
        <4>2. CASE k = "W" /\ accu'.thd = t /\ accu'.clk = accuVc[t][t]
          BY <2>3, <2>4, <2>5, <4>2
        <4> QED BY <3>1, <4>1, <4>2
      <3>3. ASSUME NEW u \in Thread, accu'.reads[u].clk > 0
            PROVE  Known(accuVc, u, {"R"}, u, accu'.reads[u].clk)
        <4>1. CASE accu'.reads[u].clk = accu.reads[u].clk
          BY <1>a, <2>2, <2>4, <2>5, <3>3, <4>1 DEF WitnessInv
        <4>2. CASE k = "R" /\ u = t /\ accu'.reads[u].clk = accuVc[t][t]
          BY <2>3, <2>4, <2>5, <4>2
        <4>3. accu'.reads[u].clk # 0 BY <3>3
        <4> QED BY <3>1, <4>1, <4>2, <4>3
      <3> QED BY <3>2, <3>3
    <2>7. ASSUME NEW j \in Kind, NEW u \in Thread, NEW p \in ml'[j][u]
          PROVE  Known(vc, u, {j}, u, p.clk)
      <3>1. p \in ml[j][u] \/ (j = k /\ u = t /\ p.clk = vc[t][t])
        <4>1. ml' = MlAfter(t, k) BY <1>4 DEF Touching
        <4>2. CASE MlRedundant(t, k) BY <2>7, <4>1, <4>2, MlAfterProp
        <4>3. CASE ~MlRedundant(t, k)
          <5>1. ml'[j][u] = MlRow(j, u, t, k) BY <4>1, <4>3, MlAfterProp
          <5>2. MlPair(t, k).clk = vc[t][t] BY DEF MlPair, Now
          <5> QED BY <2>7, <5>1, <5>2 DEF MlRow
        <4> QED BY <4>2, <4>3
      <3>2. CASE p \in ml[j][u] BY <1>a, <2>2, <2>4, <3>2 DEF WitnessInv
      <3>3. CASE j = k /\ u = t /\ p.clk = vc[t][t] BY <2>3, <2>4, <3>3
      <3> QED BY <3>1, <3>2, <3>3
    <2>8. ASSUME NEW j \in Kind, NEW u \in Thread, NEW i \in 1..Len(sl'[j][u])
          PROVE  Known(vc, u, {j}, u, sl'[j][u][i].clk)
      <3>1. sl'[j][u] = IF j = k /\ u = t THEN SlNoted(sl[k][t], t) ELSE sl[j][u]
        BY <1>4, SlAfterProp DEF Touching
      <3>2. \/ \E g \in 1..Len(sl[j][u]) : sl'[j][u][i].clk = sl[j][u][g].clk
            \/ j = k /\ u = t /\ sl'[j][u][i].clk = vc[t][t]
        <4>1. CASE ~(j = k /\ u = t) BY <2>8, <3>1, <4>1
        <4>2. CASE j = k /\ u = t
          <5> DEFINE list == sl[k][t]
                     n == SlNoted(list, t)
          <5>1. list \in Seq(ClockCnt) /\ Len(list) <= MaxListLen /\ Now(t) \in Nat /\ lc[t] \in Nat
            BY <1>0, BaseTypes
          <5>2. i \in 1..Len(n) /\ sl'[j][u] = n BY <2>8, <3>1, <4>2
          <5>3. n \in Seq(ClockCnt) /\ n[Len(n)].clk = vc[t][t] BY <5>1, SlNotedCases DEF Now
          <5>4. \/ /\ Len(n) = Len(list)
                   /\ \A h \in 1..Len(n) : h # Len(n) => n[h] = list[h]
                \/ /\ Len(n) = Len(list) + 1
                   /\ \A h \in 1..Len(list) : n[h] = list[h]
                \/ /\ Len(n) = Len(list)
                   /\ \A h \in 1..Len(n) : h # Len(n) => n[h] = list[h + 1]
            <6> HIDE DEF list
            <6> QED BY <5>1, SlNotedCases
          <5>5. list = sl[j][u] BY <4>2
          <5> HIDE DEF n, list
          <5>6. Len(n) \in Nat /\ Len(list) \in Nat BY <5>1, <5>3
          <5>7. CASE i = Len(n) BY <4>2, <5>2, <5>3, <5>7
          <5>8. CASE i # Len(n)
            <6>1. i + 1 \in 1..Len(n) /\ (Len(n) = Len(list) + 1 => i \in 1..Len(list))
              BY <5>2, <5>6, <5>8
            <6> QED BY <5>2, <5>4, <5>5, <5>8, <6>1
          <5> QED BY <5>7, <5>8
        <4> QED BY <4>1, <4>2
      <3>3. CASE \E g \in 1..Len(sl[j][u]) : sl'[j][u][i].clk = sl[j][u][g].clk
        BY <1>a, <2>2, <2>4, <3>3 DEF WitnessInv
      <3>4. CASE j = k /\ u = t /\ sl'[j][u][i].clk = vc[t][t] BY <2>3, <2>4, <3>4
      <3> QED BY <3>2, <3>3, <3>4
    <2>9. ASSUME NEW j \in Kind, NEW u \in Thread, slp'[j][u].clk > 0
          PROVE  Known(vc, u, {j}, u, slp'[j][u].clk)
      <3>1. \/ slp'[j][u] = slp[j][u]
            \/ j = k /\ u = t /\ slp'[j][u] = [clk |-> Now(t), iszero |-> lc[t] = 0]
        BY <1>4, SlpAfterProp DEF Touching
      <3>2. CASE slp'[j][u] = slp[j][u] BY <1>a, <2>2, <2>4, <2>9, <3>2 DEF WitnessInv
      <3>3. CASE j = k /\ u = t /\ slp'[j][u] = [clk |-> Now(t), iszero |-> lc[t] = 0]
        <4>1. slp'[j][u].clk = vc[t][t] BY <3>3 DEF Now
        <4> QED BY <2>3, <2>4, <3>3, <4>1
      <3> QED BY <3>1, <3>2, <3>3
    <2>10. ASSUME NEW u \in Thread, rt'.threads[u] # 0
           PROVE  Known(vc, u, Kind, u, rt'.threads[u])
      <3>1. Kept(rt', rt, t) BY <1>0, <1>4, RtAfterProp DEF Touching
      <3>2. \/ rt'.threads[u] = rt.threads[u]
            \/ u = t /\ rt'.threads[u] = vc[t][t]
        <4>1. CASE u = t BY <2>10, <3>1, <4>1 DEF Kept
        <4>2. CASE u # t BY <2>10, <3>1, <4>2 DEF Kept
        <4> QED BY <4>1, <4>2
      <3>3. CASE rt'.threads[u] = rt.threads[u] BY <1>a, <2>2, <2>10, <3>3 DEF WitnessInv
      <3>4. CASE u = t /\ rt'.threads[u] = vc[t][t] BY <2>3, <3>4
      <3> QED BY <3>2, <3>3, <3>4
    <2>11. WitnessInv'
      BY <2>1, <2>6, <2>7, <2>8, <2>9, <2>10 DEF WitnessInv, Known
    <2>12. SegmentInv'
      <3>1. \/ hg.state # "NEW" /\ hg'.clock = hg.clock
            \/ hg'.clock = vc[t]
        BY <1>0, <1>4, HgAfterProp DEF Touching
      <3>2. CASE hg.state # "NEW" /\ hg'.clock = hg.clock BY <1>2, <2>1, <3>2 DEF SegmentInv
      <3>3. CASE hg'.clock = vc[t]
        <4> DEFINE a == Making(t, k)
        <4>1. a \in seen' /\ a.thd = t /\ \A w \in Thread : KnownIn(pc', hb', vc, t, a.n, w, vc[t][w])
          BY <1>0, <2>1, WitnessNew
        <4> HIDE DEF a
        <4> QED BY <2>1, <3>3, <4>1 DEF SegmentInv
      <3> QED BY <3>1, <3>2, <3>3
    <2> QED BY <2>11, <2>12
  <1> QED BY <1>1, <1>3, <1>4, HybridsSteps

\* The witness of a clock that t does not know races with t's access.
LEMMA WitnessRaces ==
  ASSUME LockIInv, NEW t \in Thread, NEW k \in Kind, pc[t] = "run",
         NEW C \in [Thread -> Clock], NEW u \in Thread, NEW J \in SUBSET Kind, NEW w \in Thread,
         NEW x \in Nat, Witness(pc, hb, seen, C, u, J, w, x), x > C[t][w]
  PROVE  u # t => \E j \in J : <<u, j, t, k>> \in Unordered(t, k)
  <1>1. PICK a \in seen : a.thd = u /\ a.kind \in J /\ KnownIn(pc, hb, C, u, a.n, w, x)
    BY DEF Witness
  <1>2. a.n \in Nat /\ TypeOK BY DEF LockIInv, AccessTypes, Access
  <1>3. a.n > hb[t][u] BY <1>1, <1>2, ConcurrentAccess
  <1> QED BY <1>1, <1>3 DEF Unordered

\* Every report of an access is of a race that the access makes.
LEMMA ReportsRace ==
  ASSUME HybridsBase, WitnessInv, SegmentInv, NEW t \in Thread, NEW k \in Kind, pc[t] = "run"
  PROVE  /\ \A d \in Detectors \ {"Eraser", "RaceTrack", "Helgrind"} :
              ReportsOf(d, t, k) \subseteq Unordered(t, k)
         /\ \A r \in RtReports(t, k) : \E s \in Unordered(t, k) : s[1] = r[1] /\ s[3] = r[3]
         /\ \A r \in HgReports(t, k) : \E s \in Unordered(t, k) : s[3] = r[3] /\ s[4] = r[4]
  <1>0. /\ LockIInv /\ TypeOK /\ TablesInv /\ AccessTypes /\ vc \in [Thread -> Clock] /\ HbInv
        /\ accuVc \in [Thread -> Clock]
        /\ rt \in RtMeta /\ (rt.racy <=> rt.state = "RACY") /\ HgProper(hg) /\ accu \in AccuMeta
        /\ ml \in [Kind -> [Thread -> SUBSET ClockSet]]
        /\ sl \in [Kind -> [Thread -> Seq(ClockCnt)]]
        /\ slp \in [Kind -> [Thread -> [clk : Nat, iszero : BOOLEAN]]]
    BY BaseTypes DEF HybridsBase, MetaTypes, TypeOK, AccessTypes
  <1>k. /\ "R" \in Kind /\ "W" \in Kind /\ Against(k) \subseteq Kind
        /\ \A j \in Kind : {j} \in SUBSET Kind
    BY DEF Kind, Against
  <1>n. NoThread \notin Thread BY NullAssumption
  <1>c. \A u \in Thread : vc[t][u] \in Nat /\ accuVc[t][u] \in Nat
    <2>1. vc[t] \in Clock /\ accuVc[t] \in Clock BY <1>0
    <2> QED BY <2>1 DEF Clock
  <1>s. ASSUME NEW u \in Thread \ {t}, NEW j \in Kind, NEW C \in [Thread -> Clock], NEW x \in Nat,
               Witness(pc, hb, seen, C, u, {j}, u, x), x > C[t][u]
        PROVE  <<u, j, t, k>> \in Unordered(t, k)
    <2>1. PICK a \in seen : a.thd = u /\ a.kind = j /\ KnownIn(pc, hb, C, u, a.n, u, x)
      BY <1>s DEF Witness
    <2>2. a.n \in Nat BY <1>0 DEF AccessTypes, Access
    <2>3. a.n > hb[t][u] BY <1>0, <1>s, <2>1, <2>2, ConcurrentAccess
    <2> QED BY <2>1, <2>3 DEF Unordered
  <1>1. AccuReports(t, k) \subseteq Unordered(t, k)
    <2> SUFFICES ASSUME NEW r \in AccuReports(t, k) PROVE r \in Unordered(t, k) OBVIOUS
    <2>1. PICK u \in Thread \ {t}, j \in Kind :
            /\ r = <<u, j, t, k>>
            /\ j = "W" => accu.thd = u /\ accu.clk > accuVc[t][u]
            /\ j = "R" => accu.reads[u].clk > accuVc[t][u]
      BY <1>0, AccuReportsProp
    <2>2. accu.clk \in Nat /\ \A v \in Thread : accu.reads[v].clk \in Nat
      BY <1>0 DEF AccuMeta, ClockSet
    <2>3. CASE j = "W" BY <1>0, <1>n, <1>s, <2>1, <2>2, <2>3 DEF WitnessInv
    <2>4. CASE j = "R"
      <3>1. accu.reads[u].clk > 0 BY <1>c, <2>1, <2>2, <2>4
      <3> QED BY <1>0, <1>s, <2>1, <2>2, <2>4, <3>1 DEF WitnessInv
    <2> QED BY <2>3, <2>4 DEF Kind
  <1>2. MlReports(t, k) \subseteq Unordered(t, k)
    <2> SUFFICES ASSUME NEW r \in MlReports(t, k) PROVE r \in Unordered(t, k) OBVIOUS
    <2>1. PICK j \in Against(k), u \in Thread \ {t} :
            r = <<u, j, t, k>> /\ \E p \in ml[j][u] : p.clk > vc[t][u]
      BY DEF MlReports, RacesWith
    <2>2. PICK p \in ml[j][u] : p.clk > vc[t][u] BY <2>1
    <2>3. j \in Kind /\ p \in ClockSet BY <1>0, <1>k, <2>1
    <2>4. p.clk \in Nat BY <2>3 DEF ClockSet
    <2> QED BY <1>0, <1>s, <2>1, <2>2, <2>3, <2>4 DEF WitnessInv
  <1>3. SlReports(t, k) \subseteq Unordered(t, k)
    <2> SUFFICES ASSUME NEW r \in SlReports(t, k) PROVE r \in Unordered(t, k) OBVIOUS
    <2>1. PICK j \in Against(k), u \in Thread \ {t} :
            r = <<u, j, t, k>> /\ \E i \in 1..Len(sl[j][u]) : sl[j][u][i].clk > vc[t][u]
      BY DEF SlReports, RacesWith
    <2>2. PICK i \in 1..Len(sl[j][u]) : sl[j][u][i].clk > vc[t][u] BY <2>1
    <2>3. j \in Kind /\ sl[j][u] \in Seq(ClockCnt) BY <1>0, <1>k, <2>1
    <2>4. sl[j][u][i] \in ClockCnt BY <2>3
    <2>5. sl[j][u][i].clk \in Nat BY <2>4 DEF ClockCnt
    <2> QED BY <1>0, <1>s, <2>1, <2>2, <2>3, <2>5 DEF WitnessInv
  <1>4. SlpReports(t, k) \subseteq Unordered(t, k)
    <2> SUFFICES ASSUME NEW r \in SlpReports(t, k) PROVE r \in Unordered(t, k) OBVIOUS
    <2>1. PICK j \in Against(k), u \in Thread \ {t} :
            r = <<u, j, t, k>> /\ slp[j][u].clk > vc[t][u]
      BY DEF SlpReports, RacesWith
    <2>3. j \in Kind /\ slp[j][u] \in [clk : Nat, iszero : BOOLEAN] BY <1>0, <1>k, <2>1
    <2>4. slp[j][u].clk \in Nat BY <2>3
    <2>5. slp[j][u].clk > 0 BY <1>c, <2>1, <2>4
    <2> QED BY <1>0, <1>s, <2>1, <2>3, <2>4, <2>5 DEF WitnessInv
  <1>5. ASSUME NEW r \in RtReports(t, k)
        PROVE  \E s \in Unordered(t, k) : s[1] = r[1] /\ s[3] = r[3]
    <2> DEFINE x == RtAfter(t, k)
    <2>1. PICK u \in Thread \ {t} : x.threads[u] # 0 /\ r[1] = u /\ r[3] = t
      BY DEF RtReports, RacesWith
    <2>2. x.racy /\ ~rt.racy BY DEF RtReports
    <2>3. Purged(x, t) /\ Kept(x, rt, t) BY <1>0, <2>2, RtAfterProp
    <2>4. rt.threads[u] # 0 /\ rt.threads[u] > vc[t][u] BY <2>1, <2>3 DEF Purged, Kept
    <2>5. rt.threads[u] \in Nat BY <1>0 DEF RtMeta, Clock
    <2>6. Witness(pc, hb, seen, vc, u, Kind, u, rt.threads[u]) BY <2>4 DEF WitnessInv
    <2>7. \E j \in Kind : <<u, j, t, k>> \in Unordered(t, k)
      BY <1>0, <2>4, <2>5, <2>6, WitnessRaces
    <2>8. \A j : <<u, j, t, k>>[1] = u /\ <<u, j, t, k>>[3] = t OBVIOUS
    <2> HIDE DEF x
    <2> QED BY <2>1, <2>7, <2>8
  <1>6. ASSUME NEW r \in HgReports(t, k)
        PROVE  \E s \in Unordered(t, k) : s[3] = r[3] /\ s[4] = r[4]
    <2>1. hg.state # "RACE" /\ HgAfter(t, k).state = "RACE" /\ r[3] = t /\ r[4] = k
      BY DEF HgReports
    <2>2. hg.state # "NEW" /\ ~HgOrdered(hg, t) BY <1>0, <2>1, HgAfterProp
    <2>3. hg.clock \in Clock BY <1>0 DEF HgProper, HgMeta
    <2>4. \A w \in Thread : hg.clock[w] \in Nat BY <2>3 DEF Clock
    <2>5. PICK w \in Thread : ~(hg.clock[w] <= vc[t][w]) BY <2>2 DEF HgOrdered, HappensBefore
    <2>6. hg.clock[w] > vc[t][w] BY <1>c, <2>4, <2>5
    <2>7. PICK a \in seen : KnownIn(pc, hb, vc, a.thd, a.n, w, hg.clock[w])
      BY <2>2 DEF SegmentInv
    <2>8. a.thd \in Thread /\ a.n \in Nat /\ a.n \in 1..Len(epochs[a.thd])
      BY <1>0 DEF AccessTypes, Access, LockIInv, SeenInv
    <2>9. a.n > hb[t][a.thd] BY <1>0, <2>4, <2>6, <2>7, <2>8, ConcurrentAccess
    <2>10. a.thd # t
      <3>1. hb[t][t] = Len(epochs[t]) /\ epochs[t] \in Seq(Nat) BY <1>0 DEF HbInv, TypeOK
      <3> QED BY <2>8, <2>9, <3>1
    <2>11. <<a.thd, a.kind, t, k>> \in Unordered(t, k) BY <2>9, <2>10 DEF Unordered
    <2> QED BY <2>1, <2>11
  <1> QED BY <1>1, <1>2, <1>3, <1>4, <1>5, <1>6 DEF ReportsOf, Detectors

LEMMA ConcurrentStep ==
  ASSUME HybridsBase, WitnessInv, SegmentInv, ReportsConcurrent, [HybridsNext]_allVars
  PROVE  ReportsConcurrent'
  <1>1. CASE UNCHANGED allVars BY <1>1 DEF allVars, hybridVars, ReportsConcurrent
  <1>2. CASE Quiet BY <1>2 DEF Quiet, hybridVars, ReportsConcurrent
  <1>3. ASSUME NEW t \in Thread, NEW k \in Kind, Touching(t, k) PROVE ReportsConcurrent'
    <2>1. pc[t] = "run" /\ unordered' = unordered \cup Unordered(t, k)
      BY <1>3 DEF Touching, LockTouch, Touch
    <2>2. \A d \in Detectors : reports'[d] = reports[d] \cup ReportsOf(d, t, k)
      BY <1>3, ReportsStep DEF HybridsBase, MetaTypes
    <2>3. /\ reports'["RaceTrack"] = reports["RaceTrack"] \cup RtReports(t, k)
          /\ reports'["Helgrind"] = reports["Helgrind"] \cup HgReports(t, k)
      BY <2>2 DEF Detectors, ReportsOf
    <2>4. \A d \in Detectors \ {"Eraser", "RaceTrack", "Helgrind"} : reports'[d] \subseteq unordered'
      BY <2>1, <2>2, ReportsRace DEF ReportsConcurrent
    <2>5. \A r \in reports'["RaceTrack"] : \E s \in unordered' : s[1] = r[1] /\ s[3] = r[3]
      BY <2>1, <2>3, ReportsRace DEF ReportsConcurrent
    <2>6. \A r \in reports'["Helgrind"] : \E s \in unordered' : s[3] = r[3] /\ s[4] = r[4]
      BY <2>1, <2>3, ReportsRace DEF ReportsConcurrent
    <2> QED BY <2>4, <2>5, <2>6 DEF ReportsConcurrent
  <1> QED BY <1>1, <1>2, <1>3, HybridsSteps

\* What AccuLock, MultiLock-HB, SimpleLock and SimpleLock+ report are pairs of
\* accesses that creation and join leave unordered; RaceTrack names two threads
\* that have such accesses, Helgrind+ an access that races with an earlier one.
THEOREM HybridsConcurrent == HybridsSpec => []ReportsConcurrent
  <1>1. HybridsInit => WitnessInv /\ SegmentInv /\ ReportsConcurrent
    <2> SUFFICES ASSUME HybridsInit PROVE WitnessInv /\ SegmentInv /\ ReportsConcurrent OBVIOUS
    <2>1. /\ accu.thd = NoThread /\ hg.state = "NEW"
          /\ \A u \in Thread : accu.reads[u].clk = 0 /\ rt.threads[u] = 0
          /\ \A j \in Kind, u \in Thread : ml[j][u] = {} /\ sl[j][u] = << >> /\ slp[j][u].clk = 0
          /\ \A d \in Detectors : reports[d] = {}
      BY ZeroProp DEF HybridsInit, StatesInit
    <2>2. \A j \in Kind, u \in Thread : Len(sl[j][u]) = 0 BY <2>1
    <2>3. WitnessInv BY <2>1, <2>2 DEF WitnessInv
    <2> QED BY <2>1, <2>3 DEF SegmentInv, ReportsConcurrent, Detectors
  <1>2. HybridsInit => HybridsBase BY BaseInit
  <1>3. HybridsBase /\ WitnessInv /\ SegmentInv /\ ReportsConcurrent /\ [HybridsNext]_allVars =>
          (HybridsBase /\ WitnessInv /\ SegmentInv /\ ReportsConcurrent)'
    BY BaseStep, WitnessStep, ConcurrentStep
  <1> QED BY <1>1, <1>2, <1>3, PTL DEF HybridsSpec
-----------------------------------------------------------------------------
(* What is dropped. *)

Of(u, j) == {b \in seen : b.thd = u /\ b.kind = j}

\* What the lists stand for.
PruneInv ==
  /\ \A j \in Kind, u \in Thread : \A p \in ml[j][u] :
       \E a \in Of(u, j) : a.clk = p.clk /\ LocksOf(a) = p.locks
  /\ \A a \in seen : \E j \in {a.kind, "W"} : \E p \in ml[j][a.thd] :
       p.clk >= a.clk /\ p.locks \subseteq LocksOf(a)
  /\ \A j \in Kind, u \in Thread : Listed(sl[j][u], Of(u, j))

LEMMA PruneStep ==
  ASSUME HybridsBase, PruneInv, [HybridsNext]_allVars
  PROVE  PruneInv'
  <1>0. ASSUME seen' = seen, ml' = ml, sl' = sl PROVE PruneInv'
    <2>1. \A u, j : Of(u, j)' = Of(u, j) BY <1>0 DEF Of
    <2>2. ASSUME NEW j \in Kind, NEW u \in Thread PROVE Listed(sl[j][u], Of(u, j))'
      <3>1. Listed(sl'[j][u], Of(u, j)') BY <1>0, <2>1 DEF PruneInv
      <3> QED BY <3>1 DEF Listed
    <2>3. \A j \in Kind, u \in Thread : \A p \in ml'[j][u] :
            \E a \in Of(u, j)' : a.clk = p.clk /\ LocksOf(a) = p.locks
      BY <1>0, <2>1 DEF PruneInv
    <2>4. \A a \in seen' : \E j \in {a.kind, "W"} : \E p \in ml'[j][a.thd] :
            p.clk >= a.clk /\ p.locks \subseteq LocksOf(a)
      BY <1>0 DEF PruneInv
    <2> QED BY <2>2, <2>3, <2>4 DEF PruneInv
  <1>1. CASE UNCHANGED allVars
    BY <1>0, <1>1 DEF allVars, programVars, hybridVars, metaVars
  <1>2. CASE Quiet BY <1>0, <1>2 DEF Quiet, hybridVars, metaVars
  <1>3. ASSUME NEW t \in Thread, NEW k \in Kind, Touching(t, k) PROVE PruneInv'
    <2> DEFINE m == Making(t, k)
               n == MlPair(t, k)
    <2>0. /\ ml \in [Kind -> [Thread -> SUBSET ClockSet]] /\ TablesInv /\ HbInv /\ SeenInv /\ TypeOK
          /\ sl \in [Kind -> [Thread -> Seq(ClockCnt)]] /\ AccessTypes
          /\ \A j \in Kind, u \in Thread : Len(sl[j][u]) <= MaxListLen
          /\ Now(t) \in Nat /\ lc[t] \in Nat
          /\ lc[t] = 0 <=> HeldWrite(t) \cup HeldRead(t) = {}
      BY BaseTypes DEF HybridsBase, MetaTypes
    <2>1. seen' = seen \cup {m} /\ pc[t] = "run" BY <1>3 DEF Touching, LockTouch, Touch
    <2>2. /\ m.thd = t /\ m.kind = k /\ m.clk = Now(t)
          /\ m.wr = HeldWrite(t) /\ m.rd = HeldRead(t)
      BY DEF Making, Now
    <2>3. LocksOf(m) = Protecting(t, k)
      BY <2>0, <2>2, TableLocks DEF LocksOf, Covering, Held
    <2>4. n.clk = Now(t) /\ n.locks = Protecting(t, k) BY DEF MlPair
    <2>5. \A a \in seen : a.thd \in Thread /\ a.kind \in Kind /\ a.clk \in Nat /\ a.n \in Nat
      BY <2>0 DEF AccessTypes, Access
    <2>6. \A j \in Kind, u \in Thread : \A p \in ml[j][u] : p.clk \in Nat
      <3>1. \A j \in Kind, u \in Thread : ml[j][u] \in SUBSET ClockSet BY <2>0
      <3> QED BY <3>1 DEF ClockSet
    <2> HIDE DEF m, n
    <2>7. \A j \in Kind, u \in Thread :
            Of(u, j)' = IF j = k /\ u = t THEN Of(u, j) \cup {m} ELSE Of(u, j)
      BY <2>1, <2>2 DEF Of
    <2>8. /\ MlRedundant(t, k) => ml' = ml
          /\ ~MlRedundant(t, k) => \A j \in Kind, u \in Thread : ml'[j][u] = MlRow(j, u, t, k)
      BY <1>3, MlAfterProp DEF Touching
    <2>9. ASSUME NEW j \in Kind, NEW u \in Thread, NEW p \in ml'[j][u]
          PROVE  \E a \in Of(u, j)' : a.clk = p.clk /\ LocksOf(a) = p.locks
      <3>1. p \in ml[j][u] \/ (j = k /\ u = t /\ p = n)
        <4>1. CASE MlRedundant(t, k) BY <2>8, <2>9, <4>1
        <4>2. CASE ~MlRedundant(t, k)
          <5>1. p \in MlRow(j, u, t, k) BY <2>8, <2>9, <4>2
          <5> QED BY <5>1 DEF MlRow, n
        <4> QED BY <4>1, <4>2
      <3>2. CASE p \in ml[j][u]
        <4>1. PICK a \in Of(u, j) : a.clk = p.clk /\ LocksOf(a) = p.locks BY <3>2 DEF PruneInv
        <4>2. a \in Of(u, j)' BY <2>7, <4>1
        <4> QED BY <4>1, <4>2
      <3>3. CASE j = k /\ u = t /\ p = n BY <2>2, <2>3, <2>4, <2>7, <3>3
      <3> QED BY <3>1, <3>2, <3>3
    <2>10. ASSUME NEW a \in seen
           PROVE  \E j \in {a.kind, "W"} : \E p \in ml'[j][a.thd] :
                    p.clk >= a.clk /\ p.locks \subseteq LocksOf(a)
      <3>0. PICK j \in {a.kind, "W"} :
              \E p \in ml[j][a.thd] : p.clk >= a.clk /\ p.locks \subseteq LocksOf(a)
        BY DEF PruneInv
      <3>1. PICK p \in ml[j][a.thd] : p.clk >= a.clk /\ p.locks \subseteq LocksOf(a) BY <3>0
      <3>2. j \in Kind BY <2>5 DEF Kind
      <3>3. CASE p \in ml'[j][a.thd] BY <3>1, <3>3
      <3>4. CASE p \notin ml'[j][a.thd]
        <4>1. ~MlRedundant(t, k) /\ a.thd = t /\ ~(j = "W" /\ k = "R") /\ p \in MlSubsumed(t, k)
          <5>1. ~MlRedundant(t, k) BY <2>8, <3>1, <3>4
          <5>2. a.thd \in Thread BY <2>5
          <5>3. p \notin MlRow(j, a.thd, t, k) BY <2>8, <3>2, <3>4, <5>1, <5>2
          <5> QED BY <3>1, <5>1, <5>3 DEF MlRow
        <4>2. p.clk <= Now(t) /\ Protecting(t, k) \subseteq p.locks BY <4>1 DEF MlSubsumed
        <4>3. n \in ml'[k][t] BY <2>8, <4>1 DEF MlRow, n, Kind
        <4>4. k \in {a.kind, "W"} BY <2>5, <4>1 DEF Kind
        <4>5. n.clk >= a.clk BY <2>0, <2>4, <2>5, <2>6, <3>1, <3>2, <4>2
        <4> QED BY <2>4, <3>1, <4>1, <4>2, <4>3, <4>4, <4>5
      <3> QED BY <3>3, <3>4
    <2>11. \E j \in {m.kind, "W"} : \E p \in ml'[j][m.thd] :
             p.clk >= m.clk /\ p.locks \subseteq LocksOf(m)
      <3>1. CASE MlRedundant(t, k)
        <4>1. PICK j \in {k, "W"} :
                \E p \in ml[j][t] : p.clk = Now(t) /\ p.locks \subseteq Protecting(t, k)
          BY <3>1 DEF MlRedundant
        <4>2. PICK p \in ml[j][t] : p.clk = Now(t) /\ p.locks \subseteq Protecting(t, k) BY <4>1
        <4>3. p \in ml'[j][m.thd] /\ j \in {m.kind, "W"} BY <2>2, <2>8, <3>1, <4>1, <4>2
        <4>4. p.clk >= m.clk /\ p.locks \subseteq LocksOf(m) BY <2>0, <2>2, <2>3, <4>2
        <4> QED BY <4>3, <4>4
      <3>2. CASE ~MlRedundant(t, k)
        <4>1. n \in ml'[k][t] BY <2>8, <3>2 DEF MlRow, n, Kind
        <4>2. n.clk >= m.clk /\ n.locks \subseteq LocksOf(m) BY <2>0, <2>2, <2>3, <2>4
        <4>3. n \in ml'[m.kind][m.thd] BY <2>2, <4>1
        <4> QED BY <4>2, <4>3
      <3> QED BY <3>1, <3>2
    <2>12. \A j \in Kind, u \in Thread :
             sl'[j][u] = IF j = k /\ u = t THEN SlNoted(sl[k][t], t) ELSE sl[j][u]
      BY <1>3, SlAfterProp DEF Touching
    <2>13. Listed(SlNoted(sl[k][t], t), Of(t, k) \cup {m})
      <3>1. \A a \in Of(t, k) : a.clk <= Now(t)
        <4> SUFFICES ASSUME NEW a \in Of(t, k) PROVE a.clk <= Now(t) OBVIOUS
        <4>1. a \in seen /\ a.thd = t BY DEF Of
        <4>2. a.n \in 1..Len(epochs[t]) /\ KnownIn(pc, hb, vc, t, a.n, t, a.clk)
          BY <2>0, <4>1 DEF SeenInv
        <4>3. epochs[t] \in Seq(Nat) /\ hb[t][t] = Len(epochs[t]) BY <2>0 DEF TypeOK, HbInv
        <4>4. a.n <= hb[t][t] BY <4>2, <4>3
        <4> QED BY <2>1, <4>2, <4>4 DEF KnownIn, LivePC, Now
      <3>2. Of(t, k) \in SUBSET Access BY <2>0 DEF Of, AccessTypes
      <3>3. sl[k][t] \in Seq(ClockCnt) /\ Len(sl[k][t]) <= MaxListLen BY <2>0
      <3>4. Listed(sl[k][t], Of(t, k)) BY DEF PruneInv
      <3>5. lc[t] = 0 <=> m.wr \cup m.rd = {} BY <2>0, <2>2
      <3> QED BY <2>0, <2>2, <3>1, <3>2, <3>3, <3>4, <3>5, SlNotedListed
    <2>14. ASSUME NEW j \in Kind, NEW u \in Thread
           PROVE  Listed(sl[j][u], Of(u, j))'
      <3>1. CASE j = k /\ u = t
        <4>1. sl'[j][u] = SlNoted(sl[k][t], t) /\ Of(u, j)' = Of(t, k) \cup {m}
          BY <2>7, <2>12, <3>1
        <4>2. Listed(sl'[j][u], Of(u, j)') BY <2>13, <4>1
        <4> QED BY <4>2 DEF Listed
      <3>2. CASE ~(j = k /\ u = t)
        <4>1. sl'[j][u] = sl[j][u] /\ Of(u, j)' = Of(u, j) BY <2>7, <2>12, <3>2
        <4>2. Listed(sl'[j][u], Of(u, j)') BY <4>1 DEF PruneInv
        <4> QED BY <4>2 DEF Listed
      <3> QED BY <3>1, <3>2
    <2>15. \A a \in seen' : \E j \in {a.kind, "W"} : \E p \in ml'[j][a.thd] :
             p.clk >= a.clk /\ p.locks \subseteq LocksOf(a)
      BY <2>1, <2>10, <2>11
    <2> QED BY <2>9, <2>14, <2>15 DEF PruneInv
  <1> QED BY <1>1, <1>2, <1>3, HybridsSteps

\* MultiLock-HB reports what all accesses would give, up to the kind.
LEMMA MlLosesNothing ==
  ASSUME HybridsBase, PruneInv, NEW t \in Thread, NEW k \in Kind
  PROVE  /\ MlReports(t, k) \subseteq Unpruned(t, k)
         /\ \A r \in Unpruned(t, k) : \E j \in {r[2], "W"} : <<r[1], j, r[3], r[4]>> \in MlReports(t, k)
  <1> DEFINE mine == LocksOf(Making(t, k))
  <1>0. /\ ml \in [Kind -> [Thread -> SUBSET ClockSet]] /\ TablesInv /\ TypeOK /\ AccessTypes
        /\ vc[t] \in Clock
    BY BaseTypes DEF HybridsBase, MetaTypes
  <1>1. mine = Protecting(t, k)
    <2>1. /\ Making(t, k).kind = k /\ Making(t, k).wr = HeldWrite(t)
          /\ Making(t, k).rd = HeldRead(t)
      BY DEF Making
    <2> QED BY <1>0, <2>1, TableLocks DEF LocksOf, Covering, Held
  <1>2. "W" \in Against(k) /\ Against(k) \subseteq Kind BY DEF Against, Kind
  <1>3. Unpruned(t, k) = {<<a.thd, a.kind, t, k>> : a \in {b \in seen :
          b.thd # t /\ b.kind \in Against(k) /\ b.clk > vc[t][b.thd] /\ Disjoint(LocksOf(b), mine)}}
    BY DEF Unpruned, Against_
  <1>4. \A a \in seen : a.thd \in Thread /\ a.kind \in Kind /\ a.clk \in Nat /\ vc[t][a.thd] \in Nat
    BY <1>0 DEF AccessTypes, Access, Clock
  <1>5. \A j \in Kind, u \in Thread : \A p \in ml[j][u] : p.clk \in Nat
    <2>1. \A j \in Kind, u \in Thread : ml[j][u] \in SUBSET ClockSet BY <1>0
    <2> QED BY <2>1 DEF ClockSet
  <1> HIDE DEF mine
  <1>6. ASSUME NEW r \in MlReports(t, k) PROVE r \in Unpruned(t, k)
    <2>1. PICK j \in Against(k), u \in Thread \ {t} :
            r = <<u, j, t, k>> /\ \E p \in ml[j][u] : p.clk > vc[t][u] /\ Disjoint(p.locks, Protecting(t, k))
      BY <1>6 DEF MlReports, RacesWith
    <2>2. PICK p \in ml[j][u] : p.clk > vc[t][u] /\ Disjoint(p.locks, Protecting(t, k)) BY <2>1
    <2>3. PICK a \in Of(u, j) : a.clk = p.clk /\ LocksOf(a) = p.locks BY <1>2, <2>2 DEF PruneInv
    <2>4. a \in seen /\ a.thd = u /\ a.kind = j BY DEF Of
    <2>5. r = <<a.thd, a.kind, t, k>> BY <2>1, <2>4
    <2> QED BY <1>1, <1>3, <2>1, <2>2, <2>3, <2>4, <2>5
  <1>7. ASSUME NEW r \in Unpruned(t, k)
        PROVE  \E j \in {r[2], "W"} : <<r[1], j, r[3], r[4]>> \in MlReports(t, k)
    <2>1. PICK a \in seen : /\ r = <<a.thd, a.kind, t, k>>
                            /\ a.thd # t /\ a.kind \in Against(k) /\ a.clk > vc[t][a.thd]
                            /\ Disjoint(LocksOf(a), mine)
      BY <1>3, <1>7
    <2>9. PICK j \in {a.kind, "W"} :
            \E p \in ml[j][a.thd] : p.clk >= a.clk /\ p.locks \subseteq LocksOf(a)
      BY DEF PruneInv
    <2>2. PICK p \in ml[j][a.thd] : p.clk >= a.clk /\ p.locks \subseteq LocksOf(a) BY <2>9
    <2>3. j \in Against(k) /\ j \in Kind BY <1>2, <2>1
    <2>4. p.clk > vc[t][a.thd] BY <1>4, <1>5, <2>1, <2>2, <2>3
    <2>5. Disjoint(p.locks, Protecting(t, k)) BY <1>1, <2>1, <2>2 DEF Disjoint
    <2>6. <<a.thd, j, t, k>> \in MlReports(t, k)
      BY <1>4, <2>1, <2>2, <2>3, <2>4, <2>5 DEF MlReports, RacesWith
    <2>7. r[1] = a.thd /\ r[2] = a.kind /\ r[3] = t /\ r[4] = k BY <2>1
    <2> QED BY <2>2, <2>6, <2>7
  <1> QED BY <1>6, <1>7

\* SimpleLock reports the pairs with an unlocked access of the last epochs.
LEMMA SlLosesNothing ==
  ASSUME HybridsBase, PruneInv, NEW t \in Thread, NEW k \in Kind
  PROVE  SlReports(t, k) = Unlocked(t, k)
  <1>0. /\ sl \in [Kind -> [Thread -> Seq(ClockCnt)]] /\ AccessTypes
        /\ \A j \in Kind, u \in Thread : Len(sl[j][u]) <= MaxListLen
        /\ lc[t] = 0 <=> HeldWrite(t) \cup HeldRead(t) = {}
    BY BaseTypes DEF HybridsBase, MetaTypes
  <1>1. Against(k) \subseteq Kind BY DEF Against, Kind
  <1>2. ASSUME NEW u \in Thread, NEW j \in Kind, NEW a \in Of(u, j)
        PROVE  a.clk \in LastEpochs(u, j) <=> \E i \in 1..Len(sl[j][u]) : sl[j][u][i].clk = a.clk
    <2> DEFINE S == {b \in seen : b.thd = u /\ b.kind = j}
               clks == {b.clk : b \in S}
    <2>1. S \in SUBSET Access /\ S = Of(u, j) BY <1>0 DEF AccessTypes, Of
    <2>2. sl[j][u] \in Seq(ClockCnt) /\ Len(sl[j][u]) <= MaxListLen BY <1>0
    <2>3. Listed(sl[j][u], S) BY <2>1 DEF PruneInv
    <2>4. LastEpochs(u, j) = {c \in clks : Cardinality({d \in clks : d > c}) < MaxListLen}
      BY DEF LastEpochs
    <2>5. a.clk \in clks /\ a \in S BY <1>2, <2>1
    <2> HIDE DEF S
    <2>6. Cardinality({d \in clks : d > a.clk}) < MaxListLen
            <=> \E i \in 1..Len(sl[j][u]) : sl[j][u][i].clk = a.clk
      BY <2>1, <2>2, <2>3, <2>5, ListedLast
    <2> QED BY <2>4, <2>5, <2>6
  <1>3. Unlocked(t, k) = {<<a.thd, a.kind, t, k>> : a \in {b \in seen :
          /\ b.thd # t /\ b.kind \in Against(k)
          /\ b.clk > vc[t][b.thd] /\ b.clk \in LastEpochs(b.thd, b.kind)
          /\ (HeldWrite(t) \cup HeldRead(t) = {} \/ b.wr \cup b.rd = {})}}
    BY DEF Unlocked, Against_
  <1>4. \A a \in seen : a.thd \in Thread /\ a.kind \in Kind BY <1>0 DEF AccessTypes, Access
  <1>5. ASSUME NEW r \in SlReports(t, k) PROVE r \in Unlocked(t, k)
    <2>1. PICK j \in Against(k), u \in Thread \ {t} :
            r = <<u, j, t, k>> /\ \E i \in 1..Len(sl[j][u]) :
              sl[j][u][i].clk > vc[t][u] /\ (sl[j][u][i].cnt = 0 \/ lc[t] = 0)
      BY <1>5 DEF SlReports, RacesWith
    <2>2. PICK i \in 1..Len(sl[j][u]) :
            sl[j][u][i].clk > vc[t][u] /\ (sl[j][u][i].cnt = 0 \/ lc[t] = 0)
      BY <2>1
    <2>3. Listed(sl[j][u], Of(u, j)) BY <1>1, <2>1 DEF PruneInv
    <2>4. PICK a \in Of(u, j) : /\ a.clk = sl[j][u][i].clk
                                /\ sl[j][u][i].cnt = 0 => a.wr \cup a.rd = {}
      BY <2>3 DEF Listed
    <2>5. a \in seen /\ a.thd = u /\ a.kind = j BY DEF Of
    <2>6. a.clk \in LastEpochs(u, j) BY <1>1, <1>2, <2>4
    <2>7. r = <<a.thd, a.kind, t, k>> BY <2>1, <2>5
    <2>8. HeldWrite(t) \cup HeldRead(t) = {} \/ a.wr \cup a.rd = {} BY <1>0, <2>2, <2>4
    <2> QED BY <1>3, <2>1, <2>2, <2>4, <2>5, <2>6, <2>7, <2>8
  <1>6. ASSUME NEW r \in Unlocked(t, k) PROVE r \in SlReports(t, k)
    <2>1. PICK a \in seen : /\ r = <<a.thd, a.kind, t, k>>
                            /\ a.thd # t /\ a.kind \in Against(k) /\ a.clk > vc[t][a.thd]
                            /\ a.clk \in LastEpochs(a.thd, a.kind)
                            /\ (HeldWrite(t) \cup HeldRead(t) = {} \/ a.wr \cup a.rd = {})
      BY <1>3, <1>6
    <2>2. a \in Of(a.thd, a.kind) /\ a.thd \in Thread /\ a.kind \in Kind BY <1>4 DEF Of
    <2>3. PICK i \in 1..Len(sl[a.kind][a.thd]) : sl[a.kind][a.thd][i].clk = a.clk
      BY <1>2, <2>1, <2>2
    <2>4. a.wr \cup a.rd = {} => sl[a.kind][a.thd][i].cnt = 0
      <3>1. Listed(sl[a.kind][a.thd], Of(a.thd, a.kind)) BY <2>2 DEF PruneInv
      <3> QED BY <2>2, <2>3, <3>1 DEF Listed
    <2>5. sl[a.kind][a.thd][i].clk > vc[t][a.thd] /\ (sl[a.kind][a.thd][i].cnt = 0 \/ lc[t] = 0)
      BY <1>0, <2>1, <2>3, <2>4
    <2> QED BY <2>1, <2>2, <2>5 DEF SlReports, RacesWith
  <1> QED BY <1>5, <1>6

LEMMA PruningStep ==
  ASSUME HybridsBase, PruneInv, PruningLosesNothing, [HybridsNext]_allVars
  PROVE  PruningLosesNothing'
  <1>1. CASE UNCHANGED allVars BY <1>1 DEF allVars, hybridVars, PruningLosesNothing
  <1>2. CASE Quiet BY <1>2 DEF Quiet, hybridVars, PruningLosesNothing
  <1>3. ASSUME NEW t \in Thread, NEW k \in Kind, Touching(t, k) PROVE PruningLosesNothing'
    <2>1. unpruned' = unpruned \cup Unpruned(t, k) /\ unlocked' = unlocked \cup Unlocked(t, k)
      BY <1>3 DEF Touching
    <2>2. \A d \in Detectors : reports'[d] = reports[d] \cup ReportsOf(d, t, k)
      BY <1>3, ReportsStep DEF HybridsBase, MetaTypes
    <2>3. /\ reports'["MultiLockHb"] = reports["MultiLockHb"] \cup MlReports(t, k)
          /\ reports'["SimpleLock"] = reports["SimpleLock"] \cup SlReports(t, k)
      BY <2>2 DEF Detectors, ReportsOf
    <2>4. reports'["SimpleLock"] = unlocked' BY <2>1, <2>3, SlLosesNothing DEF PruningLosesNothing
    <2>5. reports'["MultiLockHb"] \subseteq unpruned'
      BY <2>1, <2>3, MlLosesNothing DEF PruningLosesNothing
    <2>6. \A r \in unpruned' : \E j \in {r[2], "W"} :
            <<r[1], j, r[3], r[4]>> \in reports'["MultiLockHb"]
      BY <2>1, <2>3, MlLosesNothing DEF PruningLosesNothing
    <2> QED BY <2>4, <2>5, <2>6 DEF PruningLosesNothing
  <1> QED BY <1>1, <1>2, <1>3, HybridsSteps

\* MultiLock-HB misses no race by what it prunes or skips, up to the kind it
\* names, and invents none; SimpleLock's counts give just the pairs with an
\* unlocked access among the last MaxListLen epochs.
THEOREM HybridsPruning == HybridsSpec => []PruningLosesNothing
  <1>1. HybridsInit => PruneInv /\ PruningLosesNothing
    <2> SUFFICES ASSUME HybridsInit PROVE PruneInv /\ PruningLosesNothing OBVIOUS
    <2>1. /\ \A j \in Kind, u \in Thread : ml[j][u] = {} /\ sl[j][u] = << >>
          /\ \A d \in Detectors : reports[d] = {}
          /\ unpruned = {} /\ unlocked = {} /\ seen = {}
      BY DEF HybridsInit, ProgramInit
    <2>2. \A u, j : Of(u, j) = {} BY <2>1 DEF Of
    <2>3. \A j \in Kind, u \in Thread : Len(sl[j][u]) = 0 BY <2>1
    <2>4. \A j \in Kind, u \in Thread : Listed(sl[j][u], Of(u, j)) BY <2>2, <2>3 DEF Listed
    <2>5. PruneInv BY <2>1, <2>4 DEF PruneInv
    <2> QED BY <2>1, <2>5 DEF PruningLosesNothing, Detectors
  <1>2. HybridsInit => HybridsBase BY BaseInit
  <1>3. HybridsBase /\ PruneInv /\ PruningLosesNothing /\ [HybridsNext]_allVars =>
          (HybridsBase /\ PruneInv /\ PruningLosesNothing)'
    BY BaseStep, PruneStep, PruningStep
  <1> QED BY <1>1, <1>2, <1>3, PTL DEF HybridsSpec

-----------------------------------------------------------------------------
(* ThreadSanitizer.                                                          *)

-----------------------------------------------------------------------------
(* Steps. *)

\* What an operation of locks does to the clock of t, which becomes n, and to the
\* clocks that the rwlock holds.
Resync(t, n) ==
  /\ tsVc' = [tsVc EXCEPT ![t] = n]
  /\ fresh' = [fresh EXCEPT ![t] = TRUE]
  /\ setBack' = (setBack \/ ~HappensBefore(tsVc[t], n))
  /\ \/ rwEpochs' = rwEpochs
     \/ rwEpochs' = << <<t, n[t]>> >>
     \/ rwEpochs' = Append(rwEpochs, <<t, n[t]>>)
  /\ \A u \in Thread \ {t} :
       \/ n[u] = tsVc[t][u]
       \/ \E i \in DOMAIN rwEpochs : rwEpochs[i][1] = u /\ n[u] = rwEpochs[i][2]

\* A step of the locks changes the locksets of its thread only.
LockOps(t) ==
  /\ LockCalls(t) /\ pc[t] = "run" /\ pc' = pc
  /\ \A u \in Thread \ {t} : wls'[u] = wls[u] /\ rls'[u] = rls[u]

SyncKinds(t) ==
  \/ \E c \in Thread : LockCreate(t, c) /\ TsCreate(t, c)
  \/ \E c \in Thread : LockJoin(t, c) /\ TsJoin(t, c)
  \/ LockExit(t) /\ UNCHANGED <<tsVc, rwEpochs, fresh, setBack>>
  \/ LockOps(t) /\ \E n \in Clock : Resync(t, n)

\* A clock is set to what the rwlock holds of its threads.
LEMMA SetClocksProp ==
  ASSUME NEW c \in Clock, NEW es \in Seq(Thread \X Nat)
  PROVE  /\ SetClocks(c, es) \in Clock
         /\ \A u \in Thread : \/ SetClocks(c, es)[u] = c[u]
                              \/ \E i \in DOMAIN es : es[i][1] = u /\ SetClocks(c, es)[u] = es[i][2]
  <1> DEFINE own(u) == {i \in DOMAIN es : es[i][1] = u}
             last(u) == CHOOSE i \in own(u) : \A j \in own(u) : j <= i
  <1>1. \A u \in Thread : SetClocks(c, es)[u] = IF own(u) = {} THEN c[u] ELSE es[last(u)][2]
    BY DEF SetClocks
  <1>2. ASSUME NEW u \in Thread, own(u) # {} PROVE last(u) \in own(u)
    <2>1. own(u) \in SUBSET (1..Len(es)) /\ Len(es) \in Nat OBVIOUS
    <2>2. IsFiniteSet(1..Len(es)) BY <2>1, FS_Interval
    <2>3. IsFiniteSet(own(u)) /\ own(u) \in SUBSET Nat BY <2>1, <2>2, FS_Subset
    <2> HIDE DEF own
    <2>4. \E i \in own(u) : \A j \in own(u) : j <= i BY <1>2, <2>3, MaxExists
    <2> QED BY <2>4
  <1>3. \A i \in DOMAIN es : es[i][2] \in Nat
    <2>1. \A i \in DOMAIN es : es[i] \in Thread \X Nat OBVIOUS
    <2> QED BY <2>1
  <1>4. \A u \in Thread : own(u) # {} => last(u) \in DOMAIN es /\ es[last(u)][1] = u BY <1>2
  <1> HIDE DEF own, last
  <1>5. \A u \in Thread : c[u] \in Nat BY DEF Clock
  <1>6. \A u \in Thread : SetClocks(c, es)[u] \in Nat BY <1>1, <1>3, <1>4, <1>5
  <1>7. SetClocks(c, es) \in Clock BY <1>6 DEF SetClocks, Clock
  <1> QED BY <1>1, <1>4, <1>7

LEMMA SanitizerSteps ==
  ASSUME TypeOK, TablesInv, tsVc \in [Thread -> Clock], rwEpochs \in Seq(Thread \X Nat), [SanitizerNext]_sanVars
  PROVE  \/ UNCHANGED sanVars
         \/ \E t \in Thread : /\ LockStep(t)
                              /\ \/ SyncKinds(t) /\ UNCHANGED <<segmentVars, seen>>
                                 \/ \E k \in Kind : TsAccess(t, k)
  <1>1. ASSUME NEW t \in Thread, TsSync(t)
        PROVE  LockStep(t) /\ SyncKinds(t) /\ UNCHANGED seen
    <2>0. /\ tsVc[t] \in Clock /\ \A x \in Clock : Increment(x, t) \in Clock
          /\ \A x \in Clock : \A u \in Thread \ {t} : Increment(x, t)[u] = x[u]
      BY IncrementProp
    <2>1. CASE \E c \in Thread : (LockCreate(t, c) /\ TsCreate(t, c)) \/ (LockJoin(t, c) /\ TsJoin(t, c))
      <3>1. seen' = seen BY <2>1 DEF LockCreate, LockJoin
      <3> QED BY <2>1, <3>1 DEF LockStep, SyncKinds
    <2>2. CASE LockExit(t) /\ UNCHANGED <<tsVc, rwEpochs, fresh, setBack>>
      <3>1. seen' = seen BY <2>2 DEF LockExit, programVars
      <3> QED BY <2>2, <3>1 DEF LockStep, SyncKinds
    <2>3. ASSUME NEW l \in Lock, NEW x \in {wls, wls'}, NEW y \in {rls, rls'},
                 wls' = wls \/ wls' = Add(wls, t, l) \/ wls' = Remove(wls, t, l),
                 rls' = rls \/ rls' = Add(rls, t, l) \/ rls' = Remove(rls, t, l)
          PROVE  \A u \in Thread \ {t} : wls'[u] = wls[u] /\ rls'[u] = rls[u]
      <3>1. wls \in [Thread -> SUBSET Lock] /\ rls \in [Thread -> SUBSET Lock]
        BY DEF TablesInv, TableTypes
      <3> QED BY <2>3, <3>1, AddRemove
    <2>4. ASSUME NEW m \in Mutex, LockMutexLock(t, m) \/ LockMutexUnlock(t, m), Tick(t)
          PROVE  LockStep(t) /\ SyncKinds(t) /\ UNCHANGED seen
      <3>1. LockStep(t) /\ LockCalls(t) BY <2>4 DEF LockStep, LockCalls
      <3>2. pc[t] = "run" /\ pc' = pc /\ seen' = seen
        BY <2>4 DEF LockMutexLock, LockMutexUnlock, callVars
      <3>3. \A u \in Thread \ {t} : wls'[u] = wls[u] /\ rls'[u] = rls[u]
        BY <2>3, <2>4 DEF LockMutexLock, LockMutexUnlock, SetsTake, SetsDrop, Lock
      <3>4. Resync(t, Increment(tsVc[t], t)) BY <2>0, <2>4 DEF Resync, Tick, NewSegment
      <3> QED BY <2>0, <3>1, <3>2, <3>3, <3>4 DEF SyncKinds, LockOps
    <2>5. CASE LockRdlock(t) /\ TsRdlock(t)
      <3> DEFINE es == IF rwEpochs = << >> THEN << >> ELSE <<Head(rwEpochs)>>
                 c == SetClocks(tsVc[t], es)
      <3>1. LockStep(t) /\ LockCalls(t) BY <2>5 DEF LockStep, LockCalls
      <3>2. pc[t] = "run" /\ pc' = pc /\ seen' = seen BY <2>5 DEF LockRdlock
      <3>3. \A u \in Thread \ {t} : wls'[u] = wls[u] /\ rls'[u] = rls[u]
        BY <2>3, <2>5 DEF LockRdlock, SetsTakeRead, Lock
      <3>4. es \in Seq(Thread \X Nat) /\ \A i \in DOMAIN es : i \in DOMAIN rwEpochs /\ es[i] = rwEpochs[i]
        <4>1. CASE rwEpochs = << >> BY <4>1
        <4>2. CASE rwEpochs # << >>
          <5>1. 1 \in DOMAIN rwEpochs /\ Head(rwEpochs) = rwEpochs[1] BY <4>2
          <5>2. rwEpochs[1] \in Thread \X Nat BY <5>1
          <5>3. es = <<rwEpochs[1]>> BY <4>2, <5>1
          <5>4. \A e \in Thread \X Nat : /\ <<e>> \in Seq(Thread \X Nat) /\ DOMAIN <<e>> = {1}
                                         /\ <<e>>[1] = e
            OBVIOUS
          <5> HIDE DEF es
          <5> QED BY <5>1, <5>2, <5>3, <5>4
        <4> QED BY <4>1, <4>2
      <3>5. tsVc' = [tsVc EXCEPT ![t] = Increment(c, t)] /\ NewSegment(t, Increment(c, t)) /\ rwEpochs' = rwEpochs
        BY <2>5 DEF TsRdlock, NewSegment
      <3> HIDE DEF es
      <3>6. c \in Clock /\ \A u \in Thread : \/ c[u] = tsVc[t][u]
                            \/ \E i \in DOMAIN es : es[i][1] = u /\ c[u] = es[i][2]
        BY <2>0, <3>4, SetClocksProp
      <3> HIDE DEF c
      <3>7. \A u \in Thread \ {t} :
              \/ Increment(c, t)[u] = tsVc[t][u]
              \/ \E i \in DOMAIN rwEpochs : rwEpochs[i][1] = u /\ Increment(c, t)[u] = rwEpochs[i][2]
        BY <2>0, <3>4, <3>6
      <3>8. Resync(t, Increment(c, t)) BY <3>5, <3>7 DEF Resync, NewSegment
      <3> QED BY <2>0, <3>1, <3>2, <3>3, <3>6, <3>8 DEF SyncKinds, LockOps
    <2>6. CASE LockWrlock(t) /\ TsWrlock(t)
      <3> DEFINE c == SetClocks(tsVc[t], rwEpochs)
      <3>1. LockStep(t) /\ LockCalls(t) BY <2>6 DEF LockStep, LockCalls
      <3>2. pc[t] = "run" /\ pc' = pc /\ seen' = seen BY <2>6 DEF LockWrlock
      <3>3. \A u \in Thread \ {t} : wls'[u] = wls[u] /\ rls'[u] = rls[u]
        BY <2>3, <2>6 DEF LockWrlock, SetsTake, Lock
      <3>5. NewSegment(t, Increment(c, t)) /\ rwEpochs' = rwEpochs BY <2>6 DEF TsWrlock
      <3>6. c \in Clock /\ \A u \in Thread : \/ c[u] = tsVc[t][u]
                            \/ \E i \in DOMAIN rwEpochs : rwEpochs[i][1] = u /\ c[u] = rwEpochs[i][2]
        BY <2>0, SetClocksProp
      <3> HIDE DEF c
      <3>8. Resync(t, Increment(c, t)) BY <2>0, <3>5, <3>6 DEF Resync, NewSegment
      <3> QED BY <2>0, <3>1, <3>2, <3>3, <3>6, <3>8 DEF SyncKinds, LockOps
    <2>7. CASE LockRwlockUnlock(t) /\ TsRwlockUnlock(t)
      <3> DEFINE c == Increment(tsVc[t], t)
      <3>1. LockStep(t) /\ LockCalls(t) BY <2>7 DEF LockStep, LockCalls
      <3>2. pc[t] = "run" /\ pc' = pc /\ seen' = seen BY <2>7 DEF LockRwlockUnlock, callVars
      <3>3. \A u \in Thread \ {t} : wls'[u] = wls[u] /\ rls'[u] = rls[u]
        BY <2>3, <2>7 DEF LockRwlockUnlock, RwUnlockReference, SetsDrop, Lock
      <3>4. /\ NewSegment(t, c)
            /\ rwEpochs' = Append(IF lockRef' = 0 THEN << >> ELSE rwEpochs, <<t, c[t]>>)
        BY <2>7 DEF TsRwlockUnlock
      <3>5. c \in Clock /\ \A u \in Thread \ {t} : c[u] = tsVc[t][u] BY <2>0
      <3> HIDE DEF c
      <3>6. Append(<< >>, <<t, c[t]>>) = << <<t, c[t]>> >> OBVIOUS
      <3>7. rwEpochs' = << <<t, c[t]>> >> \/ rwEpochs' = Append(rwEpochs, <<t, c[t]>>)
        BY <3>4, <3>6
      <3>8. Resync(t, c) BY <3>4, <3>5, <3>7 DEF Resync, NewSegment
      <3> QED BY <3>1, <3>2, <3>3, <3>5, <3>8 DEF SyncKinds, LockOps
    <2> QED BY <1>1, <2>1, <2>2, <2>4, <2>5, <2>6, <2>7 DEF TsSync
  <1>2. ASSUME NEW t \in Thread, NEW k \in Kind, TsAccess(t, k) PROVE LockStep(t)
    BY <1>2 DEF TsAccess, LockStep
  <1> QED BY <1>1, <1>2 DEF SanitizerNext
-----------------------------------------------------------------------------
(* Segments and their counts. *)

SanTypes ==
  /\ tsVc \in [Thread -> Clock] /\ rwEpochs \in Seq(Thread \X Nat)
  /\ fresh \in [Thread -> BOOLEAN] /\ setBack \in BOOLEAN
  /\ segments \in Seq(SegmentRec) /\ refs \in [DOMAIN segments -> Nat]
  /\ current \in [Thread -> DOMAIN segments \cup {0}]
  /\ expired \subseteq DOMAIN segments /\ freed \subseteq DOMAIN segments
  /\ units \in [Kind -> SUBSET DOMAIN segments] /\ touched = units
  /\ found \subseteq Race /\ unlike \subseteq Race

\* A thread that has not synchronised since has a segment, and it is its own.
LinkInv ==
  /\ \A t \in Thread : ~fresh[t] => current[t] # 0
  /\ \A t \in Thread : current[t] # 0 => segments[current[t]].thd = t

SanBase == LockIInv /\ SanTypes /\ LinkInv /\ SegmentsCounted

\* Whether segment s is somebody's, and whether it is in the set of kind j.
Current(c, s) == IF \E t \in Thread : c[t] = s THEN 1 ELSE 0
In(sets, j, s) == IF s \in sets[j] THEN 1 ELSE 0

\* At most one thread has the segment.
LEMMA CurrentCard ==
  ASSUME NEW c, NEW s, NEW u, \A t \in Thread : c[t] = s => t = u
  PROVE  Cardinality({t \in Thread : c[t] = s}) = Current(c, s)
  <1>1. CASE \E t \in Thread : c[t] = s
    <2>1. {t \in Thread : c[t] = s} = {u} BY <1>1
    <2> QED BY <1>1, <2>1, FS_Singleton DEF Current
  <1>2. CASE ~\E t \in Thread : c[t] = s
    <2>1. {t \in Thread : c[t] = s} = {} BY <1>2
    <2> QED BY <1>2, <2>1, FS_EmptySet DEF Current
  <1> QED BY <1>1, <1>2

\* It is in one of the sets, in both or in none.
LEMMA KindCard ==
  ASSUME NEW sets, NEW s
  PROVE  Cardinality({j \in Kind : s \in sets[j]}) = In(sets, "R", s) + In(sets, "W", s)
  <1> DEFINE K == {j \in Kind : s \in sets[j]}
  <1>1. Cardinality({"R"}) = 1 /\ Cardinality({"W"}) = 1 /\ Cardinality({}) = 0
        /\ Cardinality({"R", "W"}) = 2
    <2>1. IsFiniteSet({"R"}) /\ Cardinality({"R"}) = 1 /\ Cardinality({"W"}) = 1 BY FS_Singleton
    <2>2. {"R", "W"} = {"R"} \cup {"W"} OBVIOUS
    <2>3. Cardinality({"R"} \cup {"W"}) = Cardinality({"R"}) + 1 BY <2>1, FS_AddElement
    <2> QED BY <2>1, <2>2, <2>3, FS_EmptySet
  <1>2. CASE s \in sets["R"] /\ s \in sets["W"]
    <2>1. K = {"R", "W"} BY <1>2 DEF Kind
    <2>2. Cardinality(K) = 2 BY <1>1, <2>1
    <2>3. In(sets, "R", s) = 1 /\ In(sets, "W", s) = 1 BY <1>2 DEF In
    <2> QED BY <2>2, <2>3
  <1>3. CASE s \in sets["R"] /\ s \notin sets["W"]
    <2>1. K = {"R"} BY <1>3 DEF Kind
    <2>2. Cardinality(K) = 1 BY <1>1, <2>1
    <2>3. In(sets, "R", s) = 1 /\ In(sets, "W", s) = 0 BY <1>3 DEF In
    <2> QED BY <2>2, <2>3
  <1>4. CASE s \notin sets["R"] /\ s \in sets["W"]
    <2>1. K = {"W"} BY <1>4 DEF Kind
    <2>2. Cardinality(K) = 1 BY <1>1, <2>1
    <2>3. In(sets, "R", s) = 0 /\ In(sets, "W", s) = 1 BY <1>4 DEF In
    <2> QED BY <2>2, <2>3
  <1>5. CASE s \notin sets["R"] /\ s \notin sets["W"]
    <2>1. K = {} BY <1>5 DEF Kind
    <2>2. Cardinality(K) = 0 BY <1>1, <2>1
    <2>3. In(sets, "R", s) = 0 /\ In(sets, "W", s) = 0 BY <1>5 DEF In
    <2> QED BY <2>2, <2>3
  <1> QED BY <1>2, <1>3, <1>4, <1>5

\* The segment of an access.
LEMMA SegmentOfProp ==
  ASSUME SanTypes, LinkInv, LockIInv, NEW t \in Thread
  PROVE  LET n == SegmentOf(t)
             segs == SegmentsWith(t) IN
         /\ segs \in Seq(SegmentRec) /\ DOMAIN segs = DOMAIN segments \cup {n}
         /\ \A s \in DOMAIN segments : segs[s] = segments[s]
         /\ n # 0 /\ segs[n].thd = t /\ segs[n] \in SegmentRec
         /\ fresh[t] => /\ n \notin DOMAIN segments
                        /\ segs[n] = [thd |-> t, clock |-> tsVc[t], wr |-> wls[t], rd |-> rls[t]]
         /\ ~fresh[t] => n = current[t] /\ n \in DOMAIN segments
  <1> DEFINE rec == [thd |-> t, clock |-> tsVc[t], wr |-> wls[t], rd |-> rls[t]]
  <1>1. rec \in SegmentRec
    <2>1. wls \in [Thread -> SUBSET Lock] /\ rls \in [Thread -> SUBSET Lock]
      BY DEF LockIInv, TablesInv, TableTypes
    <2>2. tsVc[t] \in Clock /\ wls[t] \in SUBSET Lock /\ rls[t] \in SUBSET Lock BY <2>1 DEF SanTypes
    <2> QED BY <2>2 DEF SegmentRec
  <1>2. rec.thd = t OBVIOUS
  <1>3. segments \in Seq(SegmentRec) /\ Len(segments) \in Nat /\ DOMAIN segments = 1..Len(segments)
    BY DEF SanTypes
  <1>4. /\ SegmentsWith(t) = (IF fresh[t] THEN Append(segments, rec) ELSE segments)
        /\ SegmentOf(t) = (IF fresh[t] THEN Len(segments) + 1 ELSE current[t])
    BY DEF SegmentsWith, SegmentOf
  <1> HIDE DEF rec
  <1>5. CASE fresh[t]
    <2>1. /\ SegmentsWith(t) = Append(segments, rec) /\ SegmentOf(t) = Len(segments) + 1
      BY <1>4, <1>5
    <2>2. /\ Append(segments, rec) \in Seq(SegmentRec)
          /\ Len(Append(segments, rec)) = Len(segments) + 1
          /\ Append(segments, rec)[Len(segments) + 1] = rec
          /\ \A s \in 1..Len(segments) : Append(segments, rec)[s] = segments[s]
      BY <1>1, <1>3
    <2>3. DOMAIN Append(segments, rec) = 1..(Len(segments) + 1) BY <2>2
    <2>4. 1..(Len(segments) + 1) = 1..Len(segments) \cup {Len(segments) + 1} BY <1>3
    <2>5. Len(segments) + 1 \notin 1..Len(segments) /\ Len(segments) + 1 # 0 BY <1>3
    <2> QED BY <1>1, <1>2, <1>3, <1>5, <2>1, <2>2, <2>3, <2>4, <2>5 DEF rec
  <1>6. CASE ~fresh[t]
    <2>1. SegmentsWith(t) = segments /\ SegmentOf(t) = current[t] BY <1>4, <1>6
    <2>2. current[t] # 0 /\ segments[current[t]].thd = t BY <1>6 DEF LinkInv
    <2>3. current[t] \in DOMAIN segments BY <2>2 DEF SanTypes
    <2>4. segments[current[t]] \in SegmentRec BY <1>3, <2>3
    <2>5. DOMAIN segments = DOMAIN segments \cup {current[t]} BY <2>3
    <2> QED BY <1>3, <1>6, <2>1, <2>2, <2>3, <2>4, <2>5
  <1> QED BY <1>5, <1>6

\* What an access does to the sets of the unit.
LEMMA UnitsProp ==
  ASSUME SanTypes, LinkInv, LockIInv, NEW t \in Thread, NEW k \in Kind, TsAccess(t, k)
  PROVE  LET n == SegmentOf(t)
             D == Dropped(t, k) IN
         /\ \A j \in Kind : D[j] \subseteq units[j] /\ (n \in units[k] => D[j] = {})
         /\ units' \in [Kind -> SUBSET DOMAIN segments'] /\ touched' = units'
         /\ \A j \in Kind : units'[j] = (units[j] \ D[j]) \cup (IF j = k THEN {n} ELSE {})
         /\ n \in units[k] => units' = units
  <1> DEFINE n == SegmentOf(t)
             D == Dropped(t, k)
  <1>1. touched = units /\ units \in [Kind -> SUBSET DOMAIN segments] BY DEF SanTypes
  <1>2. \A j \in Kind : D[j] \subseteq units[j] /\ (n \in units[k] => D[j] = {})
    BY <1>1 DEF Dropped
  <1>3. /\ units' = [j \in Kind |-> (units[j] \ D[j]) \cup (IF j = k THEN {n} ELSE {})]
        /\ touched' = [j \in Kind |-> (touched[j] \ D[j]) \cup (IF j = k THEN {n} ELSE {})]
    BY DEF TsAccess, UnitsWith
  <1>4. DOMAIN segments' = DOMAIN segments \cup {n} BY SegmentOfProp DEF TsAccess
  <1> HIDE DEF n, D
  <1>5. touched' = units' BY <1>1, <1>3
  <1>6. units' \in [Kind -> SUBSET DOMAIN segments'] BY <1>1, <1>2, <1>3, <1>4
  <1>7. n \in units[k] => units' = units
    <2> SUFFICES ASSUME n \in units[k] PROVE units' = units OBVIOUS
    <2>1. \A j \in Kind : (units[j] \ D[j]) \cup (IF j = k THEN {n} ELSE {}) = units[j] BY <1>2
    <2> QED BY <1>1, <1>3, <2>1
  <1> QED BY <1>2, <1>3, <1>5, <1>6, <1>7 DEF n, D

\* What SegmentsCounted says of the counts, by cases instead of cardinalities.
LEMMA CountsExact ==
  ASSUME SanTypes, LinkInv, NEW s \in DOMAIN segments
  PROVE  Cardinality({t \in Thread : current[t] = s}) + Cardinality({k \in Kind : s \in units[k]})
           = Current(current, s) + In(units, "R", s) + In(units, "W", s)
  <1>1. s # 0
    <2>1. DOMAIN segments = 1..Len(segments) /\ Len(segments) \in Nat BY DEF SanTypes
    <2> QED BY <2>1
  <1>2. \A t \in Thread : current[t] = s => t = segments[s].thd BY <1>1 DEF LinkInv
  <1>3. Cardinality({t \in Thread : current[t] = s}) = Current(current, s) BY <1>2, CurrentCard
  <1>4. Cardinality({k \in Kind : s \in units[k]}) = In(units, "R", s) + In(units, "W", s)
    BY KindCard
  <1> QED BY <1>3, <1>4 DEF Current, In

\* An access changes a count by just what it changes of the references.
LEMMA CountsMove ==
  ASSUME SanBase, NEW t \in Thread, NEW k \in Kind, TsAccess(t, k), NEW s \in DOMAIN segments'
  PROVE  /\ refs'[s] = Current(current', s) + In(units', "R", s) + In(units', "W", s)
         /\ s \in DOMAIN segments /\ refs[s] = 0 => refs'[s] = 0
         /\ refs'[s] = 0 /\ (s \in DOMAIN segments => refs[s] # 0) =>
              s \in Replaced(t) \cup UNION {Dropped(t, k)[j] : j \in Kind}
  <1> DEFINE n == SegmentOf(t)
             D == Dropped(t, k)
             base == IF s \in DOMAIN refs THEN refs[s] ELSE 1
             gone == IF fresh[t] /\ current[t] = s THEN 1 ELSE 0
             new == IF s = n /\ s \notin touched[k] THEN 1 ELSE 0
  <1>0. SanTypes /\ LinkInv /\ LockIInv /\ "R" \in Kind /\ "W" \in Kind BY DEF SanBase, Kind
  <1>1. /\ DOMAIN segments' = DOMAIN segments \cup {n} /\ n # 0
        /\ fresh[t] => n \notin DOMAIN segments
        /\ ~fresh[t] => n = current[t] /\ n \in DOMAIN segments
    BY <1>0, SegmentOfProp DEF TsAccess
  <1>2. /\ \A j \in Kind : D[j] \subseteq units[j] /\ (n \in units[k] => D[j] = {})
        /\ \A j \in Kind : units'[j] = (units[j] \ D[j]) \cup (IF j = k THEN {n} ELSE {})
    BY <1>0, UnitsProp
  <1>3. s # 0 /\ DOMAIN refs = DOMAIN segments /\ refs \in [DOMAIN segments -> Nat] /\ touched = units
        /\ current \in [Thread -> DOMAIN segments \cup {0}]
        /\ units \in [Kind -> SUBSET DOMAIN segments]
    <2>1. DOMAIN segments = 1..Len(segments) /\ Len(segments) \in Nat BY <1>0 DEF SanTypes
    <2> QED BY <1>0, <1>1, <2>1 DEF SanTypes
  <1>4. Cardinality(Replaced(t) \cap {s}) = gone
    <2>1. CASE fresh[t] /\ current[t] = s
      <3>1. Replaced(t) \cap {s} = {s} BY <1>3, <2>1 DEF Replaced
      <3> QED BY <2>1, <3>1, FS_Singleton
    <2>2. CASE ~(fresh[t] /\ current[t] = s)
      <3>1. Replaced(t) \cap {s} = {} BY <2>2 DEF Replaced
      <3> QED BY <2>2, <3>1, FS_EmptySet
    <2> QED BY <2>1, <2>2
  <1>5. Cardinality({j \in Kind : s \in D[j]}) = In(D, "R", s) + In(D, "W", s)
    <2> HIDE DEF D
    <2> QED BY KindCard
  <1>6. refs'[s] = base - gone - (In(D, "R", s) + In(D, "W", s)) + new
    <2>1. refs'[s] = base - Cardinality(Replaced(t) \cap {s}) - Cardinality({j \in Kind : s \in D[j]})
                       + new
      BY DEF TsAccess, Counted
    <2> QED BY <1>4, <1>5, <2>1
  <1>7. base = (IF s \in DOMAIN segments
                THEN Current(current, s) + In(units, "R", s) + In(units, "W", s) ELSE 1)
    BY <1>0, <1>3, CountsExact DEF SanBase, SegmentsCounted
  <1>8. /\ s \in DOMAIN segments => Current(current', s) + gone = Current(current, s)
        /\ s \notin DOMAIN segments => Current(current', s) = 1 /\ gone = 0
    <2>1. current' = [current EXCEPT ![t] = n] BY DEF TsAccess
    <2>2. current'[t] = n /\ \A u \in Thread \ {t} : current'[u] = current[u] BY <1>3, <2>1
    <2> HIDE DEF n
    <2>3. CASE ~fresh[t]
      <3>1. \A u \in Thread : current'[u] = current[u] BY <1>1, <2>2, <2>3
      <3>2. s \in DOMAIN segments BY <1>1, <2>3
      <3> QED BY <2>3, <3>1, <3>2 DEF Current
    <2>4. CASE fresh[t] /\ s = n
      <3>1. \A u \in Thread : current[u] # s BY <1>1, <1>3, <2>4
      <3> QED BY <1>1, <2>2, <2>4, <3>1 DEF Current
    <2>5. CASE fresh[t] /\ s # n /\ current[t] = s
      <3>1. \A u \in Thread : current[u] = s => u = t BY <1>0, <1>3, <2>5 DEF LinkInv
      <3>2. \A u \in Thread : current'[u] # s BY <2>2, <2>5, <3>1
      <3>3. s \in DOMAIN segments BY <1>1, <2>5
      <3> QED BY <2>5, <3>2, <3>3 DEF Current
    <2>6. CASE fresh[t] /\ s # n /\ current[t] # s
      <3>1. \A u \in Thread : current'[u] = s <=> current[u] = s BY <2>2, <2>6
      <3>3. s \in DOMAIN segments BY <1>1, <2>6
      <3> QED BY <2>6, <3>1, <3>3 DEF Current
    <2> QED BY <2>3, <2>4, <2>5, <2>6
  <1>9. ASSUME NEW j \in Kind
        PROVE  In(units', j, s) + In(D, j, s) = In(units, j, s) + (IF j = k THEN new ELSE 0)
    <2> HIDE DEF n, D
    <2>1. CASE j # k BY <1>2, <2>1 DEF In
    <2>2. CASE j = k /\ s # n BY <1>2, <2>2 DEF In
    <2>3. CASE j = k /\ s = n BY <1>2, <1>3, <2>3 DEF In
    <2> QED BY <2>1, <2>2, <2>3
  <1>10. In(units, "R", s) \in {0, 1} /\ In(units, "W", s) \in {0, 1} /\ new \in {0, 1}
         /\ In(units', "R", s) \in {0, 1} /\ In(units', "W", s) \in {0, 1}
         /\ In(D, "R", s) \in {0, 1} /\ In(D, "W", s) \in {0, 1} /\ gone \in {0, 1}
         /\ Current(current, s) \in {0, 1} /\ Current(current', s) \in {0, 1}
    BY DEF In, Current
  <1>11. s \notin DOMAIN segments => In(units, "R", s) = 0 /\ In(units, "W", s) = 0
    BY <1>0, <1>3 DEF In
  <1>12. (IF "R" = k THEN new ELSE 0) + (IF "W" = k THEN new ELSE 0) = new BY DEF Kind
  <1>13. gone = 1 => s \in Replaced(t) BY <1>3 DEF Replaced
  <1>14. \A j \in Kind : In(D, j, s) = 1 => s \in UNION {D[i] : i \in Kind} BY DEF In
  <1> HIDE DEF base, gone, new, D, n
  <1>15. In(units', "R", s) + In(units', "W", s) + In(D, "R", s) + In(D, "W", s)
           = In(units, "R", s) + In(units, "W", s) + new
    <2>1. /\ In(units', "R", s) + In(D, "R", s) = In(units, "R", s) + (IF "R" = k THEN new ELSE 0)
          /\ In(units', "W", s) + In(D, "W", s) = In(units, "W", s) + (IF "W" = k THEN new ELSE 0)
      BY <1>0, <1>9
    <2> QED BY <1>10, <1>12, <2>1
  <1>16. refs'[s] = Current(current', s) + In(units', "R", s) + In(units', "W", s)
    <2>1. /\ In(units, "R", s) \in Int /\ In(units, "W", s) \in Int /\ new \in Int /\ gone \in Int
          /\ In(units', "R", s) \in Int /\ In(units', "W", s) \in Int
          /\ In(D, "R", s) \in Int /\ In(D, "W", s) \in Int
          /\ Current(current, s) \in Int /\ Current(current', s) \in Int
      BY <1>10
    <2>2. base = Current(current', s) + In(units, "R", s) + In(units, "W", s) + gone
      <3>1. CASE s \in DOMAIN segments BY <1>7, <1>8, <2>1, <3>1
      <3>2. CASE s \notin DOMAIN segments BY <1>7, <1>8, <1>11, <3>2
      <3> QED BY <3>1, <3>2
    <2> QED BY <1>6, <1>15, <2>1, <2>2
  <1>17. ASSUME s \in DOMAIN segments, refs[s] = 0 PROVE refs'[s] = 0
    <2>1. base = 0 BY <1>3, <1>17 DEF base
    <2>2. Current(current, s) = 0 BY <1>7, <1>10, <1>17, <2>1
    <2>3. s # n
      <3>1. current[t] # s BY <2>2 DEF Current
      <3> QED BY <1>1, <1>17, <3>1
    <2>4. new = 0 BY <2>3 DEF new, n
    <2> QED BY <1>7, <1>8, <1>10, <1>15, <1>16, <1>17, <2>1, <2>4
  <1>18. ASSUME refs'[s] = 0, s \in DOMAIN segments => refs[s] # 0
         PROVE  s \in Replaced(t) \cup UNION {D[j] : j \in Kind}
    <2>1. base # 0 BY <1>3, <1>18 DEF base
    <2>2. s \in DOMAIN segments BY <1>8, <1>10, <1>16, <1>18
    <2>3. gone = 1 \/ In(D, "R", s) = 1 \/ In(D, "W", s) = 1
      BY <1>7, <1>8, <1>10, <1>15, <1>16, <1>18, <2>1, <2>2
    <2> QED BY <1>0, <1>13, <1>14, <2>3
  <1> QED BY <1>16, <1>17, <1>18 DEF D

\* Synchronisation keeps the types, and ends the segment of its thread.
LEMMA SyncTypes ==
  ASSUME SanTypes, TypeOK, NEW t \in Thread, SyncKinds(t), UNCHANGED segmentVars
  PROVE  /\ SanTypes' /\ \A u \in Thread : ~fresh'[u] => ~fresh[u]
  <1>0. tsVc \in [Thread -> Clock] /\ fresh \in [Thread -> BOOLEAN] BY DEF SanTypes
  <1>1. /\ tsVc' \in [Thread -> Clock] /\ rwEpochs' \in Seq(Thread \X Nat)
        /\ fresh' \in [Thread -> BOOLEAN] /\ setBack' \in BOOLEAN
        /\ \A u \in Thread : ~fresh'[u] => ~fresh[u]
    <2>1. ASSUME NEW c \in Thread, LockCreate(t, c), TsCreate(t, c)
          PROVE  tsVc' \in [Thread -> Clock]
      BY <1>0, <2>1, OtherThread, StartedProp DEF TsCreate
    <2>2. ASSUME NEW c \in Thread, LockJoin(t, c), TsJoin(t, c)
          PROVE  tsVc' \in [Thread -> Clock]
      BY <1>0, <2>2, OtherThread, JoinedProp DEF TsJoin
    <2>3. CASE \E c \in Thread : (LockCreate(t, c) /\ TsCreate(t, c)) \/ (LockJoin(t, c) /\ TsJoin(t, c))
      BY <1>0, <2>1, <2>2, <2>3 DEF TsCreate, TsJoin, SanTypes
    <2>4. CASE UNCHANGED <<tsVc, rwEpochs, fresh, setBack>> BY <2>4 DEF SanTypes
    <2>5. ASSUME NEW n \in Clock, Resync(t, n)
          PROVE  /\ tsVc' \in [Thread -> Clock] /\ rwEpochs' \in Seq(Thread \X Nat)
                 /\ fresh' \in [Thread -> BOOLEAN] /\ setBack' \in BOOLEAN
                 /\ \A u \in Thread : ~fresh'[u] => ~fresh[u]
      <3>1. tsVc' = [tsVc EXCEPT ![t] = n] /\ fresh' = [fresh EXCEPT ![t] = TRUE]
        BY <2>5 DEF Resync
      <3>2. setBack' \in BOOLEAN BY <2>5 DEF Resync, SanTypes
      <3>3. <<t, n[t]>> \in Thread \X Nat BY DEF Clock
      <3>4. rwEpochs' \in Seq(Thread \X Nat)
        <4>1. /\ << <<t, n[t]>> >> \in Seq(Thread \X Nat)
              /\ Append(rwEpochs, <<t, n[t]>>) \in Seq(Thread \X Nat)
          BY <3>3 DEF SanTypes
        <4> QED BY <2>5, <4>1 DEF Resync, SanTypes
      <3> QED BY <1>0, <3>1, <3>2, <3>4
    <2> QED BY <2>3, <2>4, <2>5 DEF SyncKinds
  <1> QED BY <1>1 DEF SanTypes, segmentVars

\* An access keeps them.
LEMMA AccessTypesStep ==
  ASSUME SanBase, NEW t \in Thread, NEW k \in Kind, TsAccess(t, k)
  PROVE  SanTypes' /\ LinkInv'
  <1> DEFINE n == SegmentOf(t)
  <1>0. SanTypes /\ LinkInv /\ LockIInv BY DEF SanBase
  <1>1. /\ segments' \in Seq(SegmentRec) /\ DOMAIN segments' = DOMAIN segments \cup {n} /\ n # 0
        /\ \A s \in DOMAIN segments : segments'[s] = segments[s]
        /\ segments'[n].thd = t
    <2> DEFINE segs == SegmentsWith(t)
    <2>1. segments' = segs BY DEF TsAccess
    <2>2. /\ segs \in Seq(SegmentRec) /\ DOMAIN segs = DOMAIN segments \cup {n} /\ n # 0
          /\ \A s \in DOMAIN segments : segs[s] = segments[s]
          /\ segs[n].thd = t
      BY <1>0, SegmentOfProp
    <2> HIDE DEF segs, n
    <2> QED BY <2>1, <2>2
  <1>2. /\ units' \in [Kind -> SUBSET DOMAIN segments'] /\ touched' = units'
        /\ \A j \in Kind : Dropped(t, k)[j] \subseteq units[j]
    BY <1>0, UnitsProp
  <1>3. /\ current' = [current EXCEPT ![t] = n] /\ fresh' = [fresh EXCEPT ![t] = FALSE]
        /\ current \in [Thread -> DOMAIN segments \cup {0}] /\ fresh \in [Thread -> BOOLEAN]
    BY <1>0 DEF TsAccess, SanTypes
  <1>4. refs' \in [DOMAIN segments' -> Nat]
    <2>1. \A s \in DOMAIN segments' : refs'[s] = Current(current', s) + In(units', "R", s) + In(units', "W", s)
      BY CountsMove
    <2>2. \A s : Current(current', s) \in Nat /\ In(units', "R", s) \in Nat /\ In(units', "W", s) \in Nat
      BY DEF Current, In
    <2>3. \A s \in DOMAIN segments' : refs'[s] \in Nat BY <2>1, <2>2
    <2>4. refs' = [s \in DOMAIN segments' |-> refs'[s]] BY DEF TsAccess, Counted
    <2> QED BY <2>3, <2>4
  <1>5. /\ freed' \subseteq DOMAIN segments' /\ expired' \subseteq DOMAIN segments'
    <2>1. Replaced(t) \subseteq DOMAIN segments BY <1>3 DEF Replaced
    <2>2. units \in [Kind -> SUBSET DOMAIN segments] /\ expired \subseteq DOMAIN segments
          /\ freed \subseteq DOMAIN segments
      BY <1>0 DEF SanTypes
    <2>3. UNION {Dropped(t, k)[j] : j \in Kind} \subseteq DOMAIN segments BY <1>2, <2>2
    <2> QED BY <1>1, <2>1, <2>2, <2>3 DEF TsAccess, Inactive
  <1>6. found' \subseteq Race /\ unlike' \subseteq Race
    <2> DEFINE segs == SegmentsWith(t)
               sets == UnitsWith(t, k)
    <2>1. "R" \in Kind /\ "W" \in Kind BY DEF Kind
    <2>2. segments' = segs /\ units' = sets BY DEF TsAccess
    <2>3. \A j \in Kind : \A s \in sets[j] : segs[s].thd \in Thread
      <3>0. \A q \in Seq(SegmentRec) : \A s \in DOMAIN q : q[s] \in SegmentRec OBVIOUS
      <3>1. \A s \in DOMAIN segments' : segments'[s] \in SegmentRec BY <1>1, <3>0
      <3>2. \A j \in Kind : units'[j] \subseteq DOMAIN segments' BY <1>2
      <3> QED BY <2>2, <3>1, <3>2 DEF SegmentRec
    <2> HIDE DEF segs, sets
    <2>4. TsWriteWrite(segs, sets) \subseteq Race BY <2>1, <2>3 DEF TsWriteWrite, Race
    <2>5. \A w \in sets["W"] : TsWriteRead(segs, w, sets["R"]) \subseteq Race
      BY <2>1, <2>3 DEF TsWriteRead, Race
    <2>6. \A races \in TsReports(t, k) : races \subseteq Race
      BY <2>4, <2>5 DEF TsReports, segs, sets
    <2>7. \A a \in seen : a.thd \in Thread /\ a.kind \in Kind
      BY <1>0 DEF LockIInv, AccessTypes, Access
    <2>8. Unordered(t, k) \subseteq Race BY <2>7 DEF Unordered, Race, Kind
    <2>9. found \subseteq Race /\ unlike \subseteq Race BY <1>0 DEF SanTypes
    <2> QED BY <2>6, <2>8, <2>9 DEF TsAccess
  <1>7. UNCHANGED <<tsVc, rwEpochs, setBack>> BY DEF TsAccess
  <1> HIDE DEF n
  <1>8. /\ current' \in [Thread -> DOMAIN segments' \cup {0}] /\ fresh' \in [Thread -> BOOLEAN]
        /\ current'[t] = n /\ \A u \in Thread \ {t} : current'[u] = current[u] /\ fresh'[u] = fresh[u]
    <2>1. n \in DOMAIN segments' \cup {0} BY <1>1
    <2> QED BY <1>1, <1>3, <2>1
  <1>9. SanTypes' BY <1>0, <1>1, <1>2, <1>4, <1>5, <1>6, <1>7, <1>8 DEF SanTypes
  <1>10. LinkInv'
    <2>1. ASSUME NEW u \in Thread
          PROVE  (~fresh'[u] => current'[u] # 0) /\ (current'[u] # 0 => segments'[current'[u]].thd = u)
      <3>1. CASE u = t BY <1>1, <1>8, <3>1
      <3>2. CASE u # t
        <4>1. current'[u] = current[u] /\ fresh'[u] = fresh[u] BY <1>8, <3>2
        <4>2. current[u] # 0 => current[u] \in DOMAIN segments BY <1>3
        <4> QED BY <1>0, <1>1, <4>1, <4>2 DEF LinkInv
      <3> QED BY <3>1, <3>2
    <2> QED BY <2>1 DEF LinkInv
  <1> QED BY <1>9, <1>10

\* And the counts.
LEMMA CountedStep ==
  ASSUME SanBase, NEW t \in Thread, NEW k \in Kind, TsAccess(t, k)
  PROVE  SegmentsCounted'
  <1>0. SanTypes /\ LinkInv /\ LockIInv /\ SegmentsCounted BY DEF SanBase
  <1>1. SanTypes' /\ LinkInv' BY AccessTypesStep
  <1>2. ASSUME NEW s \in DOMAIN segments'
        PROVE  refs'[s] = Cardinality({u \in Thread : current'[u] = s})
                            + Cardinality({j \in Kind : s \in units'[j]})
    <2>1. Cardinality({u \in Thread : current'[u] = s}) = Current(current', s)
      <3>1. s # 0
        <4>1. DOMAIN segments' = 1..Len(segments') /\ Len(segments') \in Nat BY <1>1 DEF SanTypes
        <4> QED BY <4>1
      <3>2. \A u \in Thread : current'[u] = s => u = segments'[s].thd BY <1>1, <3>1 DEF LinkInv
      <3> QED BY <3>2, CurrentCard
    <2>2. Cardinality({j \in Kind : s \in units'[j]}) = In(units', "R", s) + In(units', "W", s)
      BY KindCard
    <2> QED BY <2>1, <2>2, CountsMove DEF Current, In
  <1>3. ASSUME NEW s \in DOMAIN segments', s \in freed' PROVE refs'[s] = 0
    <2>1. s \in DOMAIN segments /\ refs[s] = 0
      BY <1>0, <1>3 DEF TsAccess, Inactive, SegmentsCounted, SanTypes
    <2> QED BY <2>1, CountsMove
  <1>4. ASSUME NEW s \in DOMAIN segments', refs'[s] = 0 PROVE s \in freed' \cup expired'
    <2>1. CASE s \in DOMAIN segments /\ refs[s] = 0
      BY <1>0, <2>1 DEF TsAccess, Inactive, SegmentsCounted
    <2>2. CASE ~(s \in DOMAIN segments /\ refs[s] = 0)
      <3>1. s \in Replaced(t) \cup UNION {Dropped(t, k)[j] : j \in Kind}
        BY <1>4, <2>2, CountsMove
      <3> QED BY <3>1 DEF TsAccess
    <2> QED BY <2>1, <2>2
  <1> QED BY <1>2, <1>3, <1>4 DEF SegmentsCounted

LEMMA SanBaseMove ==
  ASSUME SanBase, NEW t \in Thread, LockStep(t),
         (SyncKinds(t) /\ UNCHANGED segmentVars) \/ \E k \in Kind : TsAccess(t, k)
  PROVE  SanBase'
  <1>0. LockIInv /\ SanTypes /\ LinkInv /\ SegmentsCounted /\ TypeOK BY DEF SanBase, LockIInv
  <1>1. CASE SyncKinds(t) /\ UNCHANGED segmentVars
    <2>1. LockIInv' BY <1>0, LockIInvStep
    <2>2. SanTypes' /\ \A u \in Thread : ~fresh'[u] => ~fresh[u] BY <1>0, <1>1, SyncTypes
    <2>3. LinkInv' BY <1>0, <1>1, <2>2 DEF LinkInv, segmentVars
    <2>4. SegmentsCounted' BY <1>0, <1>1 DEF SegmentsCounted, segmentVars
    <2> QED BY <2>1, <2>2, <2>3, <2>4 DEF SanBase
  <1>2. CASE \E k \in Kind : TsAccess(t, k)
    BY <1>0, <1>2, LockIInvStep, AccessTypesStep, CountedStep DEF SanBase
  <1> QED BY <1>1, <1>2

LEMMA SanBaseStep ==
  ASSUME SanBase, [SanitizerNext]_sanVars
  PROVE  SanBase'
  <1>0. LockIInv /\ SanTypes /\ LinkInv /\ SegmentsCounted /\ TypeOK /\ TablesInv
        /\ tsVc \in [Thread -> Clock] /\ rwEpochs \in Seq(Thread \X Nat)
    BY DEF SanBase, LockIInv, SanTypes
  <1>1. CASE UNCHANGED sanVars
    <2>1. LockIInv' BY <1>0, <1>1, LockIInvStutter DEF sanVars
    <2>2. UNCHANGED <<tsVc, rwEpochs, fresh, setBack, current, segments, refs, expired, freed, units,
                      touched, found, unlike>>
      BY <1>1 DEF sanVars, segmentVars
    <2>3. SanTypes' BY <1>0, <2>2 DEF SanTypes
    <2>4. LinkInv' BY <1>0, <2>2 DEF LinkInv
    <2>5. SegmentsCounted' BY <1>0, <2>2 DEF SegmentsCounted
    <2> QED BY <2>1, <2>3, <2>4, <2>5 DEF SanBase
  <1> QED BY <1>0, <1>1, SanBaseMove, SanitizerSteps

LEMMA SanBaseInit == SanitizerInit => SanBase
  <1> SUFFICES ASSUME SanitizerInit PROVE SanBase OBVIOUS
  <1>1. LockIInv BY LockIInvInit DEF SanitizerInit
  <1>2. DOMAIN segments = {} /\ segments = << >> /\ refs = << >> BY DEF SanitizerInit
  <1>3. tsVc \in [Thread -> Clock] BY <1>1 DEF SanitizerInit, LockIInv, TypeOK
  <1>4. refs \in [DOMAIN segments -> Nat] BY <1>2
  <1>5. SanTypes
    <2>0. rwEpochs = << >> /\ fresh = [t \in Thread |-> TRUE] /\ setBack = FALSE
          /\ current = [t \in Thread |-> 0]
      BY DEF SanitizerInit
    <2>1. /\ rwEpochs \in Seq(Thread \X Nat) /\ segments \in Seq(SegmentRec)
          /\ current \in [Thread -> DOMAIN segments \cup {0}]
      BY <1>2, <2>0
    <2>3. fresh \in [Thread -> BOOLEAN] /\ setBack \in BOOLEAN BY <2>0
    <2>2. /\ expired = {} /\ freed = {} /\ found = {} /\ unlike = {}
          /\ units \in [Kind -> SUBSET DOMAIN segments] /\ touched = units
      BY <1>2 DEF SanitizerInit
    <2> QED BY <1>3, <1>4, <2>1, <2>2, <2>3 DEF SanTypes
  <1>6. LinkInv BY DEF SanitizerInit, LinkInv
  <1>7. SegmentsCounted BY <1>2 DEF SegmentsCounted
  <1> QED BY <1>1, <1>5, <1>6, <1>7 DEF SanBase

\* The clocks, segments and sets are of their types in every reachable state.
THEOREM SanitizerTyped == SanitizerSpec => []SanitizerTypeOK
  <1>1. SanBase => SanitizerTypeOK
    BY DEF SanBase, LockIInv, TablesInv, TableTypes, AccessTypes, SanTypes, SanitizerTypeOK,
       ProgramTypeOK
  <1>2. SanitizerInit => SanBase BY SanBaseInit
  <1>3. SanBase /\ [SanitizerNext]_sanVars => SanBase' BY SanBaseStep
  <1> QED BY <1>1, <1>2, <1>3, PTL DEF SanitizerSpec

\* A segment's reference count is the number of its references: one deleted is
\* in nobody's hands, and one that nobody holds is deleted or waits for it.
THEOREM SanitizerCounted == SanitizerSpec => []SegmentsCounted
  <1>1. SanBase => SegmentsCounted BY DEF SanBase
  <1>2. SanitizerInit => SanBase BY SanBaseInit
  <1>3. SanBase /\ [SanitizerNext]_sanVars => SanBase' BY SanBaseStep
  <1> QED BY <1>1, <1>2, <1>3, PTL DEF SanitizerSpec
-----------------------------------------------------------------------------
(* Clocks. *)

\* Nobody, and nothing, knows a later clock of t than t itself.
Bound(C, segs, es, t) ==
  /\ \A v \in Thread : C[v][t] <= C[t][t]
  /\ \A i \in DOMAIN segs : segs[i].clock[t] <= C[t][t]
  /\ \A i \in DOMAIN es : es[i][1] = t => es[i][2] <= C[t][t]

OwnInv ==
  ~setBack =>
    /\ \A t \in Thread : pc[t] # "reaped" => Bound(tsVc, segments, rwEpochs, t)
    /\ \A t \in Thread : pc[t] = "unborn" => tsVc[t][t] = 0

\* A step that sets no clock back moves the clocks on.
LEMMA TsMove ==
  ASSUME SanBase, NEW t \in Thread, LockStep(t), ~setBack',
         SyncKinds(t) \/ \E k \in Kind : TsAccess(t, k)
  PROVE  ~setBack /\ ClockMove(t, tsVc, tsVc')
  <1>0. tsVc \in [Thread -> Clock] BY DEF SanBase, SanTypes
  <1>1. \A v \in Thread : HappensBefore(tsVc[v], tsVc[v]) BY <1>0, SameClocks
  <1>2. CASE \E c \in Thread : (LockCreate(t, c) /\ TsCreate(t, c)) \/ (LockJoin(t, c) /\ TsJoin(t, c))
    BY <1>2 DEF TsCreate, TsJoin, ClockMove
  <1>3. CASE LockExit(t) /\ UNCHANGED <<tsVc, rwEpochs, fresh, setBack>>
    BY <1>1, <1>3 DEF ClockMove, LockCalls
  <1>4. ASSUME LockOps(t), NEW n \in Clock, Resync(t, n) PROVE ~setBack /\ ClockMove(t, tsVc, tsVc')
    <2>1. ~setBack /\ HappensBefore(tsVc[t], n) /\ tsVc' = [tsVc EXCEPT ![t] = n]
      BY <1>4 DEF Resync
    <2>2. \A v \in Thread : HappensBefore(tsVc[v], tsVc'[v])
      <3>1. tsVc'[t] = n /\ \A v \in Thread \ {t} : tsVc'[v] = tsVc[v] BY <1>0, <2>1
      <3> QED BY <1>1, <2>1, <3>1
    <2> QED BY <1>4, <2>1, <2>2 DEF ClockMove, LockOps
  <1>5. ASSUME NEW k \in Kind, TsAccess(t, k) PROVE ~setBack /\ ClockMove(t, tsVc, tsVc')
    <2>1. LockCalls(t) /\ tsVc' = tsVc /\ setBack' = setBack BY <1>5 DEF TsAccess, LockCalls
    <2> QED BY <1>1, <2>1 DEF ClockMove
  <1> QED BY <1>2, <1>3, <1>4, <1>5 DEF SyncKinds

LEMMA OwnStep ==
  ASSUME SanBase, OwnInv, NEW t \in Thread, LockStep(t), ~setBack',
         (SyncKinds(t) /\ UNCHANGED segmentVars) \/ \E k \in Kind : TsAccess(t, k)
  PROVE  OwnInv'
  <1>0. /\ tsVc \in [Thread -> Clock] /\ rwEpochs \in Seq(Thread \X Nat) /\ TypeOK /\ ~setBack
        /\ pc \in [Thread -> PC]
        /\ \A v, w \in Thread : tsVc[v][w] \in Nat
        /\ \A i \in DOMAIN segments : segments[i].clock \in Clock
        /\ \A i \in DOMAIN segments, w \in Thread : segments[i].clock[w] \in Nat
        /\ \A i \in DOMAIN rwEpochs : rwEpochs[i][2] \in Nat /\ rwEpochs[i][1] \in Thread
    <2>1. tsVc \in [Thread -> Clock] /\ rwEpochs \in Seq(Thread \X Nat) /\ TypeOK
          /\ segments \in Seq(SegmentRec)
      BY DEF SanBase, SanTypes, LockIInv
    <2>2. \A i \in DOMAIN segments : segments[i] \in SegmentRec BY <2>1
    <2>3. \A i \in DOMAIN rwEpochs : rwEpochs[i] \in Thread \X Nat BY <2>1
    <2>4. \A v \in Thread : tsVc[v] \in Clock BY <2>1
    <2>5. \A i \in DOMAIN segments : segments[i].clock \in Clock BY <2>2 DEF SegmentRec
    <2>6. ~setBack BY TsMove
    <2>7. \A v, w \in Thread : tsVc[v][w] \in Nat BY <2>4 DEF Clock
    <2>8. \A i \in DOMAIN segments, w \in Thread : segments[i].clock[w] \in Nat BY <2>5 DEF Clock
    <2>9. \A i \in DOMAIN rwEpochs : rwEpochs[i][2] \in Nat /\ rwEpochs[i][1] \in Thread BY <2>3
    <2> QED BY <2>1, <2>5, <2>6, <2>7, <2>8, <2>9 DEF TypeOK
  <1>1. /\ \A w \in Thread : pc[w] # "reaped" => Bound(tsVc, segments, rwEpochs, w)
        /\ \A w \in Thread : pc[w] = "unborn" => tsVc[w][w] = 0
    BY <1>0 DEF OwnInv
  <1>2. ASSUME segments' = segments, rwEpochs' = rwEpochs, tsVc' \in [Thread -> Clock],
               \A w \in Thread : pc'[w] # "reaped" =>
                 pc[w] # "reaped" /\ tsVc[w][w] <= tsVc'[w][w]
                 /\ \A v \in Thread : tsVc'[v][w] <= tsVc'[w][w],
               \A w \in Thread : pc'[w] = "unborn" => pc[w] = "unborn" /\ tsVc'[w][w] = tsVc[w][w]
        PROVE  OwnInv'
    <2>1. ASSUME NEW w \in Thread, pc'[w] # "reaped" PROVE Bound(tsVc', segments', rwEpochs', w)
      <3>1. Bound(tsVc, segments, rwEpochs, w) BY <1>1, <1>2, <2>1
      <3>2. tsVc[w][w] <= tsVc'[w][w] /\ tsVc[w][w] \in Nat /\ tsVc'[w][w] \in Nat
            /\ \A v \in Thread : tsVc'[v][w] <= tsVc'[w][w]
        <4>1. tsVc'[w] \in Clock BY <1>2
        <4> QED BY <1>0, <1>2, <2>1, <4>1 DEF Clock
      <3> QED BY <1>0, <1>2, <3>1, <3>2 DEF Bound
    <2> QED BY <1>1, <1>2, <2>1 DEF OwnInv, Bound
  <1>3. ASSUME NEW c \in Thread, LockCreate(t, c), TsCreate(t, c), UNCHANGED segmentVars PROVE OwnInv'
    <2>1. /\ pc[c] = "unborn" /\ c # t /\ pc[t] = "run" /\ pc' = [pc EXCEPT ![c] = "run"]
          /\ tsVc' = Started(tsVc, c, t) /\ rwEpochs' = rwEpochs /\ segments' = segments
      BY <1>0, <1>3, OtherThread DEF LockCreate, Move, Goto, TsCreate, segmentVars
    <2>2. /\ tsVc' \in [Thread -> Clock]
          /\ tsVc'[t] = Increment(tsVc[t], t)
          /\ \A u \in Thread \ {c, t} : tsVc'[u] = tsVc[u]
          /\ \A w \in Thread : w # c => tsVc'[c][w] = tsVc[t][w]
          /\ 1 <= tsVc'[c][c]
      BY <1>0, <2>1, StartedProp
    <2>3. tsVc'[t][t] = tsVc[t][t] + 1 /\ \A w \in Thread \ {t} : tsVc'[t][w] = tsVc[t][w]
      <3>1. tsVc[t] \in Clock BY <1>0
      <3>2. /\ Increment(tsVc[t], t)[t] = tsVc[t][t] + 1
            /\ \A w \in Thread \ {t} : Increment(tsVc[t], t)[w] = tsVc[t][w]
        BY <3>1, IncrementProp
      <3> QED BY <2>2, <3>2
    <2>4. \A v, w \in Thread : tsVc'[v][w] \in Nat
      <3>1. \A v \in Thread : tsVc'[v] \in Clock BY <2>2
      <3> QED BY <3>1 DEF Clock
    <2>5. ASSUME NEW w \in Thread, pc'[w] # "reaped"
          PROVE  pc[w] # "reaped" /\ tsVc[w][w] <= tsVc'[w][w]
                 /\ \A v \in Thread : tsVc'[v][w] <= tsVc'[w][w]
      <3>1. pc[w] # "reaped" BY <1>0, <2>1, <2>5
      <3>2. \A v \in Thread : tsVc[v][w] <= tsVc[w][w] BY <1>1, <3>1 DEF Bound
      <3>3. CASE w = c
        <4>1. tsVc[c][c] = 0 BY <1>1, <2>1
        <4>2. \A v \in Thread \ {c} : tsVc'[v][c] = tsVc[v][c] BY <2>1, <2>2, <2>3
        <4>3. \A v \in Thread : tsVc'[v][c] <= tsVc'[c][c]
          BY <1>0, <2>2, <2>4, <3>2, <3>3, <4>1, <4>2
        <4> QED BY <2>2, <2>4, <3>1, <3>3, <4>1, <4>3
      <3>4. CASE w = t
        <4>1. \A v \in Thread \ {t} : tsVc'[v][t] <= tsVc[t][t]
          BY <1>0, <2>1, <2>2, <3>2, <3>4
        <4>2. tsVc[t][t] < tsVc'[t][t] BY <1>0, <2>3
        <4>3. \A v \in Thread : tsVc'[v][t] <= tsVc'[t][t]
          <5>1. ASSUME NEW v \in Thread \ {t} PROVE tsVc'[v][t] <= tsVc'[t][t]
            BY <1>0, <2>4, <4>1, <4>2
          <5>2. tsVc'[t][t] <= tsVc'[t][t] BY <2>4
          <5> QED BY <5>1, <5>2
        <4> QED BY <1>0, <2>4, <3>1, <3>4, <4>2, <4>3
      <3>5. CASE w # c /\ w # t
        <4>1. \A v \in Thread : tsVc'[v][w] = tsVc[v][w] \/ tsVc'[v][w] = tsVc[t][w]
          BY <2>1, <2>2, <2>3, <3>5
        <4>2. tsVc'[w][w] = tsVc[w][w] BY <2>2, <3>5
        <4> QED BY <1>0, <3>1, <3>2, <4>1, <4>2
      <3> QED BY <3>3, <3>4, <3>5
    <2>6. \A w \in Thread : pc'[w] = "unborn" => pc[w] = "unborn" /\ tsVc'[w][w] = tsVc[w][w]
      BY <1>0, <2>1, <2>2
    <2> QED BY <1>2, <2>1, <2>2, <2>5, <2>6
  <1>4. ASSUME NEW c \in Thread, LockJoin(t, c), TsJoin(t, c), UNCHANGED segmentVars PROVE OwnInv'
    <2>1. /\ pc[c] = "exited" /\ c # t /\ pc[t] = "run" /\ pc' = [pc EXCEPT ![c] = "reaped"]
          /\ tsVc' = Joined(tsVc, t, c) /\ rwEpochs' = rwEpochs /\ segments' = segments
      BY <1>0, <1>4, OtherThread DEF LockJoin, Move, Goto, TsJoin, segmentVars
    <2>2. /\ tsVc' \in [Thread -> Clock]
          /\ tsVc'[c] = Zero
          /\ \A u \in Thread \ {c, t} : tsVc'[u] = tsVc[u]
          /\ \A w \in Thread \ {t} : tsVc'[t][w] = tsVc[t][w] \/ tsVc'[t][w] = tsVc[c][w]
          /\ tsVc[t][t] < tsVc'[t][t]
      <3> DEFINE D == Joined(tsVc, t, c)
      <3>1. /\ D \in [Thread -> Clock] /\ D[c] = Zero
            /\ \A u \in Thread \ {c, t} : D[u] = tsVc[u]
            /\ \A w \in Thread : w # t => D[t][w] = tsVc[t][w] \/ D[t][w] = tsVc[c][w]
            /\ tsVc[t][t] < D[t][t]
        <4>1. tsVc \in [Thread -> Clock] BY <1>0
        <4>2. c # t BY <2>1
        <4> QED BY ONLY <4>1, <4>2, t \in Thread, c \in Thread, JoinedProp DEF D
      <3>2. tsVc' = D BY <2>1
      <3> HIDE DEF D
      <3> QED BY <3>1, <3>2
    <2>4. \A v, w \in Thread : tsVc'[v][w] \in Nat
      <3>1. \A v \in Thread : tsVc'[v] \in Clock BY <2>2
      <3> QED BY <3>1 DEF Clock
    <2>5. ASSUME NEW w \in Thread, pc'[w] # "reaped"
          PROVE  pc[w] # "reaped" /\ tsVc[w][w] <= tsVc'[w][w]
                 /\ \A v \in Thread : tsVc'[v][w] <= tsVc'[w][w]
      <3>1. pc[w] # "reaped" /\ w # c BY <1>0, <2>1, <2>5
      <3>2. \A v \in Thread : tsVc[v][w] <= tsVc[w][w] BY <1>1, <3>1 DEF Bound
      <3>3. tsVc'[c][w] = 0 BY <2>2, ZeroProp
      <3>4. CASE w = t
        <4>1. ASSUME NEW v \in Thread \ {t} PROVE tsVc'[v][t] <= tsVc[t][t]
          <5>1. CASE v = c BY <1>0, <3>3, <3>4, <5>1
          <5>2. CASE v # c
            <6>1. tsVc'[v] = tsVc[v] BY <2>2, <5>2
            <6> QED BY <3>2, <3>4, <6>1
          <5> QED BY <5>1, <5>2
        <4>2. \A v \in Thread : tsVc'[v][t] <= tsVc'[t][t]
          <5> SUFFICES ASSUME NEW v \in Thread PROVE tsVc'[v][t] <= tsVc'[t][t] OBVIOUS
          <5>1. tsVc[t][t] < tsVc'[t][t] BY <2>2
          <5>2. tsVc'[v][t] \in Nat /\ tsVc'[t][t] \in Nat /\ tsVc[t][t] \in Nat
            BY <1>0, <2>4
          <5>3. v # t => tsVc'[v][t] <= tsVc[t][t] BY <4>1
          <5> QED BY <5>1, <5>2, <5>3
        <4>3. tsVc[t][t] <= tsVc'[t][t] BY <1>0, <2>2, <2>4
        <4> QED BY <3>1, <3>4, <4>2, <4>3
      <3>5. CASE w # t
        <4>1. \A v \in Thread : \/ tsVc'[v][w] = tsVc[v][w] \/ tsVc'[v][w] = tsVc[c][w]
                                \/ tsVc'[v][w] = 0
          BY <2>1, <2>2, <3>3, <3>5
        <4>2. tsVc'[w][w] = tsVc[w][w] BY <2>2, <3>1, <3>5
        <4> QED BY <1>0, <3>1, <3>2, <4>1, <4>2
      <3> QED BY <3>4, <3>5
    <2>6. \A w \in Thread : pc'[w] = "unborn" => pc[w] = "unborn" /\ tsVc'[w][w] = tsVc[w][w]
      BY <1>0, <2>1, <2>2
    <2> QED BY <1>2, <2>1, <2>2, <2>5, <2>6
  <1>5. ASSUME LockExit(t), UNCHANGED <<tsVc, rwEpochs, fresh, setBack>>, UNCHANGED segmentVars
        PROVE  OwnInv'
    <2>1. pc' = [pc EXCEPT ![t] = "exited"] /\ pc[t] = "run" /\ segments' = segments
      BY <1>5 DEF LockExit, Move, Goto, segmentVars
    <2>2. \A w \in Thread : /\ pc'[w] # "reaped" => pc[w] # "reaped"
                            /\ pc'[w] = "unborn" => pc[w] = "unborn"
      BY <1>0, <2>1
    <2> QED BY <1>1, <1>5, <2>1, <2>2 DEF OwnInv, Bound
  <1>6. ASSUME LockOps(t), NEW n \in Clock, Resync(t, n), UNCHANGED segmentVars PROVE OwnInv'
    <2>1. /\ pc' = pc /\ pc[t] = "run" /\ segments' = segments
          /\ tsVc' = [tsVc EXCEPT ![t] = n] /\ HappensBefore(tsVc[t], n)
      BY <1>6 DEF LockOps, Resync, segmentVars
    <2>2. tsVc'[t] = n /\ \A v \in Thread \ {t} : tsVc'[v] = tsVc[v] BY <1>0, <2>1
    <2>3. tsVc[t][t] <= n[t] /\ \A w \in Thread : n[w] \in Nat BY <2>1 DEF HappensBefore, Clock
    <2>4. \A i \in DOMAIN rwEpochs' : \/ rwEpochs'[i] = <<t, n[t]>>
                                      \/ i \in DOMAIN rwEpochs /\ rwEpochs'[i] = rwEpochs[i]
      <3>1. CASE rwEpochs' = rwEpochs BY <3>1
      <3>2. CASE rwEpochs' = << <<t, n[t]>> >>
        <4> DEFINE e == <<t, n[t]>>
        <4>1. rwEpochs' = <<e>> BY <3>2
        <4>2. DOMAIN <<e>> = {1} /\ <<e>>[1] = e OBVIOUS
        <4> QED BY <4>1, <4>2
      <3>3. CASE rwEpochs' = Append(rwEpochs, <<t, n[t]>>)
        <4> DEFINE e == <<t, n[t]>>
        <4>1. e \in Thread \X Nat BY <2>3
        <4>2. rwEpochs' = Append(rwEpochs, e) BY <3>3
        <4> HIDE DEF e
        <4>3. /\ DOMAIN rwEpochs' = 1..(Len(rwEpochs) + 1) /\ rwEpochs'[Len(rwEpochs) + 1] = e
              /\ \A i \in 1..Len(rwEpochs) : rwEpochs'[i] = rwEpochs[i]
              /\ DOMAIN rwEpochs = 1..Len(rwEpochs) /\ Len(rwEpochs) \in Nat
          BY <1>0, <4>1, <4>2
        <4> QED BY <4>3 DEF e
      <3> QED BY <1>6, <3>1, <3>2, <3>3 DEF Resync
    <2>5. ASSUME NEW w \in Thread, pc[w] # "reaped" PROVE Bound(tsVc', segments', rwEpochs', w)
      <3>1. Bound(tsVc, segments, rwEpochs, w) BY <1>1, <2>5
      <3>2. CASE w = t
        <4>1. tsVc'[w][w] = n[t] /\ tsVc[t][t] <= n[t] BY <2>2, <2>3, <3>2
        <4>2. \A v \in Thread : tsVc'[v][w] <= n[t] BY <1>0, <2>2, <2>3, <3>1, <3>2 DEF Bound
        <4>3. \A i \in DOMAIN segments : segments[i].clock[w] <= n[t]
          BY <1>0, <2>3, <3>1, <3>2 DEF Bound
        <4>4. \A i \in DOMAIN rwEpochs' : rwEpochs'[i][1] = w => rwEpochs'[i][2] <= n[t]
          <5> SUFFICES ASSUME NEW i \in DOMAIN rwEpochs', rwEpochs'[i][1] = w
                       PROVE  rwEpochs'[i][2] <= n[t]
            OBVIOUS
          <5>1. CASE rwEpochs'[i] = <<t, n[t]>> BY <2>3, <5>1
          <5>2. CASE i \in DOMAIN rwEpochs /\ rwEpochs'[i] = rwEpochs[i]
            BY <1>0, <2>3, <3>1, <3>2, <5>2 DEF Bound
          <5> QED BY <2>4, <5>1, <5>2
        <4> QED BY <2>1, <4>1, <4>2, <4>3, <4>4 DEF Bound
      <3>3. CASE w # t
        <4>1. tsVc'[w][w] = tsVc[w][w] BY <2>2, <3>3
        <4>2. n[w] <= tsVc[w][w] BY <1>0, <1>6, <3>1, <3>3 DEF Resync, Bound
        <4>3. \A v \in Thread : tsVc'[v][w] <= tsVc[w][w] BY <2>2, <3>1, <4>2 DEF Bound
        <4>4. \A i \in DOMAIN rwEpochs' : rwEpochs'[i][1] = w => rwEpochs'[i][2] <= tsVc[w][w]
          BY <2>4, <3>1, <3>3 DEF Bound
        <4> QED BY <2>1, <3>1, <4>1, <4>3, <4>4 DEF Bound
      <3> QED BY <3>2, <3>3
    <2>6. \A w \in Thread : pc[w] = "unborn" => tsVc'[w][w] = 0 BY <1>1, <2>1, <2>2
    <2> QED BY <2>1, <2>5, <2>6 DEF OwnInv, Bound
  <1>7. ASSUME NEW k \in Kind, TsAccess(t, k) PROVE OwnInv'
    <2>1. /\ pc' = pc /\ pc[t] = "run" /\ tsVc' = tsVc /\ rwEpochs' = rwEpochs
          /\ segments' = SegmentsWith(t)
      BY <1>7 DEF TsAccess, LockTouch, Touch
    <2>2. \A i \in DOMAIN segments' : \/ i \in DOMAIN segments /\ segments'[i] = segments[i]
                                      \/ segments'[i].clock = tsVc[t]
      <3>1. SanTypes /\ LinkInv /\ LockIInv BY DEF SanBase
      <3> DEFINE m == SegmentOf(t)
      <3>2. /\ DOMAIN segments' = DOMAIN segments \cup {m}
            /\ \A s \in DOMAIN segments : segments'[s] = segments[s]
            /\ fresh[t] => segments'[m] = [thd |-> t, clock |-> tsVc[t], wr |-> wls[t], rd |-> rls[t]]
            /\ ~fresh[t] => m \in DOMAIN segments
        <4> DEFINE segs == SegmentsWith(t)
        <4>1. /\ DOMAIN segs = DOMAIN segments \cup {m}
              /\ \A s \in DOMAIN segments : segs[s] = segments[s]
              /\ fresh[t] => segs[m] = [thd |-> t, clock |-> tsVc[t], wr |-> wls[t], rd |-> rls[t]]
              /\ ~fresh[t] => m \in DOMAIN segments
          BY <3>1, SegmentOfProp
        <4> HIDE DEF segs, m
        <4> QED BY <2>1, <4>1 DEF segs
      <3> HIDE DEF m
      <3> QED BY <3>2
    <2>3. ASSUME NEW w \in Thread, pc[w] # "reaped" PROVE Bound(tsVc, segments', rwEpochs, w)
      <3>1. Bound(tsVc, segments, rwEpochs, w) BY <1>1, <2>3
      <3>2. \A i \in DOMAIN segments' : segments'[i].clock[w] <= tsVc[w][w]
        BY <2>2, <3>1 DEF Bound
      <3> QED BY <3>1, <3>2 DEF Bound
    <2> QED BY <1>1, <2>1, <2>3 DEF OwnInv, Bound
  <1> QED BY <1>3, <1>4, <1>5, <1>6, <1>7 DEF SyncKinds
-----------------------------------------------------------------------------
(* What a segment stands for. *)

\* Whoever comes after the n-th access of u, u itself apart, has gone on past what
\* x says of it.
BehindIn(p, h, C, u, n, x) ==
  \A v \in Thread \ {u} : p[v] \in LivePC /\ n <= h[v][u] => x[v] < C[v][v]

\* A thread is past what was known of it before it was created, and what was known
\* when it joins.
LEMMA BehindStep ==
  ASSUME NEW t \in Thread, TypeOK, HbInv, LockStep(t),
         NEW C \in [Thread -> Clock], NEW D \in [Thread -> Clock], ClockMove(t, C, D),
         NEW u \in Thread, NEW n \in Nat \ {0}, NEW x \in Clock,
         \A v \in Thread : pc[v] # "reaped" => x[v] <= C[v][v],
         \A v \in Thread : pc[v] = "unborn" => C[v][v] = 0,
         BehindIn(pc, hb, C, u, n, x)
  PROVE  BehindIn(pc', hb', D, u, n, x)
  <1>0. /\ \A v \in Thread : C[v][v] \in Nat /\ D[v][v] \in Nat /\ x[v] \in Nat /\ hb[v] \in Clock
        /\ pc \in [Thread -> PC] /\ hb \in [Thread -> Clock]
    <2>1. pc \in [Thread -> PC] /\ hb \in [Thread -> Clock] BY DEF TypeOK
    <2>2. \A v \in Thread : C[v] \in Clock /\ D[v] \in Clock /\ hb[v] \in Clock BY <2>1
    <2> QED BY <2>1, <2>2 DEF Clock
  <1>1. ASSUME NEW c \in Thread, LockCreate(t, c), D = Started(C, c, t)
        PROVE  BehindIn(pc', hb', D, u, n, x)
    <2>1. /\ pc[c] = "unborn" /\ c # t /\ pc' = [pc EXCEPT ![c] = "run"] /\ pc[t] = "run"
          /\ hb' = [hb EXCEPT ![c] = Join(hb[c], hb[t])]
      BY <1>1, OtherThread DEF LockCreate, Move, Goto, Learn
    <2>2. /\ 1 <= D[c][c] /\ C[t][t] <= D[t][t]
          /\ \A v \in Thread \ {c, t} : D[v] = C[v]
      BY <1>1, <2>1, StartedProp
    <2>3. ASSUME NEW v \in Thread \ {u}, pc'[v] \in LivePC, n <= hb'[v][u] PROVE x[v] < D[v][v]
      <3>1. CASE v = c
        <4>1. x[c] <= 0 BY <1>0, <2>1
        <4> QED BY <1>0, <2>2, <3>1, <4>1
      <3>2. CASE v # c
        <4>1. hb'[v] = hb[v] /\ pc'[v] = pc[v] BY <1>0, <2>1, <3>2
        <4>2. x[v] < C[v][v] BY <2>3, <4>1 DEF BehindIn
        <4>3. C[v][v] <= D[v][v]
          <5>1. CASE v = t BY <2>2, <5>1
          <5>2. CASE v # t
            <6>1. D[v] = C[v] BY <2>2, <3>2, <5>2
            <6> QED BY <1>0, <6>1
          <5> QED BY <5>1, <5>2
        <4> QED BY <1>0, <4>2, <4>3
      <3> QED BY <3>1, <3>2
    <2> QED BY <2>3 DEF BehindIn
  <1>2. ASSUME NEW c \in Thread, LockJoin(t, c), D = Joined(C, t, c)
        PROVE  BehindIn(pc', hb', D, u, n, x)
    <2>1. /\ pc[c] = "exited" /\ pc[t] = "run" /\ c # t /\ pc' = [pc EXCEPT ![c] = "reaped"]
          /\ hb' = [hb EXCEPT ![t] = Join(hb[t], hb[c])]
      BY <1>2, OtherThread DEF LockJoin, Move, Goto, Learn
    <2>2. C[t][t] < D[t][t] /\ \A v \in Thread \ {c, t} : D[v] = C[v]
      BY <1>2, <2>1, JoinedProp
    <2>3. ASSUME NEW v \in Thread \ {u}, pc'[v] \in LivePC, n <= hb'[v][u] PROVE x[v] < D[v][v]
      <3>0. v # c BY <1>0, <2>1, <2>3 DEF LivePC
      <3>1. CASE v = t BY <1>0, <2>1, <2>2, <3>1
      <3>2. CASE v # t
        <4>1. hb'[v] = hb[v] /\ pc'[v] = pc[v] BY <1>0, <2>1, <3>0, <3>2
        <4>2. x[v] < C[v][v] BY <2>3, <4>1 DEF BehindIn
        <4>3. D[v] = C[v] BY <2>2, <3>0, <3>2
        <4> QED BY <4>2, <4>3
      <3> QED BY <3>1, <3>2
    <2> QED BY <2>3 DEF BehindIn
  <1>3. ASSUME LockCalls(t), \A v \in Thread : HappensBefore(C[v], D[v])
        PROVE  BehindIn(pc', hb', D, u, n, x)
    <2>1. \A v \in Thread : C[v][v] <= D[v][v] BY <1>3 DEF HappensBefore
    <2>2. \A v \in Thread : pc'[v] \in LivePC => pc[v] \in LivePC
      <3>1. pc' = pc \/ (pc' = [pc EXCEPT ![t] = "exited"] /\ pc[t] = "run")
        BY <1>3 DEF LockCalls, LockExit, LockMutexLock, LockMutexUnlock, LockRdlock, LockWrlock,
           LockRwlockUnlock, LockTouch, Touch, Move, Goto, callVars
      <3> QED BY <1>0, <3>1 DEF LivePC
    <2>3. \A v \in Thread \ {u} : hb'[v][u] = hb[v][u]
      <3> DEFINE N == [hb[t] EXCEPT ![t] = @ + 1]
      <3>1. hb' = hb \/ hb' = [hb EXCEPT ![t] = N]
        BY <1>3 DEF LockCalls, LockExit, LockMutexLock, LockMutexUnlock, LockRdlock, LockWrlock,
           LockRwlockUnlock, LockTouch, Touch
      <3>2. u # t => N[u] = hb[t][u] BY <1>0 DEF Clock
      <3> HIDE DEF N
      <3>3. hb' = [hb EXCEPT ![t] = N] => hb'[t] = N /\ \A v \in Thread \ {t} : hb'[v] = hb[v] BY <1>0
      <3> QED BY <3>1, <3>2, <3>3
    <2>4. ASSUME NEW v \in Thread \ {u}, pc'[v] \in LivePC, n <= hb'[v][u] PROVE x[v] < D[v][v]
      <3>1. x[v] < C[v][v] BY <2>2, <2>3, <2>4 DEF BehindIn
      <3> QED BY <1>0, <2>1, <3>1
    <2> QED BY <2>4 DEF BehindIn
  <1> QED BY <1>1, <1>2, <1>3 DEF ClockMove

\* The segment of a thread that has not synchronised since has its clock and locks.
LiveInv ==
  \A t \in Thread : ~fresh[t] /\ pc[t] \in LivePC =>
    /\ segments[current[t]].clock = tsVc[t]
    /\ segments[current[t]].wr = wls[t] /\ segments[current[t]].rd = rls[t]

LEMMA LiveStep ==
  ASSUME SanBase, LiveInv, NEW t \in Thread, LockStep(t),
         (SyncKinds(t) /\ UNCHANGED segmentVars) \/ \E k \in Kind : TsAccess(t, k)
  PROVE  LiveInv'
  <1>0. /\ SanTypes /\ LinkInv /\ LockIInv /\ TypeOK
        /\ pc \in [Thread -> PC] /\ tsVc \in [Thread -> Clock] /\ fresh \in [Thread -> BOOLEAN]
    BY DEF SanBase, SanTypes, LockIInv, TypeOK
  <1>1. ASSUME UNCHANGED segmentVars,
               \A u \in Thread : ~fresh'[u] /\ pc'[u] \in LivePC =>
                 /\ ~fresh[u] /\ pc[u] \in LivePC
                 /\ tsVc'[u] = tsVc[u] /\ wls'[u] = wls[u] /\ rls'[u] = rls[u]
        PROVE  LiveInv'
    BY <1>1 DEF LiveInv, segmentVars
  <1>2. ASSUME NEW c \in Thread, LockCreate(t, c), TsCreate(t, c), UNCHANGED segmentVars PROVE LiveInv'
    <2>1. /\ c # t /\ pc' = [pc EXCEPT ![c] = "run"] /\ tsVc' = Started(tsVc, c, t)
          /\ fresh' = [fresh EXCEPT ![t] = TRUE, ![c] = TRUE] /\ wls' = wls /\ rls' = rls
      BY <1>0, <1>2, OtherThread DEF LockCreate, Move, Goto, TsCreate, tableVars
    <2>2. fresh'[t] /\ fresh'[c] BY <1>0, <2>1
    <2>3. \A u \in Thread \ {c, t} : tsVc'[u] = tsVc[u] BY <1>0, <2>1, StartedProp
    <2>4. \A u \in Thread \ {c, t} : fresh'[u] = fresh[u] /\ pc'[u] = pc[u] BY <1>0, <2>1
    <2> QED BY <1>1, <1>2, <2>1, <2>2, <2>3, <2>4
  <1>3. ASSUME NEW c \in Thread, LockJoin(t, c), TsJoin(t, c), UNCHANGED segmentVars PROVE LiveInv'
    <2>1. /\ c # t /\ pc' = [pc EXCEPT ![c] = "reaped"] /\ tsVc' = Joined(tsVc, t, c)
          /\ fresh' = [fresh EXCEPT ![t] = TRUE] /\ wls' = wls /\ rls' = rls
      BY <1>0, <1>3, OtherThread DEF LockJoin, Move, Goto, TsJoin, tableVars
    <2>2. fresh'[t] /\ pc'[c] \notin LivePC BY <1>0, <2>1 DEF LivePC
    <2>3. \A u \in Thread \ {c, t} : tsVc'[u] = tsVc[u] BY <1>0, <2>1, JoinedProp
    <2>4. \A u \in Thread \ {c, t} : fresh'[u] = fresh[u] /\ pc'[u] = pc[u] BY <1>0, <2>1
    <2> QED BY <1>1, <1>3, <2>1, <2>2, <2>3, <2>4
  <1>4. ASSUME LockExit(t), UNCHANGED <<tsVc, rwEpochs, fresh, setBack>>, UNCHANGED segmentVars
        PROVE  LiveInv'
    <2>1. pc[t] = "run" /\ pc' = [pc EXCEPT ![t] = "exited"] /\ wls' = wls /\ rls' = rls
      BY <1>4 DEF LockExit, Move, Goto, programVars, tableVars
    <2>2. \A u \in Thread : pc'[u] \in LivePC => pc[u] \in LivePC BY <1>0, <2>1 DEF LivePC
    <2> QED BY <1>1, <1>4, <2>1, <2>2
  <1>5. ASSUME LockOps(t), NEW n \in Clock, Resync(t, n), UNCHANGED segmentVars PROVE LiveInv'
    <2>1. /\ pc' = pc /\ tsVc' = [tsVc EXCEPT ![t] = n] /\ fresh' = [fresh EXCEPT ![t] = TRUE]
          /\ \A u \in Thread \ {t} : wls'[u] = wls[u] /\ rls'[u] = rls[u]
      BY <1>5 DEF LockOps, Resync
    <2>2. fresh'[t] /\ \A u \in Thread \ {t} : fresh'[u] = fresh[u] /\ tsVc'[u] = tsVc[u]
      BY <1>0, <2>1
    <2> QED BY <1>1, <1>5, <2>1, <2>2
  <1>6. ASSUME NEW k \in Kind, TsAccess(t, k) PROVE LiveInv'
    <2> DEFINE m == SegmentOf(t)
               segs == SegmentsWith(t)
    <2>1. /\ pc' = pc /\ pc[t] = "run" /\ tsVc' = tsVc /\ wls' = wls /\ rls' = rls
          /\ segments' = segs /\ current' = [current EXCEPT ![t] = m]
          /\ fresh' = [fresh EXCEPT ![t] = FALSE]
      BY <1>6 DEF TsAccess, LockTouch, Touch, tableVars
    <2>2. /\ \A s \in DOMAIN segments : segs[s] = segments[s]
          /\ fresh[t] => segs[m] = [thd |-> t, clock |-> tsVc[t], wr |-> wls[t], rd |-> rls[t]]
          /\ ~fresh[t] => m = current[t] /\ m \in DOMAIN segments
      BY <1>0, SegmentOfProp
    <2>3. current \in [Thread -> DOMAIN segments \cup {0}] BY <1>0 DEF SanTypes
    <2> HIDE DEF m, segs
    <2>4. current'[t] = m /\ \A u \in Thread \ {t} : current'[u] = current[u] /\ fresh'[u] = fresh[u]
      BY <1>0, <2>1, <2>3
    <2>5. /\ segs[m].clock = tsVc[t] /\ segs[m].wr = wls[t] /\ segs[m].rd = rls[t]
      <3>1. CASE fresh[t] BY <2>2, <3>1
      <3>2. CASE ~fresh[t] BY <2>1, <2>2, <3>2 DEF LiveInv, LivePC
      <3> QED BY <3>1, <3>2
    <2>6. ASSUME NEW u \in Thread, ~fresh'[u], pc'[u] \in LivePC
          PROVE  /\ segments'[current'[u]].clock = tsVc'[u]
                 /\ segments'[current'[u]].wr = wls'[u] /\ segments'[current'[u]].rd = rls'[u]
      <3>1. CASE u = t BY <2>1, <2>4, <2>5, <3>1
      <3>2. CASE u # t
        <4>1. current'[u] = current[u] /\ ~fresh[u] BY <2>4, <2>6, <3>2
        <4>2. current[u] \in DOMAIN segments BY <1>0, <2>3, <4>1 DEF LinkInv
        <4> QED BY <2>1, <2>2, <2>6, <4>1, <4>2 DEF LiveInv
      <3> QED BY <3>1, <3>2
    <2> QED BY <2>6 DEF LiveInv
  <1> QED BY <1>2, <1>3, <1>4, <1>5, <1>6 DEF SyncKinds
\* Segment s stands for the access a, of kind k: it is its thread's, with the locks
\* that it held for writing, or with all of them and maybe the rwlock it had left.
Made(a, k, s) ==
  /\ a.thd = s.thd /\ a.kind = k
  /\ k = "W" => a.wr = s.wr
  /\ k = "R" => a.wr \cup a.rd \subseteq s.rd

\* Whoever comes after the access knows the segment's clock and is past it.
AheadOf(p, h, C, a, s) ==
  /\ KnownIn(p, h, C, s.thd, a.n, s.thd, s.clock[s.thd])
  /\ BehindIn(p, h, C, s.thd, a.n, s.clock)

\* Every segment in the unit's sets stands for an access.
TsWitnessInv ==
  \A k \in Kind : \A i \in units[k] :
    \E a \in seen : /\ Made(a, k, segments[i])
                    /\ ~setBack => AheadOf(pc, hb, tsVc, a, segments[i])

\* A witness stays one.
LEMMA TsWitnessKept ==
  ASSUME SanBase, OwnInv, NEW t \in Thread, LockStep(t), ~setBack',
         (SyncKinds(t) /\ UNCHANGED segmentVars) \/ \E k \in Kind : TsAccess(t, k),
         NEW a \in seen, NEW i \in DOMAIN segments, a.thd = segments[i].thd,
         ~setBack => AheadOf(pc, hb, tsVc, a, segments[i])
  PROVE  AheadOf(pc', hb', tsVc', a, segments[i])
  <1> DEFINE s == segments[i]
  <1>1. ~setBack /\ ClockMove(t, tsVc, tsVc') BY TsMove
  <1>2. SanBase' BY SanBaseMove
  <1>3. tsVc \in [Thread -> Clock] /\ tsVc' \in [Thread -> Clock] BY <1>2 DEF SanBase, SanTypes
  <1>4. s \in SegmentRec
    <2>1. segments \in Seq(SegmentRec) BY DEF SanBase, SanTypes
    <2> QED BY <2>1
  <1>5. s.thd \in Thread /\ s.clock \in Clock /\ s.clock[s.thd] \in Nat BY <1>4 DEF SegmentRec, Clock
  <1>6. /\ \A v \in Thread : pc[v] # "reaped" => s.clock[v] <= tsVc[v][v]
        /\ \A v \in Thread : pc[v] = "unborn" => tsVc[v][v] = 0
    BY <1>1 DEF OwnInv, Bound
  <1>7. TypeOK /\ HbInv /\ LockIInv BY DEF SanBase, LockIInv
  <1>8. a.n \in Nat \ {0}
    <2>1. a.n \in 1..Len(epochs[a.thd]) /\ a.thd \in Thread
      BY <1>7 DEF LockIInv, SeenInv, AccessTypes, Access
    <2>2. epochs[a.thd] \in Seq(Nat) BY <1>7, <2>1 DEF TypeOK
    <2> QED BY <2>1, <2>2
  <1>9. AheadOf(pc, hb, tsVc, a, s) BY <1>1
  <1> HIDE DEF s
  <1>10. a.thd = s.thd BY DEF s
  <1>11. KnownIn(pc', hb', tsVc', s.thd, a.n, s.thd, s.clock[s.thd])
    BY <1>1, <1>3, <1>5, <1>7, <1>9, <1>10, AccessKept DEF AheadOf
  <1>12. BehindIn(pc', hb', tsVc', s.thd, a.n, s.clock)
    BY <1>1, <1>3, <1>5, <1>6, <1>7, <1>8, <1>9, BehindStep DEF AheadOf
  <1> QED BY <1>11, <1>12 DEF AheadOf, s

\* The segment of an access is its thread's, of now.
LEMMA SegmentNow ==
  ASSUME SanBase, LiveInv, NEW t \in Thread, NEW k \in Kind, TsAccess(t, k)
  PROVE  LET s == segments'[SegmentOf(t)] IN
         s.thd = t /\ s.clock = tsVc[t] /\ s.wr = wls[t] /\ s.rd = rls[t]
  <1> DEFINE segs == SegmentsWith(t)
             m == SegmentOf(t)
  <1>1. /\ segs[m].thd = t
        /\ \A i \in DOMAIN segments : segs[i] = segments[i]
        /\ fresh[t] => segs[m] = [thd |-> t, clock |-> tsVc[t], wr |-> wls[t], rd |-> rls[t]]
        /\ ~fresh[t] => m = current[t] /\ m \in DOMAIN segments
    BY SegmentOfProp DEF SanBase
  <1>2. segments' = segs /\ pc[t] = "run" BY DEF TsAccess, LockTouch, Touch
  <1> HIDE DEF segs, m
  <1>3. CASE fresh[t] BY <1>1, <1>2, <1>3 DEF m
  <1>4. CASE ~fresh[t] BY <1>1, <1>2, <1>4 DEF LiveInv, LivePC, m
  <1> QED BY <1>3, <1>4

\* The segment of a new access stands for it.
LEMMA TsWitnessNew ==
  ASSUME SanBase, LiveInv, NEW t \in Thread, NEW k \in Kind, TsAccess(t, k)
  PROVE  /\ Making(t, k) \in seen'
         /\ Made(Making(t, k), k, segments'[SegmentOf(t)])
         /\ AheadOf(pc', hb', tsVc', Making(t, k), segments'[SegmentOf(t)])
  <1> DEFINE a == Making(t, k)
             s == segments'[SegmentOf(t)]
             n == Len(epochs[t]) + 1
  <1>0. SanTypes /\ LinkInv /\ LockIInv /\ TypeOK /\ HbInv /\ TablesInv BY DEF SanBase, LockIInv
  <1>1. LockTouch(t, k) /\ pc' = pc /\ pc[t] = "run" /\ tsVc' = tsVc
        /\ hb' = [hb EXCEPT ![t][t] = @ + 1] /\ seen' = seen \cup {a}
    BY DEF TsAccess, LockTouch, Touch
  <1>2. s.thd = t /\ s.clock = tsVc[t] /\ s.wr = wls[t] /\ s.rd = rls[t] BY SegmentNow
  <1>3. a.thd = t /\ a.kind = k /\ a.n = n /\ a.wr = HeldWrite(t) /\ a.rd = HeldRead(t) BY DEF Making
  <1>4. wls[t] = HeldWrite(t) /\ HeldWrite(t) \cup HeldRead(t) \subseteq rls[t]
    BY <1>0 DEF TablesInv, Tables, Held
  <1>5. tsVc \in [Thread -> Clock] BY <1>0 DEF SanTypes
  <1>6. KnownIn(pc', hb', tsVc, t, n, t, tsVc[t][t]) BY <1>0, <1>1, <1>5, NewAccess
  <1>7. BehindIn(pc', hb', tsVc, t, n, tsVc[t])
    <2>1. \A v \in Thread \ {t} : hb'[v] = hb[v] BY <1>0, <1>1 DEF TypeOK
    <2>2. \A v \in Thread : hb[v][t] <= Len(epochs[t]) BY <1>0 DEF HbInv, MadeIn
    <2>3. \A v \in Thread : hb[v][t] \in Nat /\ Len(epochs[t]) \in Nat
      <3>1. \A v \in Thread : hb[v] \in Clock /\ epochs[v] \in Seq(Nat) BY <1>0 DEF TypeOK
      <3> QED BY <3>1 DEF Clock
    <2> QED BY <2>1, <2>2, <2>3 DEF BehindIn
  <1> HIDE DEF a, s, n
  <1>8. Made(a, k, s) BY <1>2, <1>3, <1>4 DEF Made
  <1>9. AheadOf(pc', hb', tsVc', a, s) BY <1>1, <1>2, <1>3, <1>6, <1>7 DEF AheadOf
  <1> QED BY <1>1, <1>8, <1>9 DEF a, s

LEMMA TsWitnessStep ==
  ASSUME SanBase, OwnInv, LiveInv, TsWitnessInv, NEW t \in Thread, LockStep(t),
         (SyncKinds(t) /\ UNCHANGED <<segmentVars, seen>>) \/ \E k \in Kind : TsAccess(t, k)
  PROVE  TsWitnessInv'
  <1>0. SanTypes /\ LinkInv /\ LockIInv BY DEF SanBase
  <1>1. ASSUME NEW j \in Kind, NEW i \in units[j], segments'[i] = segments[i], seen \subseteq seen'
        PROVE  \E a \in seen' : /\ Made(a, j, segments'[i])
                                /\ ~setBack' => AheadOf(pc', hb', tsVc', a, segments'[i])
    <2>1. PICK a \in seen : /\ Made(a, j, segments[i])
                            /\ ~setBack => AheadOf(pc, hb, tsVc, a, segments[i])
      BY DEF TsWitnessInv
    <2>2. i \in DOMAIN segments BY <1>0 DEF SanTypes
    <2>3. ~setBack' => AheadOf(pc', hb', tsVc', a, segments[i])
      BY <2>1, <2>2, TsWitnessKept DEF Made
    <2> QED BY <1>1, <2>1, <2>3
  <1>2. CASE SyncKinds(t) /\ UNCHANGED <<segmentVars, seen>>
    <2>1. segments' = segments /\ units' = units /\ seen' = seen BY <1>2 DEF segmentVars
    <2> QED BY <1>1, <2>1 DEF TsWitnessInv
  <1>3. ASSUME NEW k \in Kind, TsAccess(t, k) PROVE TsWitnessInv'
    <2> DEFINE m == SegmentOf(t)
    <2>1. \A s \in DOMAIN segments : segments'[s] = segments[s]
      <3>1. \A s \in DOMAIN segments : SegmentsWith(t)[s] = segments[s] BY <1>0, SegmentOfProp
      <3> QED BY <1>3, <3>1 DEF TsAccess
    <2>2. \A j \in Kind : units'[j] \subseteq units[j] \cup (IF j = k THEN {m} ELSE {})
      <3>1. \A j \in Kind : units'[j] = (units[j] \ Dropped(t, k)[j]) \cup (IF j = k THEN {m} ELSE {})
        BY <1>0, <1>3, UnitsProp
      <3> HIDE DEF m
      <3> QED BY <3>1
    <2>3. seen \subseteq seen' BY <1>3 DEF TsAccess, LockTouch
    <2>4. \E a \in seen' : Made(a, k, segments'[m]) /\ AheadOf(pc', hb', tsVc', a, segments'[m])
      BY <1>3, TsWitnessNew
    <2>5. \A j \in Kind : units[j] \subseteq DOMAIN segments BY <1>0 DEF SanTypes
    <2> HIDE DEF m
    <2>6. ASSUME NEW j \in Kind, NEW i \in units'[j]
          PROVE  \E a \in seen' : /\ Made(a, j, segments'[i])
                                  /\ ~setBack' => AheadOf(pc', hb', tsVc', a, segments'[i])
      <3>1. CASE i \in units[j] BY <1>1, <2>1, <2>3, <2>5, <3>1
      <3>2. CASE i \notin units[j]
        <4>1. j = k /\ i = m BY <2>2, <3>2
        <4> QED BY <2>4, <4>1
      <3> QED BY <3>1, <3>2
    <2> QED BY <2>6 DEF TsWitnessInv
  <1> QED BY <1>2, <1>3
-----------------------------------------------------------------------------
(* The reports. *)

\* Creation and join leave accesses of the two kinds unordered.
Unlike(U, u, j, v, k) == <<u, j, v, k>> \in U \/ <<v, k, u, j>> \in U

\* Writers that the unit keeps are unordered, and a reader it keeps comes after a
\* writer if they are not.
PairsInv ==
  ~setBack =>
    /\ \A v, w \in units["W"] :
         segments[v].thd # segments[w].thd =>
           Unlike(unlike, segments[v].thd, "W", segments[w].thd, "W")
    /\ \A r \in units["R"], w \in units["W"] :
         segments[r].thd # segments[w].thd =>
           \/ PartHappensBefore(segments[w], segments[r])
           \/ Unlike(unlike, segments[r].thd, "R", segments[w].thd, "W")

\* A segment that does not come before that of a new access was made by an access
\* that does not either.
LEMMA NewUnordered ==
  ASSUME SanBase, LiveInv, TsWitnessInv, ~setBack, NEW t \in Thread, NEW k \in Kind, TsAccess(t, k),
         NEW j \in Kind, NEW i \in units[j], segments[i].thd # t,
         ~PartHappensBefore(segments[i], segments'[SegmentOf(t)])
  PROVE  <<segments[i].thd, j, t, k>> \in unlike'
  <1> DEFINE s == segments[i]
             n == segments'[SegmentOf(t)]
             u == s.thd
  <1>0. SanTypes /\ LockIInv /\ TypeOK /\ tsVc \in [Thread -> Clock]
    BY DEF SanBase, SanTypes, LockIInv
  <1>1. n.thd = t /\ n.clock = tsVc[t] BY SegmentNow
  <1>2. s \in SegmentRec
    <2>1. segments \in Seq(SegmentRec) /\ i \in DOMAIN segments BY <1>0 DEF SanTypes
    <2> QED BY <2>1
  <1>3. u \in Thread /\ s.clock \in Clock /\ \A v \in Thread : s.clock[v] \in Nat
    BY <1>2 DEF SegmentRec, Clock
  <1>4. PICK a \in seen : Made(a, j, s) /\ AheadOf(pc, hb, tsVc, a, s) BY DEF TsWitnessInv
  <1>5. a.thd = u /\ a.kind = j /\ a.n \in Nat
    BY <1>0, <1>4 DEF Made, LockIInv, AccessTypes, Access
  <1>6. pc[t] = "run" BY DEF TsAccess, LockTouch, Touch
  <1>7. tsVc[t][u] \in Nat /\ tsVc[t][t] \in Nat /\ hb[t][u] \in Nat
    <2>1. tsVc[t] \in Clock /\ hb[t] \in Clock BY <1>0 DEF TypeOK
    <2> QED BY <1>3, <2>1 DEF Clock
  <1>8. s.clock[u] > tsVc[t][u] \/ ~(s.clock[t] < tsVc[t][t])
    <2>1. ~(s.clock[u] <= n.clock[u] /\ s.clock[n.thd] < n.clock[n.thd]) BY DEF PartHappensBefore
    <2> QED BY <1>1, <1>3, <1>7, <2>1
  <1> HIDE DEF s, n
  <1>9. a.n > hb[t][u]
    <2>1. CASE s.clock[u] > tsVc[t][u]
      <3>1. KnownIn(pc, hb, tsVc, u, a.n, u, s.clock[u]) BY <1>4 DEF AheadOf
      <3> HIDE DEF u
      <3> QED BY <1>0, <1>3, <1>5, <1>6, <2>1, <3>1, ConcurrentAccess
    <2>2. CASE ~(s.clock[t] < tsVc[t][t])
      <3>1. t \in Thread \ {u} BY DEF s
      <3>2. ~(a.n <= hb[t][u]) BY <1>4, <1>6, <2>2, <3>1 DEF AheadOf, BehindIn, LivePC
      <3> QED BY <1>5, <1>7, <3>2
    <2> QED BY <1>8, <2>1, <2>2
  <1>10. <<a.thd, a.kind, t, k>> \in Unordered(t, k)
    <2>1. a.thd # t /\ a.n > hb[t][a.thd] BY <1>5, <1>9 DEF s
    <2> QED BY <2>1 DEF Unordered
  <1>11. Unordered(t, k) \subseteq unlike' BY DEF TsAccess
  <1> QED BY <1>5, <1>10, <1>11 DEF s

LEMMA PairsStep ==
  ASSUME SanBase, LiveInv, TsWitnessInv, PairsInv, NEW t \in Thread, LockStep(t),
         (SyncKinds(t) /\ UNCHANGED segmentVars) \/ \E k \in Kind : TsAccess(t, k)
  PROVE  PairsInv'
  <1> SUFFICES ASSUME ~setBack' PROVE PairsInv' BY DEF PairsInv
  <1>0. SanTypes /\ LinkInv /\ LockIInv /\ ~setBack /\ "R" \in Kind /\ "W" \in Kind
    BY TsMove DEF SanBase, Kind
  <1>1. CASE SyncKinds(t) /\ UNCHANGED segmentVars
    BY <1>0, <1>1 DEF PairsInv, segmentVars
  <1>2. ASSUME NEW k \in Kind, TsAccess(t, k) PROVE PairsInv'
    <2> DEFINE m == SegmentOf(t)
               new == segments'[m]
               D == Dropped(t, k)
               After(i, j) == Unlike(unlike', segments'[i].thd, j, t, k)
    <2>1. /\ new.thd = t
          /\ \A s \in DOMAIN segments : segments'[s] = segments[s]
      <3>1. \A s \in DOMAIN segments : SegmentsWith(t)[s] = segments[s] BY <1>0, SegmentOfProp
      <3> QED BY <1>2, <3>1, SegmentNow DEF TsAccess
    <2>2. /\ units'["R"] = (units["R"] \ D["R"]) \cup (IF k = "R" THEN {m} ELSE {})
          /\ units'["W"] = (units["W"] \ D["W"]) \cup (IF k = "W" THEN {m} ELSE {})
          /\ m \in units[k] => units' = units
      BY <1>0, <1>2, UnitsProp
    <2>3. unlike \subseteq unlike' BY <1>2 DEF TsAccess
    <2>4. units["R"] \subseteq DOMAIN segments /\ units["W"] \subseteq DOMAIN segments
      BY <1>0 DEF SanTypes
    <2>5. ASSUME NEW j \in Kind, NEW i \in units[j], ~PartHappensBefore(segments'[i], new),
                 segments'[i].thd # t
          PROVE  After(i, j)
      <3>1. segments'[i] = segments[i] BY <1>0, <2>1, <2>4, <2>5 DEF Kind
      <3> QED BY <1>0, <1>2, <2>5, <3>1, NewUnordered DEF Unlike
    <2>6. ASSUME m \notin units[k], NEW j \in Kind, k = "W" \/ j = "R", NEW i \in units[j] \ D[j]
          PROVE  ~PartHappensBefore(segments'[i], new)
      <3>1. D[j] = {s \in units[j] : PartHappensBefore(segments[s], SegmentsWith(t)[m])}
        BY <1>0, <2>6 DEF Dropped, Kind, SanTypes
      <3>2. ~PartHappensBefore(segments[i], SegmentsWith(t)[m])
        <4> HIDE DEF D, m
        <4> QED BY <2>6, <3>1
      <3>3. segments'[i] = segments[i] /\ segments' = SegmentsWith(t)
        BY <1>2, <2>1, <2>4, <2>6 DEF Kind, TsAccess
      <3> QED BY <3>2, <3>3
    <2> HIDE DEF m, new, D
    <2>7. segments'[m] = new BY DEF new
    <2>8. ASSUME NEW v \in units["W"], NEW w \in units["W"], segments'[v].thd # segments'[w].thd
          PROVE  Unlike(unlike', segments'[v].thd, "W", segments'[w].thd, "W")
      <3>1. segments'[v] = segments[v] /\ segments'[w] = segments[w] BY <2>1, <2>4
      <3>2. Unlike(unlike, segments[v].thd, "W", segments[w].thd, "W")
        BY <1>0, <2>8, <3>1 DEF PairsInv
      <3> QED BY <2>3, <3>1, <3>2 DEF Unlike
    <2>9. ASSUME NEW r \in units["R"], NEW w \in units["W"], segments'[r].thd # segments'[w].thd
          PROVE  \/ PartHappensBefore(segments'[w], segments'[r])
                 \/ Unlike(unlike', segments'[r].thd, "R", segments'[w].thd, "W")
      <3>1. segments'[r] = segments[r] /\ segments'[w] = segments[w] BY <2>1, <2>4
      <3>2. \/ PartHappensBefore(segments[w], segments[r])
            \/ Unlike(unlike, segments[r].thd, "R", segments[w].thd, "W")
        BY <1>0, <2>9, <3>1 DEF PairsInv
      <3> QED BY <2>3, <3>1, <3>2 DEF Unlike
    <2>10. CASE m \in units[k]
      <3>1. units' = units BY <2>2, <2>10
      <3> QED BY <2>8, <2>9, <3>1 DEF PairsInv
    <2>11. CASE m \notin units[k] /\ k = "W"
      <3>1. ASSUME NEW j \in Kind, NEW i \in units'[j], i # m \/ j = "R", segments'[i].thd # t
            PROVE  i \in units[j] /\ After(i, j)
        <4>1. i \in units[j] \ D[j] BY <2>2, <2>11, <3>1 DEF Kind
        <4>2. ~PartHappensBefore(segments'[i], new) BY <2>6, <2>11, <4>1
        <4> QED BY <2>5, <3>1, <4>1, <4>2
      <3>2. ASSUME NEW v \in units'["W"], NEW w \in units'["W"], segments'[v].thd # segments'[w].thd
            PROVE  Unlike(unlike', segments'[v].thd, "W", segments'[w].thd, "W")
        <4>1. CASE v = m /\ w # m
          <5>1. After(w, "W") BY <1>0, <2>1, <2>7, <3>1, <3>2, <4>1
          <5> QED BY <2>1, <2>7, <2>11, <4>1, <5>1 DEF Unlike
        <4>2. CASE w = m /\ v # m
          <5>1. After(v, "W") BY <1>0, <2>1, <2>7, <3>1, <3>2, <4>2
          <5> QED BY <2>1, <2>7, <2>11, <4>2, <5>1 DEF Unlike
        <4>3. CASE v # m /\ w # m
          <5>1. v \in units["W"] /\ w \in units["W"] BY <2>2, <4>3
          <5> QED BY <2>8, <3>2, <5>1
        <4> QED BY <3>2, <4>1, <4>2, <4>3
      <3>3. ASSUME NEW r \in units'["R"], NEW w \in units'["W"], segments'[r].thd # segments'[w].thd
            PROVE  \/ PartHappensBefore(segments'[w], segments'[r])
                   \/ Unlike(unlike', segments'[r].thd, "R", segments'[w].thd, "W")
        <4>1. r \in units["R"] BY <2>2, <2>11
        <4>2. CASE w = m
          <5>1. After(r, "R") BY <1>0, <2>1, <2>7, <3>1, <3>3, <4>2
          <5> QED BY <2>1, <2>7, <2>11, <4>2, <5>1
        <4>3. CASE w # m
          <5>1. w \in units["W"] BY <2>2, <4>3
          <5> QED BY <2>9, <3>3, <4>1, <5>1
        <4> QED BY <4>2, <4>3
      <3> QED BY <3>2, <3>3 DEF PairsInv
    <2>12. CASE m \notin units[k] /\ k = "R"
      <3>1. units'["W"] \subseteq units["W"] BY <2>2, <2>12
      <3>2. ASSUME NEW r \in units'["R"], NEW w \in units'["W"], segments'[r].thd # segments'[w].thd
            PROVE  \/ PartHappensBefore(segments'[w], segments'[r])
                   \/ Unlike(unlike', segments'[r].thd, "R", segments'[w].thd, "W")
        <4>1. w \in units["W"] BY <3>1
        <4>2. CASE r = m
          <5>1. PartHappensBefore(segments'[w], new) \/ After(w, "W")
            BY <1>0, <2>1, <2>5, <2>7, <3>2, <4>1, <4>2
          <5> QED BY <2>1, <2>7, <2>12, <4>2, <5>1 DEF Unlike
        <4>3. CASE r # m
          <5>1. r \in units["R"] BY <2>2, <4>3
          <5> QED BY <2>9, <3>2, <4>1, <5>1
        <4> QED BY <4>2, <4>3
      <3> QED BY <2>8, <3>1, <3>2 DEF PairsInv
    <2> QED BY <2>10, <2>11, <2>12 DEF Kind
  <1> QED BY <1>1, <1>2
\* What an access reports is of pairs that are unordered.
LEMMA ReportsUnlike ==
  ASSUME SanBase, PairsInv', ~setBack', NEW t \in Thread, NEW k \in Kind, TsAccess(t, k),
         NEW races \in TsReports(t, k), NEW p \in races
  PROVE  p \in unlike' \/ <<p[3], p[4], p[1], p[2]>> \in unlike'
  <1> DEFINE segs == SegmentsWith(t)
             sets == UnitsWith(t, k)
  <1>1. segments' = segs /\ units' = sets BY DEF TsAccess
  <1>2. PICK w \in sets["W"] : p \in TsWriteWrite(segs, sets) \/ p \in TsWriteRead(segs, w, sets["R"])
    BY DEF TsReports
  <1> HIDE DEF segs, sets
  <1>3. CASE p \in TsWriteWrite(segs, sets)
    <2>1. PICK q \in sets["W"] \X sets["W"] :
            segs[q[1]].thd # segs[q[2]].thd /\ p = <<segs[q[1]].thd, "W", segs[q[2]].thd, "W">>
      BY <1>3 DEF TsWriteWrite
    <2>2. Unlike(unlike', segs[q[1]].thd, "W", segs[q[2]].thd, "W") BY <1>1, <2>1 DEF PairsInv
    <2> QED BY <2>1, <2>2 DEF Unlike
  <1>4. CASE p \in TsWriteRead(segs, w, sets["R"])
    <2>1. PICK r \in sets["R"] :
            /\ segs[r].thd # segs[w].thd /\ ~PartHappensBefore(segs[w], segs[r])
            /\ p = <<segs[r].thd, "R", segs[w].thd, "W">>
      BY <1>4 DEF TsWriteRead
    <2>2. Unlike(unlike', segs[r].thd, "R", segs[w].thd, "W") BY <1>1, <2>1 DEF PairsInv
    <2> QED BY <2>1, <2>2 DEF Unlike
  <1> QED BY <1>2, <1>3, <1>4

\* A lock that every access holds is in the locksets of all segments that the unit
\* keeps, so no two of them are reported.
LEMMA ReportsQuiet ==
  ASSUME TsWitnessInv', Protected', NEW t \in Thread, NEW k \in Kind, TsAccess(t, k),
         NEW races \in TsReports(t, k)
  PROVE  races = {}
  <1> DEFINE segs == SegmentsWith(t)
             sets == UnitsWith(t, k)
  <1>1. segments' = segs /\ units' = sets BY DEF TsAccess
  <1>2. races = {} \/ \E w \in sets["W"] : races = TsWriteWrite(segs, sets) \cup TsWriteRead(segs, w, sets["R"])
    BY DEF TsReports
  <1> HIDE DEF segs, sets
  <1>3. PICK l \in Lock : \A a \in seen' : l \in a.wr \/ (a.kind = "R" /\ l \in a.rd)
    BY DEF Protected
  <1>4. \A w \in sets["W"] : l \in segs[w].wr
    <2> SUFFICES ASSUME NEW w \in sets["W"] PROVE l \in segs[w].wr OBVIOUS
    <2>1. PICK a \in seen' : Made(a, "W", segs[w]) BY <1>1 DEF TsWitnessInv, Kind
    <2> QED BY <1>3, <2>1 DEF Made
  <1>5. \A r \in sets["R"] : l \in segs[r].rd
    <2> SUFFICES ASSUME NEW r \in sets["R"] PROVE l \in segs[r].rd OBVIOUS
    <2>1. PICK a \in seen' : Made(a, "R", segs[r]) BY <1>1 DEF TsWitnessInv, Kind
    <2> QED BY <1>3, <2>1 DEF Made
  <1>6. TsWriteWrite(segs, sets) = {} BY <1>4 DEF TsWriteWrite
  <1>7. \A w \in sets["W"] : TsWriteRead(segs, w, sets["R"]) = {} BY <1>4, <1>5 DEF TsWriteRead
  <1> QED BY <1>2, <1>6, <1>7

\* The inductive invariant.
SanIInv == SanBase /\ OwnInv /\ LiveInv /\ TsWitnessInv /\ PairsInv /\ TsReportsSound

LEMMA SanIInvInit == SanitizerInit => SanIInv
  <1> SUFFICES ASSUME SanitizerInit PROVE SanIInv OBVIOUS
  <1>1. SanBase BY SanBaseInit
  <1>2. /\ segments = << >> /\ rwEpochs = << >> /\ tsVc = vc /\ found = {}
        /\ (\A t \in Thread : fresh[t]) /\ (\A k \in Kind : units[k] = {})
    BY DEF SanitizerInit
  <1>3. Init BY DEF SanitizerInit, ProgramInit
  <1>4. /\ \A v, t \in Thread : vc[v][t] \in Nat /\ (v # t => vc[v][t] = 0)
        /\ \A t \in Thread : pc[t] = "unborn" => vc[t][t] = 0
    <2>1. \A v, t \in Thread : vc[v][t] = IF v = Main /\ t = Main THEN 1 ELSE 0
      <3>1. Increment(Zero, Main)[Main] = 1 /\ \A t \in Thread \ {Main} : Increment(Zero, Main)[t] = 0
        BY MainAssumption DEF Increment, Zero
      <3> QED BY <1>3, <3>1, ZeroProp DEF Init
    <2>2. pc[Main] = "run" BY <1>3, MainAssumption DEF Init
    <2> QED BY <2>1, <2>2
  <1>5. OwnInv BY <1>2, <1>4 DEF OwnInv, Bound
  <1>6. LiveInv BY <1>2 DEF LiveInv
  <1>7. TsWitnessInv BY <1>2 DEF TsWitnessInv
  <1>8. PairsInv BY <1>2 DEF PairsInv, Kind
  <1>9. TsReportsSound BY <1>2 DEF TsReportsSound
  <1> QED BY <1>1, <1>5, <1>6, <1>7, <1>8, <1>9 DEF SanIInv

LEMMA SanIInvStep ==
  ASSUME SanIInv, [SanitizerNext]_sanVars
  PROVE  SanIInv'
  <1>0. /\ SanBase /\ OwnInv /\ LiveInv /\ TsWitnessInv /\ PairsInv /\ TsReportsSound
        /\ TypeOK /\ TablesInv /\ tsVc \in [Thread -> Clock] /\ rwEpochs \in Seq(Thread \X Nat)
    BY DEF SanIInv, SanBase, LockIInv, SanTypes
  <1>1. SanBase' BY <1>0, SanBaseStep
  <1>2. CASE UNCHANGED sanVars
    <2>1. UNCHANGED <<tsVc, rwEpochs, fresh, setBack, current, segments, units, found, unlike,
                      pc, hb, wls, rls, seen>>
      BY <1>2 DEF sanVars, segmentVars, vars, callVars, programVars, tableVars
    <2>2. OwnInv' /\ LiveInv' BY <1>0, <2>1 DEF OwnInv, Bound, LiveInv
    <2>3. TsWitnessInv' BY <1>0, <2>1 DEF TsWitnessInv
    <2>4. PairsInv' BY <1>0, <2>1 DEF PairsInv
    <2>5. TsReportsSound' BY <1>0, <2>1 DEF TsReportsSound, Protected
    <2> QED BY <1>1, <2>2, <2>3, <2>4, <2>5 DEF SanIInv
  <1>3. ASSUME NEW t \in Thread, LockStep(t),
               (SyncKinds(t) /\ UNCHANGED <<segmentVars, seen>>) \/ \E k \in Kind : TsAccess(t, k)
        PROVE  SanIInv'
    <2>0. (SyncKinds(t) /\ UNCHANGED segmentVars) \/ \E k \in Kind : TsAccess(t, k) BY <1>3
    <2>1. OwnInv' BY <1>0, <1>3, <2>0, OwnStep DEF OwnInv
    <2>2. LiveInv' BY <1>0, <1>3, <2>0, LiveStep
    <2>3. TsWitnessInv' BY <1>0, <1>3, TsWitnessStep
    <2>4. PairsInv' BY <1>0, <1>3, <2>0, PairsStep
    <2>5. ~setBack' => ~setBack BY <1>0, <1>3, <2>0, TsMove
    <2>6. CASE SyncKinds(t) /\ UNCHANGED <<segmentVars, seen>>
      <3>1. found' = found /\ unlike' = unlike /\ seen' = seen BY <2>6 DEF segmentVars
      <3>2. TsReportsSound' BY <1>0, <2>5, <3>1 DEF TsReportsSound, Protected
      <3> QED BY <1>1, <2>1, <2>2, <2>3, <2>4, <3>2 DEF SanIInv
    <2>7. ASSUME NEW k \in Kind, TsAccess(t, k) PROVE SanIInv'
      <3>1. PICK races \in TsReports(t, k) : found' = found \cup races BY <2>7 DEF TsAccess
      <3>2. seen \subseteq seen' /\ unlike \subseteq unlike' BY <2>7 DEF TsAccess, LockTouch
      <3>3. Protected' => found' = {}
        <4>1. Protected' => Protected BY <3>2 DEF Protected
        <4>2. Protected' => races = {} BY <2>3, <2>7, ReportsQuiet
        <4> QED BY <1>0, <3>1, <4>1, <4>2 DEF TsReportsSound
      <3>4. ASSUME ~setBack', NEW r \in found'
            PROVE  r \in unlike' \/ <<r[3], r[4], r[1], r[2]>> \in unlike'
        <4>1. CASE r \in found BY <1>0, <2>5, <3>2, <3>4, <4>1 DEF TsReportsSound
        <4>2. CASE r \in races BY <1>0, <2>4, <2>7, <3>4, <4>2, ReportsUnlike
        <4> QED BY <3>1, <4>1, <4>2
      <3>5. TsReportsSound' BY <3>3, <3>4 DEF TsReportsSound
      <3> QED BY <1>1, <2>1, <2>2, <2>3, <2>4, <3>5 DEF SanIInv
    <2> QED BY <1>3, <2>6, <2>7
  <1> QED BY <1>0, <1>2, <1>3, SanitizerSteps

\* ThreadSanitizer never reports data that one lock protects, whatever the clocks
\* say; and as long as no clock has gone backwards, every pair it reports is of two
\* accesses that creation and join leave unordered.
THEOREM SanitizerSound == SanitizerSpec => []TsReportsSound
  <1>1. SanIInv => TsReportsSound BY DEF SanIInv
  <1>2. SanitizerInit => SanIInv BY SanIInvInit
  <1>3. SanIInv /\ [SanitizerNext]_sanVars => SanIInv' BY SanIInvStep
  <1> QED BY <1>1, <1>2, <1>3, PTL DEF SanitizerSpec

\* The locks of ThreadSanitizer's segments are those that pthread says are held:
\* its tables follow the program.
THEOREM SanitizerTables == SanitizerSpec => []TablesFollowLocks
  <1>1. SanBase => TablesFollowLocks BY TablesFollow DEF SanBase
  <1>2. SanitizerInit => SanBase BY SanBaseInit
  <1>3. SanBase /\ [SanitizerNext]_sanVars => SanBase' BY SanBaseStep
  <1> QED BY <1>1, <1>2, <1>3, PTL DEF SanitizerSpec
=============================================================================
