---------------------------- MODULE DetectorProofs ----------------------------
(***************************************************************************)
(* Proofs about the happens-before core and the detectors that report by   *)
(* its clocks, for any set of threads and mutexes and any bound.  First the *)
(* core: its types, what FastTrack's ref_count counts, that no clock holds *)
(* an epoch its thread has not handed on, and that no edge is lost.  Then  *)
(* Djit, LiteRace, FastTrack and Loft.                                     *)
(***************************************************************************)
EXTENDS Races, TLAPS, FiniteSetTheorems, WellFoundedInduction

-----------------------------------------------------------------------------
(* The inductive invariant. *)

CondPC == {"condEnter", "condWait", "condWoken", "condLocked"}

\* What a thread between two pthread calls relies on: its argument, the lock it
\* has just taken or is giving up, that it is among the waiters.
CallInv ==
  /\ \A t \in Thread :
       /\ pc[t] \in {"locked", "unlocking"} => arg[t] \in Mutex
       /\ pc[t] \in CondPC => arg[t] = CondMutex /\ waitTable[t] # Zero
       /\ pc[t] \in {"locked", "unlocking", "condEnter", "condLocked"} => holder[arg[t]] = t
       /\ pc[t] = "signalling" /\ SignalHolding => holder[CondMutex] = t
       /\ pc[t] = "joined" => arg[t] \in Thread /\ pc[arg[t]] = "reaped"
       /\ pc[t] = "starting" => arg[t] \in Thread /\ pc[arg[t]] \notin {"unborn", "starting"}
       /\ pc[t] = "wrLocked" => writer = t
       /\ pc[t] = "rdLocked" => t \in readers
       /\ pc[t] = "rwUnlocking" => writer = t \/ t \in readers
       /\ pc[t] \in {"unborn", "starting", "exited", "reaped"} =>
            /\ writer # t /\ t \notin readers
            /\ \A m \in Mutex : holder[m] # t
  /\ \A t, u \in Thread : pc[t] = "joined" /\ pc[u] = "joined" /\ arg[t] = arg[u] => t = u
  /\ writer # NoThread => readers = {}
  /\ \A t \in arrived : pc[t] = "barrier"

\* The holders that ref_count counts, the threads that waiter counts.
RwCounted == {t \in Thread : /\ t \in readers \/ writer = t
                           /\ pc[t] \notin {"rdLocked", "wrLocked", "rwUnlocking"}}
InBarrier == {t \in Thread : pc[t] \in BarPC}

CountInv ==
  /\ RwlockCounts => rwRef = Cardinality(RwCounted) /\ (rwRef = 0 => rwWait = Zero)
  /\ waiter = Cardinality(InBarrier)

\* What t's component is in the clocks of others and of all objects, at most.
ClocksBelow(t, n) ==
  /\ \A u \in Thread \ {t} : vc[u][t] <= n
  /\ \A u \in Thread : signalTable[u][t] <= n /\ waitTable[u][t] <= n
  /\ \A m \in Mutex : mutexVc[m][t] <= n
  /\ rwVc[t] <= n /\ rwWait[t] <= n /\ semVc[t] <= n /\ barVc[t] <= n

\* The epoch a thread is in has not been handed on, or only by the barrier it is
\* in; of a thread that has not started nobody has heard.
Alive == PC \ ({"unborn", "starting", "exited", "reaped"} \cup BarPC)

EpochOf(t) ==
  /\ pc[t] \in {"unborn", "starting"} => vc[t][t] = 0 /\ ClocksBelow(t, 0)
  /\ pc[t] \in BarPC => ClocksBelow(t, vc[t][t])
  /\ pc[t] \in Alive => ClocksBelow(t, vc[t][t] - 1)

EpochInv == \A t \in Thread : EpochOf(t)

CallIInv  == TypeOK /\ CallInv /\ CountInv
EpochIInv == CallIInv /\ EpochInv

-----------------------------------------------------------------------------
(* Clocks. *)

\* A set of numbers, not empty, has a least.
LEMMA NatMin ==
  ASSUME NEW S \in SUBSET Nat, S # {}
  PROVE  \E n \in S : \A k \in S : n <= k
  <1>1. PICK n \in S : \A k \in S : ~ (<<k, n>> \in OpToRel(<, Nat))
    BY NatLessThanWellFounded, WFMin, Zenon
  <1>2. \A k \in S : ~ (k < n)
    BY <1>1, Zenon DEF OpToRel
  <1> QED BY <1>2

\* A finite set of numbers, not empty, has a greatest.  (Of the subsets that have
\* none, take a smallest: without any one element it has a greatest.)
LEMMA MaxExists ==
  ASSUME NEW S \in SUBSET Nat, IsFiniteSet(S), S # {}
  PROVE  \E n \in S : \A k \in S : k <= n
  <1> DEFINE HasMax(R) == \E n \in R : \A k \in R : k <= n
             Bad == {R \in SUBSET S : R # {} /\ ~HasMax(R)}
             Sizes == {Cardinality(R) : R \in Bad}
  <1>1. SUFFICES ASSUME Bad # {} PROVE FALSE OBVIOUS
  <1>2. \A R \in SUBSET S : IsFiniteSet(R) /\ Cardinality(R) \in Nat
    BY FS_Subset, FS_CardinalityType
  <1>3. Sizes \in SUBSET Nat /\ Sizes # {}
    <2> HIDE DEF HasMax
    <2> QED BY <1>1, <1>2
  <1>4. PICK n \in Sizes : \A k \in Sizes : n <= k
    <2> HIDE DEF Sizes
    <2> QED BY <1>3, NatMin
  <1>5. PICK R \in Bad : \A Q \in Bad : Cardinality(R) <= Cardinality(Q)
    <2> HIDE DEF Bad
    <2> QED BY <1>4
  <1>6. PICK x \in R : TRUE OBVIOUS
  <1> DEFINE Q == R \ {x}
  <1>7. Q \in SUBSET S OBVIOUS
  <1>8. Cardinality(Q) = Cardinality(R) - 1
    BY <1>2, <1>6, FS_RemoveElement
  <1>9. Q \notin Bad
    <2>1. ~ (Cardinality(R) <= Cardinality(Q)) BY <1>2, <1>8
    <2> HIDE DEF Bad, Q
    <2> QED BY <1>5, <2>1
  <1>10. CASE Q = {}
    <2>1. R = {x} /\ x <= x BY <1>10
    <2> QED BY <2>1
  <1>11. CASE Q # {}
    <2>1. PICK m \in Q : \A k \in Q : k <= m
      <3>1. HasMax(Q)
        <4> HIDE DEF HasMax, Q
        <4> QED BY <1>7, <1>9, <1>11
      <3> QED BY <3>1
    <2>2. m \in Nat /\ x \in Nat OBVIOUS
    <2>3. CASE x <= m
      <3>1. \A k \in R : k <= m BY <2>1, <2>3
      <3> QED BY <3>1
    <2>4. CASE m <= x
      <3>1. \A k \in R : k <= x BY <2>1, <2>2, <2>4
      <3> QED BY <3>1
    <2> QED BY <2>2, <2>3, <2>4
  <1> QED BY <1>10, <1>11

\* Join is the least upper bound, component by component.
LEMMA JoinProp ==
  ASSUME NEW c \in Clock, NEW d \in Clock
  PROVE  /\ Join(c, d) \in Clock
         /\ \A u \in Thread : /\ c[u] <= Join(c, d)[u] /\ d[u] <= Join(c, d)[u]
                              /\ Join(c, d)[u] = c[u] \/ Join(c, d)[u] = d[u]
  BY DEF Clock, Join

\* Increment adds one to one component.
LEMMA IncrementProp ==
  ASSUME NEW c \in Clock, NEW t \in Thread
  PROVE  /\ Increment(c, t) \in Clock
         /\ Increment(c, t)[t] = c[t] + 1
         /\ \A u \in Thread \ {t} : Increment(c, t)[u] = c[u]
  BY DEF Clock, Increment

\* The empty clock has only zeros.
LEMMA ZeroProp == Zero \in Clock /\ \A u \in Thread : Zero[u] = 0
  BY DEF Clock, Zero

\* So is JoinAll.
LEMMA JoinAllProp ==
  ASSUME NEW c \in Clock, NEW d \in [Thread -> Clock], NEW S \in SUBSET Thread
  PROVE  /\ JoinAll(c, d, S) \in Clock
         /\ \A u \in Thread :
              /\ c[u] <= JoinAll(c, d, S)[u]
              /\ \A w \in S : d[w][u] <= JoinAll(c, d, S)[u]
              /\ JoinAll(c, d, S)[u] = c[u] \/ \E w \in S : JoinAll(c, d, S)[u] = d[w][u]
  <1> DEFINE V(u) == {c[u]} \cup {d[w][u] : w \in S}
             J == JoinAll(c, d, S)
  <1>1. ASSUME NEW u \in Thread
        PROVE  J[u] \in V(u) /\ \A k \in V(u) : k <= J[u]
    <2> DEFINE D == {d[w][u] : w \in S}
               f == [w \in S |-> d[w][u]]
    <2>1. IsFiniteSet(S) BY FiniteAssumption, FS_Subset
    <2>2. f \in Surjection(S, D) BY DEF Surjection
    <2>3. IsFiniteSet(D)
      <3> HIDE DEF f, D
      <3> QED BY <2>1, <2>2, FS_Surjection
    <2>4. IsFiniteSet(V(u))
      <3>1. IsFiniteSet(D \cup {c[u]}) BY <2>3, FS_AddElement
      <3>2. D \cup {c[u]} = V(u) OBVIOUS
      <3> QED BY <3>1, <3>2
    <2>5. V(u) \in SUBSET Nat /\ V(u) # {} BY DEF Clock
    <2>6. \E n \in V(u) : \A k \in V(u) : k <= n
      <3> HIDE DEF V
      <3> QED BY <2>4, <2>5, MaxExists
    <2>7. J[u] = CHOOSE n \in V(u) : \A k \in V(u) : k <= n BY DEF JoinAll
    <2> HIDE DEF V, J
    <2> QED BY <2>6, <2>7
  <1>2. ASSUME NEW u \in Thread PROVE V(u) \subseteq Nat BY DEF Clock
  <1>3. J \in Clock
    <2>1. J = [u \in Thread |-> J[u]] BY DEF JoinAll
    <2>2. \A u \in Thread : J[u] \in Nat BY <1>1, <1>2
    <2> HIDE DEF J
    <2> QED BY <2>1, <2>2 DEF Clock
  <1> QED BY <1>1, <1>3
-----------------------------------------------------------------------------
(* The steps: those of Next, and the end of a join for a detector that goes  *)
(* on to drop the child from metas of its own.                              *)

Prune(t) ==
  /\ Move(t, "pruning", "run")
  /\ arg' = [arg EXCEPT ![t] = NoArg]
  /\ UNCHANGED <<left, vc, lockVars, rwVars, condVars, barVars, semVars, epochs, hb>>

Joins(t) == AfterPthreadJoin(t, "run") \/ AfterPthreadJoin(t, "pruning") \/ Prune(t)

Step(t) == Sync(t) \/ Touch(t) \/ Joins(t)

-----------------------------------------------------------------------------
(* Types. *)

\* A holder of the rwlock that releases it, a thread that leaves the barrier,
\* has been counted.
LEMMA CountedPositive ==
  ASSUME CountInv, NEW t \in Thread
  PROVE  /\ RwlockCounts /\ t \in RwCounted => rwRef \in Nat \ {0}
         /\ t \in InBarrier => waiter \in Nat \ {0}
  <1>1. IsFiniteSet(RwCounted) /\ IsFiniteSet(InBarrier)
    BY FiniteAssumption, FS_Subset DEF RwCounted, InBarrier
  <1>2. \A S : IsFiniteSet(S) /\ t \in S => Cardinality(S) \in Nat \ {0}
    BY FS_CardinalityType, FS_EmptySet
  <1> QED BY <1>1, <1>2 DEF CountInv

\* Every step keeps the types; a counter that is decremented was positive.
LEMMA TypeStep ==
  ASSUME TypeOK, CallInv, CountInv, NEW t \in Thread, Step(t)
  PROVE  TypeOK'
  <1> USE DEF TypeOK, Move, Goto, SetVc, SetVcInc, Learn, callVars, lockVars, rwVars, condVars,
              barVars, semVars, BarPC
  <1>a. /\ \A c, d \in Clock : Join(c, d) \in Clock
        /\ \A c \in Clock, u \in Thread : Increment(c, u) \in Clock
        /\ Zero \in Clock
        /\ \A c \in Clock, d \in [Thread -> Clock], S \in SUBSET Thread : JoinAll(c, d, S) \in Clock
    BY JoinProp, IncrementProp, ZeroProp, JoinAllProp
  <1>b. ASSUME NEW kind, Raise(kind) PROVE left' \in 0..MaxOps
    BY <1>b, BoundAssumption DEF Raise
  <1>1. ASSUME NEW c \in Thread, RealCreate(t, c) PROVE TypeOK'
    BY <1>1, <1>a DEF RealCreate, PC
  <1>2. ASSUME NEW c \in Thread, RealJoin(t, c) PROVE TypeOK'
    BY <1>2, <1>a, <1>b DEF RealJoin, PC
  <1>3. CASE ThreadStart(t)
    <2>1. arg[t] \in Thread BY <1>3 DEF ThreadStart, CallInv
    <2> QED BY <1>3, <1>a, <2>1 DEF ThreadStart, PC
  <1>4. CASE ThreadExit(t)
    BY <1>4, <1>b DEF ThreadExit, PC
  <1>5. ASSUME NEW there \in {"run", "pruning"}, AfterPthreadJoin(t, there) PROVE TypeOK'
    <2>1. arg[t] \in Thread BY <1>5 DEF AfterPthreadJoin, CallInv
    <2> QED BY <1>5, <1>a, <2>1 DEF AfterPthreadJoin, PC
  <1>6. CASE Prune(t)
    BY <1>6 DEF Prune, PC
  <1>7. CASE Touch(t)
    <2>1. vc[t][t] \in Nat BY DEF Clock
    <2>2. Append(epochs[t], vc[t][t]) \in Seq(Nat) BY <2>1
    <2>3. hb' = [hb EXCEPT ![t] = Increment(hb[t], t)] BY <1>7 DEF Touch, Increment
    <2>4. hb' \in [Thread -> Clock] BY <1>a, <2>3
    <2> QED BY <1>7, <1>b, <2>2, <2>4 DEF Touch
  <1>8. ASSUME NEW m \in Mutex, RealMutexLock(t, m) PROVE TypeOK'
    BY <1>8, <1>a, <1>b DEF RealMutexLock, PC
  <1>9. ASSUME NEW m \in Mutex, BeforePthreadMutexUnlock(t, m) PROVE TypeOK'
    BY <1>9, <1>a DEF BeforePthreadMutexUnlock, PC
  <1>10. CASE AfterPthreadMutexLock(t)
    <2>1. arg[t] \in Mutex BY <1>10 DEF AfterPthreadMutexLock, CallInv
    <2> QED BY <1>10, <1>a, <2>1 DEF AfterPthreadMutexLock, PC
  <1>11. CASE RealMutexUnlock(t)
    BY <1>11 DEF RealMutexUnlock, PC
  <1>12. CASE RealRwlockRdlock(t)
    BY <1>12, <1>a, <1>b DEF RealRwlockRdlock, PC
  <1>13. CASE RealRwlockWrlock(t)
    BY <1>13, <1>a, <1>b DEF RealRwlockWrlock, PC
  <1>14. CASE AfterPthreadRwlock(t)
    <2>1. pc' \in [Thread -> PC] BY <1>14 DEF AfterPthreadRwlock, PC
    <2>2. vc' \in [Thread -> Clock] BY <1>14, <1>a DEF AfterPthreadRwlock
    <2>3. rwRef' \in Nat BY <1>14 DEF AfterPthreadRwlock
    <2> QED BY <1>14, <2>1, <2>2, <2>3 DEF AfterPthreadRwlock
  <1>15. CASE BeforePthreadRwlockUnlock(t)
    <2>1. RwlockCounts => rwRef \in Nat \ {0}
      BY <1>15, CountedPositive DEF BeforePthreadRwlockUnlock, RwCounted
    <2>2. pc' \in [Thread -> PC] BY <1>15 DEF BeforePthreadRwlockUnlock, PC
    <2>3. rwRef' \in Nat
      BY <1>15, <2>1 DEF BeforePthreadRwlockUnlock, ReleaseCounted, ReleaseOverwritten
    <2>4. rwVc' \in Clock /\ rwWait' \in Clock
      BY <1>15, <1>a DEF BeforePthreadRwlockUnlock, ReleaseCounted, ReleaseOverwritten
    <2>5. vc' \in [Thread -> Clock]
      BY <1>15, <1>a DEF BeforePthreadRwlockUnlock, ReleaseCounted, ReleaseOverwritten
    <2> QED BY <1>15, <1>a, <2>2, <2>3, <2>4, <2>5
        DEF BeforePthreadRwlockUnlock, ReleaseCounted, ReleaseOverwritten
  <1>16. CASE RealRwlockUnlock(t)
    BY <1>16, <1>a DEF RealRwlockUnlock, PC
  <1>17. CASE BeforePthreadCondWait(t)
    <2>1. /\ Increment(vc[t], t) \in Clock
          /\ Increment(Increment(vc[t], t), t) \in Clock
      BY <1>a
    <2>2. vc' \in [Thread -> Clock] BY <1>17, <2>1 DEF BeforePthreadCondWait
    <2>3. pc' \in [Thread -> PC] BY <1>17 DEF BeforePthreadCondWait, PC
    <2> QED BY <1>17, <1>b, <2>1, <2>2, <2>3, CondAssumption DEF BeforePthreadCondWait
  <1>18. CASE RealCondWait(t)
    BY <1>18 DEF RealCondWait, PC
  <1>19. CASE ProcessNotify(t)
    <2>1. JoinAll(vc[t], waitTable, Waiting) \in Clock BY <1>a DEF Waiting
    <2> QED BY <1>19, <1>a, <1>b, <2>1 DEF ProcessNotify, PC
  <1>20. CASE RealCondSignal(t)
    BY <1>20, <1>a DEF RealCondSignal, PC
  <1>21. CASE RealCondTimeout(t)
    BY <1>21 DEF RealCondTimeout, PC
  <1>22. CASE RealCondReturn(t)
    <2>1. arg[t] \in Mutex BY <1>22, CondAssumption DEF RealCondReturn, CallInv, CondPC
    <2> QED BY <1>22, <1>a, <2>1 DEF RealCondReturn, PC
  <1>23. CASE AfterPthreadCondWait(t)
    <2>1. arg[t] \in Mutex BY <1>23, CondAssumption DEF AfterPthreadCondWait, CallInv, CondPC
    <2> QED BY <1>23, <1>a, <2>1 DEF AfterPthreadCondWait, PC
  <1>24. CASE BeforePthreadBarrierWait(t)
    BY <1>24, <1>a, <1>b DEF BeforePthreadBarrierWait, PC
  <1>25. CASE RealBarrierWait(t)
    <2>1. arrived \cup {t} \in SUBSET Thread OBVIOUS
    <2>2. pc' \in [Thread -> PC] BY <1>25 DEF RealBarrierWait, PC
    <2>3. hb' \in [Thread -> Clock]
      <3>1. \A u \in Thread : JoinAll(hb[u], hb, arrived \cup {t}) \in Clock BY <1>a, <2>1
      <3>2. CASE Cardinality(arrived \cup {t}) = BarrierCount
        <4>1. hb' = [u \in Thread |-> IF u \in arrived \cup {t}
                                       THEN JoinAll(hb[u], hb, arrived \cup {t}) ELSE hb[u]]
          BY <1>25, <3>2 DEF RealBarrierWait
        <4> QED BY <3>1, <4>1
      <3>3. CASE Cardinality(arrived \cup {t}) # BarrierCount
        BY <1>25, <3>3 DEF RealBarrierWait
      <3> QED BY <3>2, <3>3
    <2>4. arrived' \in SUBSET Thread BY <1>25 DEF RealBarrierWait
    <2> QED BY <1>25, <2>2, <2>3, <2>4 DEF RealBarrierWait
  <1>26. CASE AfterPthreadBarrierWait(t)
    <2>1. waiter \in Nat \ {0}
      BY <1>26, CountedPositive DEF AfterPthreadBarrierWait, InBarrier
    <2> QED BY <1>26, <1>a, <2>1 DEF AfterPthreadBarrierWait, PC
  <1>27. CASE BeforeSemPost(t)
    BY <1>27, <1>a, <1>b DEF BeforeSemPost, PC
  <1>28. CASE RealSemPost(t)
    BY <1>28, <1>a DEF RealSemPost, PC
  <1>29. CASE RealSemWait(t)
    BY <1>29, <1>a, <1>b DEF RealSemWait, PC
  <1>30. CASE AfterSemWait(t)
    BY <1>30, <1>a DEF AfterSemWait, PC
  <1> QED
    BY <1>1, <1>2, <1>3, <1>4, <1>5, <1>6, <1>7, <1>8, <1>9, <1>10, <1>11, <1>12, <1>13, <1>14, <1>15,
       <1>16, <1>17, <1>18, <1>19, <1>20, <1>21, <1>22, <1>23, <1>24, <1>25, <1>26, <1>27, <1>28,
       <1>29, <1>30 DEF Step, Joins, Sync, Threads, Mutexes, Rwlocks, Conds, Barriers, Sems

-----------------------------------------------------------------------------
(* What a thread between two calls relies on. *)

\* Every step keeps CallInv.
LEMMA CallStep ==
  ASSUME TypeOK, CallInv, NEW t \in Thread, Step(t)
  PROVE  CallInv'
  <1> USE NullAssumption DEF TypeOK, Move, Goto, callVars, lockVars, rwVars, condVars, barVars, semVars
  <1>1. ASSUME NEW c \in Thread, RealCreate(t, c) PROVE CallInv'
    BY <1>1 DEF RealCreate, CallInv, CondPC
  <1>2. ASSUME NEW c \in Thread, RealJoin(t, c) PROVE CallInv'
    BY <1>2 DEF RealJoin, CallInv, CondPC
  <1>3. CASE ThreadStart(t)
    BY <1>3 DEF ThreadStart, CallInv, CondPC
  <1>4. CASE ThreadExit(t)
    BY <1>4 DEF ThreadExit, CallInv, CondPC
  <1>5. ASSUME NEW there \in {"run", "pruning"}, AfterPthreadJoin(t, there) PROVE CallInv'
    BY <1>5 DEF AfterPthreadJoin, CallInv, CondPC
  <1>6. CASE Prune(t)
    BY <1>6 DEF Prune, CallInv, CondPC
  <1>7. CASE Touch(t)
    BY <1>7 DEF Touch, CallInv, CondPC
  <1>8. ASSUME NEW m \in Mutex, RealMutexLock(t, m) PROVE CallInv'
    BY <1>8 DEF RealMutexLock, CallInv, CondPC
  <1>9. ASSUME NEW m \in Mutex, BeforePthreadMutexUnlock(t, m) PROVE CallInv'
    BY <1>9 DEF BeforePthreadMutexUnlock, CallInv, CondPC
  <1>10. CASE AfterPthreadMutexLock(t)
    BY <1>10 DEF AfterPthreadMutexLock, CallInv, CondPC
  <1>11. CASE RealMutexUnlock(t)
    BY <1>11 DEF RealMutexUnlock, CallInv, CondPC
  <1>12. CASE RealRwlockRdlock(t)
    BY <1>12 DEF RealRwlockRdlock, CallInv, CondPC
  <1>13. CASE RealRwlockWrlock(t)
    BY <1>13 DEF RealRwlockWrlock, CallInv, CondPC
  <1>14. CASE AfterPthreadRwlock(t)
    BY <1>14 DEF AfterPthreadRwlock, CallInv, CondPC
  <1>15. CASE BeforePthreadRwlockUnlock(t)
    BY <1>15 DEF BeforePthreadRwlockUnlock, CallInv, CondPC
  <1>16. CASE RealRwlockUnlock(t)
    BY <1>16 DEF RealRwlockUnlock, CallInv, CondPC
  <1>17. CASE BeforePthreadCondWait(t)
    <2>1. Increment(vc[t], t) # Zero
      <3>1. vc[t] \in Clock /\ vc[t][t] \in Nat BY DEF Clock
      <3>2. Increment(vc[t], t)[t] = vc[t][t] + 1 /\ Zero[t] = 0
        BY <3>1, IncrementProp, ZeroProp
      <3> QED BY <3>1, <3>2
    <2> QED BY <1>17, <2>1, CondAssumption DEF BeforePthreadCondWait, CallInv, CondPC
  <1>18. CASE RealCondWait(t)
    BY <1>18 DEF RealCondWait, CallInv, CondPC
  <1>19. CASE ProcessNotify(t)
    BY <1>19 DEF ProcessNotify, MaySignal, CallInv, CondPC
  <1>20. CASE RealCondSignal(t)
    BY <1>20 DEF RealCondSignal, CallInv, CondPC
  <1>21. CASE RealCondTimeout(t)
    BY <1>21 DEF RealCondTimeout, CallInv, CondPC
  <1>22. CASE RealCondReturn(t)
    BY <1>22, CondAssumption DEF RealCondReturn, CallInv, CondPC
  <1>23. CASE AfterPthreadCondWait(t)
    BY <1>23 DEF AfterPthreadCondWait, CallInv, CondPC
  <1>24. CASE BeforePthreadBarrierWait(t)
    BY <1>24 DEF BeforePthreadBarrierWait, CallInv, CondPC
  <1>25. CASE RealBarrierWait(t)
    <2>1. UNCHANGED <<arg, holder, writer, readers, waitTable>> BY <1>25 DEF RealBarrierWait
    <2>2. \A u \in arrived \cup {t} : pc[u] \in {"barrier", "barEnter"}
      BY <1>25 DEF RealBarrierWait, CallInv
    <2>3. \A u \in Thread : pc'[u] = pc[u] \/ (/\ pc[u] \in {"barrier", "barEnter"}
                                              /\ pc'[u] \in {"barrier", "barrierOpen"})
      BY <1>25, <2>2 DEF RealBarrierWait
    <2>4. \A u \in arrived' : pc'[u] = "barrier"
      BY <1>25, <2>2 DEF RealBarrierWait, CallInv
    <2>5. \A u \in Thread : pc'[u] \in {"locked", "unlocking", "signalling", "joined", "starting",
              "wrLocked", "rdLocked", "rwUnlocking", "unborn", "exited", "reaped"} \cup CondPC =>
            pc'[u] = pc[u]
      BY <2>3 DEF CondPC
    <2>6. \A u \in Thread : pc[u] = "reaped" => pc'[u] = "reaped" BY <2>3
    <2>7. \A u \in Thread : pc[u] \notin {"unborn", "starting"} => pc'[u] \notin {"unborn", "starting"}
      BY <2>3
    <2> QED BY <2>1, <2>4, <2>5, <2>6, <2>7 DEF CallInv, CondPC
  <1>26. CASE AfterPthreadBarrierWait(t)
    BY <1>26 DEF AfterPthreadBarrierWait, CallInv, CondPC
  <1>27. CASE BeforeSemPost(t)
    BY <1>27 DEF BeforeSemPost, CallInv, CondPC
  <1>28. CASE RealSemPost(t)
    BY <1>28 DEF RealSemPost, CallInv, CondPC
  <1>29. CASE RealSemWait(t)
    BY <1>29 DEF RealSemWait, CallInv, CondPC
  <1>30. CASE AfterSemWait(t)
    BY <1>30 DEF AfterSemWait, CallInv, CondPC
  <1> QED
    BY <1>1, <1>2, <1>3, <1>4, <1>5, <1>6, <1>7, <1>8, <1>9, <1>10, <1>11, <1>12, <1>13, <1>14, <1>15,
       <1>16, <1>17, <1>18, <1>19, <1>20, <1>21, <1>22, <1>23, <1>24, <1>25, <1>26, <1>27, <1>28,
       <1>29, <1>30 DEF Step, Joins, Sync, Threads, Mutexes, Rwlocks, Conds, Barriers, Sems

-----------------------------------------------------------------------------
(* What ref_count and waiter count. *)

\* A set of threads grows or shrinks by one.
LEMMA OneMore ==
  ASSUME NEW S \in SUBSET Thread, NEW t \in Thread
  PROVE  /\ Cardinality(S) \in Nat
         /\ t \notin S => Cardinality(S \cup {t}) = Cardinality(S) + 1
         /\ t \in S => Cardinality(S \ {t}) = Cardinality(S) - 1
         /\ t \in S /\ Cardinality(S) = 1 => S = {t}
         /\ Cardinality(S) = 0 <=> S = {}
  <1>1. IsFiniteSet(S) BY FiniteAssumption, FS_Subset
  <1>2. Cardinality(S) \in Nat BY <1>1, FS_CardinalityType
  <1>3. t \notin S => Cardinality(S \cup {t}) = Cardinality(S) + 1 BY <1>1, FS_AddElement
  <1>4. t \in S => Cardinality(S \ {t}) = Cardinality(S) - 1 BY <1>1, FS_RemoveElement
  <1>5. \A T : IsFiniteSet(T) => (Cardinality(T) = 0 <=> T = {}) BY FS_EmptySet
  <1>6. t \in S /\ Cardinality(S) = 1 => S \ {t} = {}
    <2>1. IsFiniteSet(S \ {t}) BY <1>1, FS_Subset
    <2> QED BY <1>4, <1>5, <2>1
  <1> QED BY <1>1, <1>2, <1>3, <1>4, <1>5, <1>6

\* Every step keeps the counts.
LEMMA CountStep ==
  ASSUME TypeOK, CallInv, CountInv, NEW t \in Thread, Step(t)
  PROVE  CountInv'
  <1> USE DEF TypeOK, Move, Goto, callVars, lockVars, rwVars, condVars, barVars, semVars
  <1> DEFINE Idle  == {"rdLocked", "wrLocked", "rwUnlocking"}
             Same  == UNCHANGED <<rwRef, rwWait, waiter>>
             SameC == RwCounted' = RwCounted
             SameB == InBarrier' = InBarrier
  <1>a. RwCounted \in SUBSET Thread /\ InBarrier \in SUBSET Thread
    BY DEF RwCounted, InBarrier
  <1>c. ASSUME Same, SameC, SameB PROVE CountInv'
    BY <1>c DEF CountInv
  <1>1. CASE AfterPthreadRwlock(t)
    <2>1. t \notin RwCounted /\ RwCounted' = RwCounted \cup {t}
      BY <1>1 DEF AfterPthreadRwlock, RwCounted, CallInv
    <2>2. SameB /\ UNCHANGED <<waiter, rwWait>>
      BY <1>1 DEF AfterPthreadRwlock, InBarrier, BarPC
    <2>3. RwlockCounts => rwRef' = rwRef + 1 BY <1>1 DEF AfterPthreadRwlock
    <2>4. ASSUME RwlockCounts PROVE rwRef' = Cardinality(RwCounted') /\ rwRef' # 0
      <3>1. rwRef = Cardinality(RwCounted) BY <2>4 DEF CountInv
      <3>2. Cardinality(RwCounted) \in Nat /\ Cardinality(RwCounted \cup {t}) = Cardinality(RwCounted) + 1
        BY <1>a, <2>1, OneMore
      <3> QED BY <2>1, <2>3, <2>4, <3>1, <3>2
    <2> QED BY <2>2, <2>4 DEF CountInv
  <1>2. CASE BeforePthreadRwlockUnlock(t)
    <2>1. t \in RwCounted /\ RwCounted' = RwCounted \ {t}
      BY <1>2 DEF BeforePthreadRwlockUnlock, RwCounted
    <2>2. SameB /\ UNCHANGED waiter
      BY <1>2 DEF BeforePthreadRwlockUnlock, InBarrier, BarPC
    <2>3. RwlockCounts => rwRef' = rwRef - 1 /\ (rwRef' = 0 => rwWait' = Zero)
      BY <1>2 DEF BeforePthreadRwlockUnlock, ReleaseCounted
    <2>4. ASSUME RwlockCounts PROVE rwRef' = Cardinality(RwCounted')
      <3>1. rwRef = Cardinality(RwCounted) BY <2>4 DEF CountInv
      <3>2. Cardinality(RwCounted \ {t}) = Cardinality(RwCounted) - 1
        BY <1>a, <2>1, OneMore
      <3> QED BY <2>1, <2>3, <2>4, <3>1, <3>2
    <2> QED BY <2>2, <2>3, <2>4 DEF CountInv
  <1>3. CASE BeforePthreadBarrierWait(t)
    <2>1. t \notin InBarrier /\ InBarrier' = InBarrier \cup {t}
      BY <1>3 DEF BeforePthreadBarrierWait, InBarrier, BarPC
    <2>2. SameC /\ UNCHANGED <<rwRef, rwWait>>
      BY <1>3 DEF BeforePthreadBarrierWait, RwCounted
    <2>3. waiter' = waiter + 1 BY <1>3 DEF BeforePthreadBarrierWait
    <2>4. waiter' = Cardinality(InBarrier') BY <1>a, <2>1, <2>3, OneMore DEF CountInv
    <2> QED BY <2>2, <2>4 DEF CountInv
  <1>4. CASE AfterPthreadBarrierWait(t)
    <2>1. t \in InBarrier /\ InBarrier' = InBarrier \ {t}
      BY <1>4 DEF AfterPthreadBarrierWait, InBarrier, BarPC
    <2>2. SameC /\ UNCHANGED <<rwRef, rwWait>>
      BY <1>4 DEF AfterPthreadBarrierWait, RwCounted
    <2>3. waiter' = waiter - 1 BY <1>4 DEF AfterPthreadBarrierWait
    <2>4. waiter' = Cardinality(InBarrier') BY <1>a, <2>1, <2>3, OneMore DEF CountInv
    <2> QED BY <2>2, <2>4 DEF CountInv
  <1>5. CASE RealRwlockRdlock(t)
    <2>1. Same /\ SameC /\ SameB
      BY <1>5, NullAssumption DEF RealRwlockRdlock, RwCounted, InBarrier, BarPC
    <2> QED BY <1>c, <2>1
  <1>6. CASE RealRwlockWrlock(t)
    <2>1. Same /\ SameC /\ SameB
      BY <1>6, NullAssumption DEF RealRwlockWrlock, RwCounted, InBarrier, BarPC
    <2> QED BY <1>c, <2>1
  <1>7. CASE RealRwlockUnlock(t)
    <2>1. Same /\ SameC /\ SameB
      BY <1>7, NullAssumption DEF RealRwlockUnlock, RwCounted, InBarrier, BarPC, CallInv
    <2> QED BY <1>c, <2>1
  <1>8. CASE RealBarrierWait(t)
    <2>1. \A u \in arrived \cup {t} : pc[u] \in {"barrier", "barEnter"}
      BY <1>8 DEF RealBarrierWait, CallInv
    <2>2. Same /\ UNCHANGED <<readers, writer>>
      BY <1>8 DEF RealBarrierWait
    <2>3. \A u \in Thread : pc'[u] = pc[u] \/ (pc[u] \in BarPC /\ pc'[u] \in BarPC)
      BY <1>8, <2>1 DEF RealBarrierWait, BarPC
    <2>4. SameC /\ SameB BY <2>2, <2>3 DEF RwCounted, InBarrier, BarPC
    <2> QED BY <1>c, <2>2, <2>4
  <1>9. CASE RealCondSignal(t)
    <2>1. Same /\ UNCHANGED <<readers, writer>> BY <1>9 DEF RealCondSignal
    <2>2. \A u \in Thread : pc'[u] = pc[u] \/ (pc[u] = "signalling" /\ pc'[u] = "run")
                                          \/ (pc[u] = "condWait" /\ pc'[u] = "condWoken")
      BY <1>9 DEF RealCondSignal
    <2>3. SameC /\ SameB BY <2>1, <2>2 DEF RwCounted, InBarrier, BarPC
    <2> QED BY <1>c, <2>1, <2>3
  <1>10. CASE Joins(t) \/ Touch(t) \/ Threads(t) \/ Mutexes(t) \/ Sems(t)
    <2>1. Same /\ UNCHANGED <<readers, writer>>
      BY <1>10 DEF Joins, AfterPthreadJoin, Prune, Touch, Threads, RealCreate, RealJoin, ThreadStart,
         ThreadExit, Mutexes, RealMutexLock, BeforePthreadMutexUnlock, AfterPthreadMutexLock,
         RealMutexUnlock, Sems, BeforeSemPost, RealSemPost, RealSemWait, AfterSemWait
    <2>2. \A u \in Thread : pc'[u] = pc[u] \/ {pc[u], pc'[u]} \cap (Idle \cup BarPC) = {}
      BY <1>10 DEF Joins, AfterPthreadJoin, Prune, Touch, Threads, RealCreate, RealJoin, ThreadStart,
         ThreadExit, Mutexes, RealMutexLock, BeforePthreadMutexUnlock, AfterPthreadMutexLock,
         RealMutexUnlock, Sems, BeforeSemPost, RealSemPost, RealSemWait, AfterSemWait, BarPC
    <2>3. SameC /\ SameB BY <2>1, <2>2 DEF RwCounted, InBarrier
    <2> QED BY <1>c, <2>1, <2>3
  <1>11. CASE \/ BeforePthreadCondWait(t) \/ RealCondWait(t) \/ ProcessNotify(t)
              \/ RealCondTimeout(t) \/ RealCondReturn(t) \/ AfterPthreadCondWait(t)
    <2>1. Same /\ UNCHANGED <<readers, writer>>
      BY <1>11 DEF BeforePthreadCondWait, RealCondWait, ProcessNotify, RealCondTimeout,
         RealCondReturn, AfterPthreadCondWait
    <2>2. \A u \in Thread : pc'[u] = pc[u] \/ {pc[u], pc'[u]} \cap (Idle \cup BarPC) = {}
      BY <1>11 DEF BeforePthreadCondWait, RealCondWait, ProcessNotify, RealCondTimeout,
         RealCondReturn, AfterPthreadCondWait, BarPC
    <2>3. SameC /\ SameB BY <2>1, <2>2 DEF RwCounted, InBarrier
    <2> QED BY <1>c, <2>1, <2>3
  <1> QED
    BY <1>1, <1>2, <1>3, <1>4, <1>5, <1>6, <1>7, <1>8, <1>9, <1>10, <1>11
    DEF Step, Sync, Rwlocks, Conds, Barriers, CountInv

-----------------------------------------------------------------------------
\* What there is at the start.
LEMMA CallInit == Init => CallIInv
  <1> SUFFICES ASSUME Init PROVE CallIInv OBVIOUS
  <1> USE MainAssumption, NullAssumption DEF Init
  <1>1. Zero \in Clock /\ \A t \in Thread : Increment(Zero, t) \in Clock
    BY ZeroProp, IncrementProp
  <1>2. TypeOK BY <1>1, BoundAssumption DEF TypeOK, PC
  <1>3. CallInv BY DEF CallInv, CondPC
  <1>4. RwCounted = {} /\ InBarrier = {} BY DEF RwCounted, InBarrier, BarPC
  <1>5. CountInv BY <1>4, FS_EmptySet DEF CountInv
  <1> QED BY <1>2, <1>3, <1>5 DEF CallIInv

\* Next takes the steps of Step.
LEMMA NextIsStep == Next => \E t \in Thread : Step(t)
  BY DEF Next, Step, Joins

\* The first three parts are inductive.
LEMMA CallNext == CallIInv /\ [Next]_vars => CallIInv'
  <1> SUFFICES ASSUME CallIInv, [Next]_vars PROVE CallIInv' OBVIOUS
  <1>1. CASE Next
    BY <1>1, NextIsStep, TypeStep, CallStep, CountStep DEF CallIInv
  <1>2. CASE UNCHANGED vars
    BY <1>2 DEF CallIInv, TypeOK, CallInv, CountInv, RwCounted, InBarrier, vars, callVars, lockVars,
       rwVars, condVars, barVars, semVars
  <1> QED BY <1>1, <1>2

\* Every reachable state has the types, with ref_count and waiter never below
\* zero: each decrement is of a thread that was counted.
THEOREM TypeCorrect == Spec => []TypeOK
  <1>1. CallIInv => TypeOK BY DEF CallIInv
  <1> QED BY <1>1, CallInit, CallNext, PTL DEF Spec

\* FastTrack's ref_count is the number of holders between their two callbacks,
\* and a writer that has just got the lock finds it zero and wait_vc empty: the
\* assertion in AfterPthreadRwlockWrlock cannot fail.
THEOREM RwlockRefCorrect == Spec => []RwlockRefInv
  <1>1. CallIInv => RwlockRefInv
    <2> SUFFICES ASSUME CallIInv, RwlockCounts PROVE RwlockRefInv
      BY DEF RwlockRefInv
    <2>1. rwRef = Cardinality(RwCounted) /\ (rwRef = 0 => rwWait = Zero)
      BY DEF CallIInv, CountInv
    <2>2. ASSUME NEW t \in Thread, pc[t] = "wrLocked" PROVE rwRef = 0
      <3>1. writer = t /\ readers = {}
        BY <2>2, NullAssumption DEF CallIInv, CallInv
      <3>2. RwCounted = {} BY <2>2, <3>1 DEF RwCounted
      <3> QED BY <2>1, <3>2, FS_EmptySet
    <2> QED BY <2>1, <2>2 DEF RwlockRefInv, RwCounted
  <1> QED BY <1>1, CallInit, CallNext, PTL DEF Spec

-----------------------------------------------------------------------------
(* Epochs. *)

\* The clocks the callbacks work on, and the steps that leave them alone.
clocks == <<vc, mutexVc, rwVc, rwWait, condVars, barVc, semVc>>

Silent(t) ==
  \/ \E c \in Thread : RealCreate(t, c) \/ RealJoin(t, c)
  \/ \E m \in Mutex : RealMutexLock(t, m)
  \/ ThreadExit(t) \/ Touch(t) \/ Prune(t) \/ RealMutexUnlock(t)
  \/ RealRwlockRdlock(t) \/ RealRwlockWrlock(t) \/ RealRwlockUnlock(t)
  \/ RealCondWait(t) \/ RealCondSignal(t) \/ RealCondTimeout(t) \/ RealCondReturn(t)
  \/ RealBarrierWait(t) \/ RealSemPost(t) \/ RealSemWait(t)

\* The pthread calls touch no clock of the tool.
LEMMA SilentClocks ==
  ASSUME NEW t \in Thread, Silent(t)
  PROVE  UNCHANGED clocks
  <1> USE DEF clocks, callVars, lockVars, rwVars, condVars, barVars, semVars
  <1>1. CASE \E c \in Thread : RealCreate(t, c) \/ RealJoin(t, c)
    BY <1>1 DEF RealCreate, RealJoin
  <1>2. CASE \/ \E m \in Mutex : RealMutexLock(t, m)
             \/ ThreadExit(t) \/ Touch(t) \/ Prune(t) \/ RealMutexUnlock(t)
    BY <1>2 DEF RealMutexLock, ThreadExit, Touch, Prune, RealMutexUnlock
  <1>3. CASE \/ RealRwlockRdlock(t) \/ RealRwlockWrlock(t) \/ RealRwlockUnlock(t)
             \/ RealSemPost(t) \/ RealSemWait(t)
    BY <1>3 DEF RealRwlockRdlock, RealRwlockWrlock, RealRwlockUnlock, RealSemPost, RealSemWait
  <1>4. CASE \/ RealCondWait(t) \/ RealCondSignal(t) \/ RealCondTimeout(t) \/ RealCondReturn(t)
             \/ RealBarrierWait(t)
    BY <1>4 DEF RealCondWait, RealCondSignal, RealCondTimeout, RealCondReturn, RealBarrierWait
  <1> QED BY <1>1, <1>2, <1>3, <1>4 DEF Silent

\* The other steps.
LEMMA StepCases ==
  ASSUME NEW t \in Thread, Step(t)
  PROVE  \/ Silent(t)
         \/ ThreadStart(t)
         \/ \E there \in {"run", "pruning"} : AfterPthreadJoin(t, there)
         \/ \E m \in Mutex : BeforePthreadMutexUnlock(t, m)
         \/ AfterPthreadMutexLock(t)
         \/ AfterPthreadRwlock(t) \/ BeforePthreadRwlockUnlock(t)
         \/ BeforePthreadCondWait(t) \/ ProcessNotify(t) \/ AfterPthreadCondWait(t)
         \/ BeforePthreadBarrierWait(t) \/ AfterPthreadBarrierWait(t)
         \/ BeforeSemPost(t) \/ AfterSemWait(t)
  <1>1. CASE Joins(t) BY <1>1 DEF Joins, Silent
  <1>2. CASE Touch(t) BY <1>2 DEF Silent
  <1>3. CASE Threads(t) \/ Mutexes(t) BY <1>3 DEF Threads, Mutexes, Silent
  <1>4. CASE Rwlocks(t) \/ Conds(t) BY <1>4 DEF Rwlocks, Conds, Silent
  <1>5. CASE Barriers(t) \/ Sems(t) BY <1>5 DEF Barriers, Sems, Silent
  <1> QED BY <1>1, <1>2, <1>3, <1>4, <1>5 DEF Step, Sync

\* A callback of t hands on what t has heard of u and no more: the bound on u's
\* component stays.  (ThreadStart acts for the parent as well.)
LEMMA OthersBelow ==
  ASSUME TypeOK, CallInv, NEW t \in Thread, Step(t), ~ThreadStart(t),
         NEW u \in Thread \ {t}, pc[u] # "reaped", NEW n \in Nat, ClocksBelow(u, n)
  PROVE  ClocksBelow(u, n)' /\ vc'[u][u] = vc[u][u]
  <1> DEFINE Low(c)  == c \in Clock /\ c[u] <= n
             Objects == /\ \A w \in Thread : signalTable'[w][u] <= n /\ waitTable'[w][u] <= n
                        /\ \A m \in Mutex : mutexVc'[m][u] <= n
                        /\ rwVc'[u] <= n /\ rwWait'[u] <= n /\ semVc'[u] <= n /\ barVc'[u] <= n
             Goal    == ClocksBelow(u, n)' /\ vc'[u][u] = vc[u][u]
  <1>a. /\ \A w \in Thread : Low(signalTable[w]) /\ Low(waitTable[w])
        /\ \A m \in Mutex : Low(mutexVc[m])
        /\ Low(rwVc) /\ Low(rwWait) /\ Low(semVc) /\ Low(barVc)
        /\ \A w \in Thread \ {u} : Low(vc[w])
    BY DEF TypeOK, ClocksBelow
  <1>b. /\ \A c, d : Low(c) /\ Low(d) => Low(Join(c, d))
        /\ \A c : Low(c) => Low(Increment(c, t))
        /\ Low(Zero)
    <2>1. \A c, d : Low(c) /\ Low(d) => Low(Join(c, d)) BY JoinProp
    <2>2. \A c : Low(c) => Low(Increment(c, t)) BY IncrementProp
    <2> QED BY <2>1, <2>2, ZeroProp
  <1>c. UNCHANGED <<mutexVc, rwVc, rwWait, condVars, barVc, semVc>> => Objects
    BY <1>a DEF condVars
  <1>d. ASSUME NEW c, Low(c), vc' = [vc EXCEPT ![t] = c], Objects PROVE Goal
    BY <1>d DEF ClocksBelow, TypeOK
  <1>e. UNCHANGED vc /\ Objects => Goal
    BY DEF ClocksBelow
  <1>f. \A c : Low(c) => c[u] <= n OBVIOUS
  <1>g. vc \in [Thread -> Clock] /\ waitTable \in [Thread -> Clock] /\ mutexVc \in [Mutex -> Clock]
    BY DEF TypeOK
  <1> HIDE DEF Low
  <1> USE DEF SetVc, SetVcInc
  <1>1. CASE Silent(t)
    <2>1. UNCHANGED clocks BY <1>1, SilentClocks
    <2> QED BY <1>c, <1>e, <2>1 DEF clocks, condVars
  <1>2. ASSUME NEW there \in {"run", "pruning"}, AfterPthreadJoin(t, there) PROVE Goal
    <2> DEFINE c == Increment(Join(vc[t], vc[arg[t]]), t)
    <2>1. /\ arg[t] \in Thread \ {t, u}
          /\ vc' = [vc EXCEPT ![t] = c, ![arg[t]] = Zero]
      BY <1>2 DEF AfterPthreadJoin, CallInv, Move
    <2>2. Objects BY <1>2, <1>c DEF AfterPthreadJoin, lockVars, rwVars, barVars, semVars
    <2>3. Low(c) /\ Low(Zero) BY <1>a, <1>b, <2>1
    <2> HIDE DEF c
    <2>4. \A w \in Thread \ {u} : vc'[w][u] <= n BY <1>a, <1>f, <1>g, <2>1, <2>3
    <2>5. vc'[u][u] = vc[u][u] BY <1>g, <2>1
    <2> QED BY <2>2, <2>4, <2>5 DEF ClocksBelow
  <1>3. ASSUME NEW m \in Mutex, BeforePthreadMutexUnlock(t, m) PROVE Goal
    <2>1. Objects
      BY <1>3, <1>a, <1>f, <1>g DEF BeforePthreadMutexUnlock, rwVars, condVars, barVars, semVars
    <2> QED BY <1>3, <1>a, <1>b, <1>d, <2>1 DEF BeforePthreadMutexUnlock
  <1>4. CASE AfterPthreadMutexLock(t)
    <2>1. arg[t] \in Mutex BY <1>4 DEF AfterPthreadMutexLock, CallInv, Move
    <2>2. Objects BY <1>4, <1>c DEF AfterPthreadMutexLock, lockVars, rwVars, barVars, semVars
    <2> QED BY <1>4, <1>a, <1>b, <1>d, <2>1, <2>2 DEF AfterPthreadMutexLock
  <1>5. CASE AfterPthreadRwlock(t)
    <2>1. Objects BY <1>5, <1>c DEF AfterPthreadRwlock, lockVars, barVars, semVars
    <2> QED BY <1>5, <1>a, <1>b, <1>d, <2>1 DEF AfterPthreadRwlock
  <1>6. CASE BeforePthreadRwlockUnlock(t)
    <2>1. Low(rwVc') /\ Low(rwWait')
      BY <1>6, <1>a, <1>b DEF BeforePthreadRwlockUnlock, ReleaseCounted, ReleaseOverwritten
    <2>2. UNCHANGED <<mutexVc, waitTable, signalTable, barVc, semVc>>
      BY <1>6 DEF BeforePthreadRwlockUnlock, lockVars, condVars, barVars, semVars
    <2>3. Objects BY <1>a, <1>f, <2>1, <2>2
    <2> QED BY <1>6, <1>a, <1>b, <1>d, <2>3 DEF BeforePthreadRwlockUnlock
  <1>7. CASE BeforePthreadCondWait(t)
    <2>1. Objects
      BY <1>7, <1>a, <1>b, <1>f, <1>g DEF BeforePthreadCondWait, rwVars, barVars, semVars
    <2> QED BY <1>7, <1>a, <1>b, <1>d, <2>1 DEF BeforePthreadCondWait
  <1>8. CASE ProcessNotify(t)
    <2> DEFINE c == JoinAll(vc[t], waitTable, Waiting)
    <2>1. Low(c)
      <3>1. Waiting \in SUBSET Thread /\ vc[t] \in Clock BY <1>g DEF Waiting
      <3>2. c \in Clock /\ (c[u] = vc[t][u] \/ \E w \in Waiting : c[u] = waitTable[w][u])
        BY <1>g, <3>1, JoinAllProp
      <3> HIDE DEF c
      <3> QED BY <1>a, <1>f, <3>1, <3>2 DEF Low
    <2>2. /\ signalTable' = [w \in Thread |-> IF w \in Waiting THEN c ELSE signalTable[w]]
          /\ vc' = [vc EXCEPT ![t] = Increment(c, t)]
          /\ UNCHANGED <<mutexVc, rwVc, rwWait, waitTable, barVc, semVc>>
      BY <1>8 DEF ProcessNotify, lockVars, rwVars, barVars, semVars
    <2> HIDE DEF c
    <2>3. Objects BY <1>a, <1>f, <2>1, <2>2
    <2> QED BY <1>b, <1>d, <2>1, <2>2, <2>3
  <1>9. CASE AfterPthreadCondWait(t)
    <2>1. arg[t] \in Mutex
      BY <1>9, CondAssumption DEF AfterPthreadCondWait, CallInv, CondPC, Move
    <2>2. Objects
      BY <1>9, <1>a, <1>b, <1>f DEF AfterPthreadCondWait, TypeOK, lockVars, rwVars, barVars, semVars
    <2> QED BY <1>9, <1>a, <1>b, <1>d, <2>1, <2>2 DEF AfterPthreadCondWait
  <1>10. CASE BeforePthreadBarrierWait(t)
    <2>1. Objects
      BY <1>10, <1>a, <1>b, <1>f DEF BeforePthreadBarrierWait, lockVars, rwVars, condVars, semVars
    <2> QED BY <1>10, <1>e, <2>1 DEF BeforePthreadBarrierWait
  <1>11. CASE AfterPthreadBarrierWait(t)
    <2>1. Objects
      BY <1>11, <1>a, <1>b, <1>f DEF AfterPthreadBarrierWait, lockVars, rwVars, condVars, semVars
    <2> QED BY <1>11, <1>a, <1>b, <1>d, <2>1 DEF AfterPthreadBarrierWait
  <1>12. CASE BeforeSemPost(t)
    <2>1. Objects
      BY <1>12, <1>a, <1>b, <1>f DEF BeforeSemPost, lockVars, rwVars, condVars, barVars
    <2> QED BY <1>12, <1>a, <1>b, <1>d, <2>1 DEF BeforeSemPost
  <1>13. CASE AfterSemWait(t)
    <2>1. Objects BY <1>13, <1>c DEF AfterSemWait, lockVars, rwVars, barVars, semVars
    <2> QED BY <1>13, <1>a, <1>b, <1>d, <2>1 DEF AfterSemWait
  <1> QED
    BY <1>1, <1>2, <1>3, <1>4, <1>5, <1>6, <1>7, <1>8, <1>9, <1>10, <1>11, <1>12, <1>13, StepCases

\* A step of t moves another thread only so far.
LEMMA OtherPc ==
  ASSUME TypeOK, CallInv, NEW t \in Thread, Step(t), NEW u \in Thread \ {t}
  PROVE  \/ pc'[u] = pc[u]
         \/ pc[u] = "unborn" /\ pc'[u] = "starting"
         \/ pc[u] = "exited" /\ pc'[u] = "reaped"
         \/ pc[u] \in {"barrier", "barEnter"} /\ pc'[u] = "barrierOpen"
         \/ pc[u] = "condWait" /\ pc'[u] = "condWoken"
  <1> USE DEF TypeOK, Move, Goto
  <1>1. CASE \E c \in Thread : RealCreate(t, c) \/ RealJoin(t, c)
    BY <1>1 DEF RealCreate, RealJoin
  <1>2. CASE RealCondSignal(t) BY <1>2 DEF RealCondSignal
  <1>3. CASE RealBarrierWait(t)
    <2>1. \A w \in arrived : pc[w] = "barrier" BY DEF CallInv
    <2> QED BY <1>3, <2>1 DEF RealBarrierWait
  <1>4. CASE Joins(t) \/ Touch(t) \/ Mutexes(t) \/ Sems(t) \/ Rwlocks(t)
    <2>1. \E there : pc' = [pc EXCEPT ![t] = there] \/ pc' = pc
      BY <1>4 DEF Joins, AfterPthreadJoin, Prune, Touch, Mutexes, RealMutexLock,
         BeforePthreadMutexUnlock, AfterPthreadMutexLock, RealMutexUnlock, Rwlocks, RealRwlockRdlock,
         RealRwlockWrlock, AfterPthreadRwlock, BeforePthreadRwlockUnlock, RealRwlockUnlock, Sems,
         BeforeSemPost, RealSemPost, RealSemWait, AfterSemWait
    <2> QED BY <2>1
  <1>5. CASE \/ ThreadStart(t) \/ ThreadExit(t)
             \/ BeforePthreadCondWait(t) \/ RealCondWait(t) \/ ProcessNotify(t)
             \/ RealCondTimeout(t) \/ RealCondReturn(t) \/ AfterPthreadCondWait(t)
             \/ BeforePthreadBarrierWait(t) \/ AfterPthreadBarrierWait(t)
    <2>1. \E there : pc' = [pc EXCEPT ![t] = there] \/ pc' = pc
      BY <1>5 DEF ThreadStart, ThreadExit, BeforePthreadCondWait, RealCondWait, ProcessNotify,
         RealCondTimeout, RealCondReturn, AfterPthreadCondWait, BeforePthreadBarrierWait,
         AfterPthreadBarrierWait
    <2> QED BY <2>1
  <1> QED BY <1>1, <1>2, <1>3, <1>4, <1>5 DEF Step, Sync, Threads, Conds, Barriers

\* Where t itself goes in a silent step.
LEMMA SilentPc ==
  ASSUME TypeOK, CallInv, NEW t \in Thread, Silent(t)
  PROVE  /\ pc[t] \in Alive \cup BarPC
         /\ pc[t] \in Alive => pc'[t] \in Alive \cup {"exited"}
         /\ pc[t] \in BarPC => pc'[t] \in BarPC
  <1> USE DEF TypeOK, Move, Goto, Alive, PC, BarPC
  <1>1. CASE \E c \in Thread : RealCreate(t, c) \/ RealJoin(t, c)
    BY <1>1 DEF RealCreate, RealJoin
  <1>2. CASE RealCondSignal(t) BY <1>2 DEF RealCondSignal
  <1>3. CASE RealBarrierWait(t) BY <1>3 DEF RealBarrierWait
  <1>4. CASE \/ \E m \in Mutex : RealMutexLock(t, m)
             \/ ThreadExit(t) \/ Touch(t) \/ Prune(t) \/ RealMutexUnlock(t)
    BY <1>4 DEF RealMutexLock, ThreadExit, Touch, Prune, RealMutexUnlock
  <1>5. CASE \/ RealRwlockRdlock(t) \/ RealRwlockWrlock(t) \/ RealRwlockUnlock(t)
             \/ RealSemPost(t) \/ RealSemWait(t)
             \/ RealCondWait(t) \/ RealCondTimeout(t) \/ RealCondReturn(t)
    BY <1>5 DEF RealRwlockRdlock, RealRwlockWrlock, RealRwlockUnlock, RealSemPost, RealSemWait,
       RealCondWait, RealCondTimeout, RealCondReturn
  <1> QED BY <1>1, <1>2, <1>3, <1>4, <1>5 DEF Silent

\* A callback that hands on t's epoch ends it; in the barrier's first callback
\* alone the epoch goes on, to end in the second.
LEMMA OwnEpoch ==
  ASSUME TypeOK, CallInv, EpochInv, NEW t \in Thread, Step(t), ~ThreadStart(t)
  PROVE  EpochOf(t)'
  <1>k. PICK k \in Nat : k = vc[t][t] BY DEF TypeOK, Clock
  <1> DEFINE Upto(c)    == c \in Clock /\ c[t] <= k
             Below(c)   == c \in Clock /\ c[t] <= k - 1
             Own(c)     == c \in Clock /\ c[t] = k
             Objects(n) == /\ \A w \in Thread : signalTable'[w][t] <= n /\ waitTable'[w][t] <= n
                           /\ \A m \in Mutex : mutexVc'[m][t] <= n
                           /\ rwVc'[t] <= n /\ rwWait'[t] <= n /\ semVc'[t] <= n /\ barVc'[t] <= n
  <1>a. /\ vc \in [Thread -> Clock] /\ pc \in [Thread -> PC]
        /\ waitTable \in [Thread -> Clock] /\ mutexVc \in [Mutex -> Clock]
    BY DEF TypeOK
  <1>1. CASE Silent(t)
    <2>1. UNCHANGED clocks BY <1>1, SilentClocks
    <2>2. /\ ClocksBelow(t, k)' <=> ClocksBelow(t, k)
          /\ ClocksBelow(t, k - 1)' <=> ClocksBelow(t, k - 1)
      BY <2>1 DEF ClocksBelow, clocks, condVars
    <2>3. vc'[t][t] = k BY <1>k, <2>1 DEF clocks
    <2>4. /\ pc'[t] \in BarPC => pc[t] \in BarPC
          /\ pc'[t] \in Alive => pc[t] \in Alive
          /\ pc'[t] \notin {"unborn", "starting"}
      BY <1>1, SilentPc DEF Alive, BarPC
    <2> QED BY <1>k, <2>2, <2>3, <2>4 DEF EpochInv, EpochOf
  <1>b. ASSUME pc[t] \in Alive
        PROVE  /\ \A w \in Thread : Below(signalTable[w]) /\ Below(waitTable[w])
               /\ \A m \in Mutex : Below(mutexVc[m])
               /\ Below(rwVc) /\ Below(rwWait) /\ Below(semVc) /\ Below(barVc)
               /\ \A w \in Thread \ {t} : Below(vc[w])
               /\ Own(vc[t])
    BY <1>k, <1>b DEF TypeOK, EpochInv, EpochOf, ClocksBelow
  <1>c. /\ \A c : Below(c) \/ Own(c) => Upto(c)
        /\ \A c : Upto(c) => c[t] <= k
        /\ \A c, d : Upto(c) /\ Upto(d) => Upto(Join(c, d))
        /\ \A c, d : Own(c) /\ Upto(d) => Own(Join(c, d))
        /\ \A c, d : Upto(c) /\ Own(d) => Own(Join(c, d))
        /\ \A c : Own(c) => Increment(c, t) \in Clock /\ Increment(c, t)[t] = k + 1
        /\ Upto(Zero)
    <2>1. \A c, d \in Clock : /\ Join(c, d) \in Clock
                              /\ c[t] <= Join(c, d)[t] /\ d[t] <= Join(c, d)[t]
                              /\ Join(c, d)[t] = c[t] \/ Join(c, d)[t] = d[t]
                              /\ Join(c, d)[t] \in Nat
      BY JoinProp DEF Clock
    <2>2. \A c, d : Own(c) /\ Upto(d) => Own(Join(c, d)) BY <2>1 DEF Clock
    <2>3. \A c, d : Upto(c) /\ Own(d) => Own(Join(c, d)) BY <2>1 DEF Clock
    <2>4. \A c : Own(c) => Increment(c, t) \in Clock /\ Increment(c, t)[t] = k + 1
      BY IncrementProp
    <2>5. \A c : Below(c) \/ Own(c) => Upto(c) BY DEF Clock
    <2>6. \A c, d : Upto(c) /\ Upto(d) => Upto(Join(c, d)) BY <2>1
    <2>7. Upto(Zero) BY ZeroProp
    <2>8. \A c : Upto(c) => c[t] <= k OBVIOUS
    <2> HIDE DEF Own, Upto, Below
    <2> QED BY <2>2, <2>3, <2>4, <2>5, <2>6, <2>7, <2>8
  <1>d. UNCHANGED <<mutexVc, rwVc, rwWait, condVars, barVc, semVc>> /\ pc[t] \in Alive =>
          Objects(k - 1) /\ Objects(k)
    <2>1. \A c : Below(c) => c[t] <= k - 1 /\ c[t] <= k BY DEF Clock
    <2> HIDE DEF Below
    <2> QED BY <1>b, <2>1 DEF condVars
  <1>e. ASSUME pc[t] \in Alive, pc'[t] \in Alive, NEW c, vc' = [vc EXCEPT ![t] = c],
               NEW n \in {k - 1, k}, Objects(n), c[t] = n + 1
        PROVE  EpochOf(t)'
    <2>1. vc'[t][t] = n + 1 /\ \A w \in Thread \ {t} : vc'[w] = vc[w] BY <1>a, <1>e
    <2>2. \A w \in Thread \ {t} : vc'[w][t] <= n BY <1>b, <1>e, <2>1 DEF Clock
    <2>3. ClocksBelow(t, n)' BY <1>e, <2>2 DEF ClocksBelow
    <2> QED BY <1>e, <2>1, <2>3 DEF EpochOf, Alive
  <1> HIDE DEF Upto, Below, Own
  <1>2. ASSUME NEW there \in {"run", "pruning"}, AfterPthreadJoin(t, there) PROVE EpochOf(t)'
    <2> DEFINE c == Increment(Join(vc[t], vc[arg[t]]), t)
    <2>1. /\ arg[t] \in Thread \ {t} /\ pc[t] = "joined" /\ pc' = [pc EXCEPT ![t] = there]
          /\ vc' = [vc EXCEPT ![t] = c, ![arg[t]] = Zero]
      BY <1>2 DEF AfterPthreadJoin, CallInv, Move, Goto
    <2>2. pc[t] \in Alive /\ pc'[t] \in Alive BY <1>a, <2>1 DEF Alive, PC, BarPC
    <2>3. Objects(k) BY <1>2, <1>d, <2>2 DEF AfterPthreadJoin, lockVars, rwVars, barVars, semVars
    <2>4. c[t] = k + 1 /\ Zero[t] <= k BY <1>b, <1>c, <2>1, <2>2
    <2> HIDE DEF c
    <2>5. vc'[t][t] = k + 1 BY <1>a, <2>1, <2>4
    <2>6. \A w \in Thread \ {t} : vc'[w][t] <= k
      <3>1. \A w \in Thread \ {t} : vc[w][t] <= k BY <1>b, <1>c, <2>2
      <3> QED BY <1>a, <2>1, <2>4, <3>1
    <2>7. ClocksBelow(t, k)' BY <2>3, <2>6 DEF ClocksBelow
    <2> QED BY <2>2, <2>5, <2>7 DEF EpochOf, Alive
  <1>f. /\ \/ \E m \in Mutex : BeforePthreadMutexUnlock(t, m)
           \/ AfterPthreadMutexLock(t)
           \/ AfterPthreadRwlock(t) \/ BeforePthreadRwlockUnlock(t)
           \/ BeforePthreadCondWait(t) \/ ProcessNotify(t) \/ AfterPthreadCondWait(t)
           \/ BeforeSemPost(t) \/ AfterSemWait(t)
        => pc[t] \in Alive /\ pc'[t] \in Alive
    <2> USE <1>a DEF Move, Goto, Alive, PC, BarPC
    <2>1. \/ \E m \in Mutex : BeforePthreadMutexUnlock(t, m)
          \/ AfterPthreadMutexLock(t) \/ AfterPthreadRwlock(t) \/ BeforePthreadRwlockUnlock(t)
          => pc[t] \in Alive /\ pc'[t] \in Alive
      BY DEF BeforePthreadMutexUnlock, AfterPthreadMutexLock, AfterPthreadRwlock,
         BeforePthreadRwlockUnlock
    <2>2. \/ BeforePthreadCondWait(t) \/ ProcessNotify(t) \/ AfterPthreadCondWait(t)
          \/ BeforeSemPost(t) \/ AfterSemWait(t)
          => pc[t] \in Alive /\ pc'[t] \in Alive
      BY DEF BeforePthreadCondWait, ProcessNotify, AfterPthreadCondWait, BeforeSemPost, AfterSemWait
    <2> QED BY <2>1, <2>2
  <1> USE DEF SetVc, SetVcInc
  <1>3. ASSUME NEW m \in Mutex, BeforePthreadMutexUnlock(t, m) PROVE EpochOf(t)'
    <2>1. Objects(k)
      BY <1>3, <1>a, <1>b, <1>c, <1>f DEF BeforePthreadMutexUnlock, rwVars, condVars, barVars, semVars
    <2> QED BY <1>3, <1>b, <1>c, <1>e, <1>f, <2>1 DEF BeforePthreadMutexUnlock
  <1>4. CASE AfterPthreadMutexLock(t)
    <2>1. arg[t] \in Mutex BY <1>4 DEF AfterPthreadMutexLock, CallInv, Move
    <2>2. Objects(k - 1) BY <1>4, <1>d, <1>f DEF AfterPthreadMutexLock, lockVars, rwVars, barVars, semVars
    <2>3. Own(Join(vc[t], mutexVc[arg[t]])) BY <1>4, <1>b, <1>c, <1>f, <2>1
    <2>4. Join(vc[t], mutexVc[arg[t]])[t] = (k - 1) + 1 BY <2>3 DEF Own
    <2> QED BY <1>4, <1>e, <1>f, <2>2, <2>4 DEF AfterPthreadMutexLock
  <1>5. CASE AfterPthreadRwlock(t)
    <2>1. Objects(k - 1) BY <1>5, <1>d, <1>f DEF AfterPthreadRwlock, lockVars, barVars, semVars
    <2>2. Own(Join(vc[t], rwVc)) BY <1>5, <1>b, <1>c, <1>f
    <2>3. Join(vc[t], rwVc)[t] = (k - 1) + 1 BY <2>2 DEF Own
    <2> QED BY <1>5, <1>e, <1>f, <2>1, <2>3 DEF AfterPthreadRwlock
  <1>6. CASE BeforePthreadRwlockUnlock(t)
    <2>1. Upto(rwVc') /\ Upto(rwWait')
      BY <1>6, <1>b, <1>c, <1>f DEF BeforePthreadRwlockUnlock, ReleaseCounted, ReleaseOverwritten
    <2>2. UNCHANGED <<mutexVc, waitTable, signalTable, barVc, semVc>>
      BY <1>6 DEF BeforePthreadRwlockUnlock, lockVars, condVars, barVars, semVars
    <2>3. Objects(k) BY <1>6, <1>b, <1>c, <1>f, <2>1, <2>2
    <2> QED BY <1>6, <1>b, <1>c, <1>e, <1>f, <2>3 DEF BeforePthreadRwlockUnlock
  <1>7. CASE BeforePthreadCondWait(t)
    <2> DEFINE c == Increment(vc[t], t)
    <2>1. /\ c \in Clock /\ c[t] = k + 1
          /\ Increment(c, t)[t] = k + 2
      BY <1>7, <1>b, <1>c, <1>f, IncrementProp
    <2>2. /\ mutexVc' = [mutexVc EXCEPT ![CondMutex] = vc[t]]
          /\ waitTable' = [waitTable EXCEPT ![t] = c]
          /\ vc' = [vc EXCEPT ![t] = Increment(c, t)]
          /\ UNCHANGED <<rwVc, rwWait, signalTable, barVc, semVc>>
      BY <1>7 DEF BeforePthreadCondWait, rwVars, barVars, semVars
    <2>3. \A d : Upto(d) => d[t] <= k + 1 BY DEF Upto, Clock
    <2>4. /\ \A w \in Thread : Upto(signalTable[w]) /\ Upto(waitTable[w])
          /\ \A m \in Mutex : Upto(mutexVc[m])
          /\ Upto(rwVc) /\ Upto(rwWait) /\ Upto(semVc) /\ Upto(barVc)
          /\ \A w \in Thread \ {t} : Upto(vc[w])
          /\ Upto(vc[t])
      BY <1>7, <1>b, <1>c, <1>f
    <2> HIDE DEF c
    <2>5. Objects(k + 1) BY <1>a, <2>1, <2>2, <2>3, <2>4
    <2>6. vc'[t][t] = k + 2 /\ \A w \in Thread \ {t} : vc'[w][t] <= k + 1
      BY <1>a, <2>1, <2>2, <2>3, <2>4
    <2>7. ClocksBelow(t, k + 1)' BY <2>5, <2>6 DEF ClocksBelow
    <2> QED BY <1>7, <1>f, <2>6, <2>7 DEF EpochOf, Alive
  <1>8. CASE ProcessNotify(t)
    <2> DEFINE c == JoinAll(vc[t], waitTable, Waiting)
    <2>1. Own(c)
      <3>1. Waiting \in SUBSET Thread /\ vc[t] \in Clock BY <1>a DEF Waiting
      <3>2. /\ c \in Clock
            /\ vc[t][t] <= c[t]
            /\ c[t] = vc[t][t] \/ \E w \in Waiting : c[t] = waitTable[w][t]
        BY <1>a, <3>1, JoinAllProp
      <3>3. \A w \in Waiting : waitTable[w][t] <= k BY <1>8, <1>b, <1>c, <1>f, <3>1
      <3> HIDE DEF c
      <3>4. c[t] \in Nat BY <3>2 DEF Clock
      <3> QED BY <1>k, <3>2, <3>3, <3>4 DEF Own
    <2>2. /\ signalTable' = [w \in Thread |-> IF w \in Waiting THEN c ELSE signalTable[w]]
          /\ vc' = [vc EXCEPT ![t] = Increment(c, t)]
          /\ UNCHANGED <<mutexVc, rwVc, rwWait, waitTable, barVc, semVc>>
      BY <1>8 DEF ProcessNotify, lockVars, rwVars, barVars, semVars
    <2> HIDE DEF c
    <2>3. Objects(k) BY <1>8, <1>b, <1>c, <1>f, <2>1, <2>2
    <2> QED BY <1>8, <1>c, <1>e, <1>f, <2>1, <2>2, <2>3
  <1>9. CASE AfterPthreadCondWait(t)
    <2> DEFINE c == Join(Join(vc[t], signalTable[t]), mutexVc[arg[t]])
    <2>1. arg[t] \in Mutex
      BY <1>9, CondAssumption DEF AfterPthreadCondWait, CallInv, CondPC, Move
    <2>2. Own(c) BY <1>9, <1>b, <1>c, <1>f, <2>1
    <2>3. /\ waitTable' = [waitTable EXCEPT ![t] = Zero]
          /\ signalTable' = [signalTable EXCEPT ![t] = Zero]
          /\ vc' = [vc EXCEPT ![t] = c]
          /\ UNCHANGED <<mutexVc, rwVc, rwWait, barVc, semVc>>
      BY <1>9 DEF AfterPthreadCondWait, lockVars, rwVars, barVars, semVars
    <2> HIDE DEF c
    <2>4. /\ \A d : Below(d) => d[t] <= k - 1
          /\ 0 <= k - 1
      BY <1>9, <1>b, <1>f DEF Below, Clock
    <2>5. Objects(k - 1)
      <3>1. Zero[t] <= k - 1 BY <2>4, ZeroProp
      <3>2. \A w \in Thread : signalTable'[w][t] <= k - 1 /\ waitTable'[w][t] <= k - 1
        BY <1>9, <1>b, <1>f, <2>3, <2>4, <3>1 DEF TypeOK
      <3> QED BY <1>9, <1>b, <1>f, <2>3, <2>4, <3>2
    <2>6. c[t] = (k - 1) + 1 BY <2>2 DEF Own
    <2> QED BY <1>9, <1>e, <1>f, <2>3, <2>5, <2>6
  <1>10. CASE BeforePthreadBarrierWait(t)
    <2>1. pc[t] \in Alive /\ pc'[t] = "barEnter"
      BY <1>10, <1>a DEF BeforePthreadBarrierWait, Move, Goto, Alive, PC, BarPC
    <2>2. Objects(k)
      BY <1>10, <1>b, <1>c, <2>1 DEF BeforePthreadBarrierWait, lockVars, rwVars, condVars, semVars
    <2>3. \A w \in Thread \ {t} : vc[w][t] <= k BY <1>b, <1>c, <2>1
    <2>4. UNCHANGED vc BY <1>10 DEF BeforePthreadBarrierWait
    <2>5. ClocksBelow(t, k)' BY <2>2, <2>3, <2>4 DEF ClocksBelow
    <2> QED BY <1>k, <2>1, <2>4, <2>5 DEF EpochOf, Alive, BarPC
  <1>11. CASE AfterPthreadBarrierWait(t)
    <2>1. pc[t] \in BarPC /\ pc'[t] = "run"
      BY <1>11, <1>a DEF AfterPthreadBarrierWait, Move, Goto, BarPC
    <2>2. /\ \A w \in Thread : Upto(signalTable[w]) /\ Upto(waitTable[w])
          /\ \A m \in Mutex : Upto(mutexVc[m])
          /\ Upto(rwVc) /\ Upto(rwWait) /\ Upto(semVc) /\ Upto(barVc)
          /\ \A w \in Thread \ {t} : Upto(vc[w])
          /\ Own(vc[t])
      BY <1>k, <2>1 DEF TypeOK, EpochInv, EpochOf, ClocksBelow, Upto, Own
    <2>3. Objects(k)
      BY <1>11, <1>c, <2>2 DEF AfterPthreadBarrierWait, lockVars, rwVars, condVars, semVars
    <2>4. vc'[t][t] = k + 1 /\ \A w \in Thread \ {t} : vc'[w][t] <= k
      BY <1>11, <1>a, <1>c, <2>2 DEF AfterPthreadBarrierWait
    <2>5. ClocksBelow(t, k)' BY <2>3, <2>4 DEF ClocksBelow
    <2> QED BY <2>1, <2>4, <2>5 DEF EpochOf, BarPC, Alive
  <1>12. CASE BeforeSemPost(t)
    <2>1. Objects(k)
      BY <1>12, <1>b, <1>c, <1>f DEF BeforeSemPost, lockVars, rwVars, condVars, barVars
    <2> QED BY <1>12, <1>b, <1>c, <1>e, <1>f, <2>1 DEF BeforeSemPost
  <1>13. CASE AfterSemWait(t)
    <2>1. Objects(k) BY <1>13, <1>d, <1>f DEF AfterSemWait, lockVars, rwVars, barVars, semVars
    <2> QED BY <1>13, <1>b, <1>c, <1>e, <1>f, <2>1 DEF AfterSemWait
  <1> QED
    BY <1>1, <1>2, <1>3, <1>4, <1>5, <1>6, <1>7, <1>8, <1>9, <1>10, <1>11, <1>12, <1>13, StepCases

\* The child's first clock holds its parent's epoch, which the callback ends.
LEMMA StartEpochs ==
  ASSUME TypeOK, CallInv, EpochInv, NEW t \in Thread, ThreadStart(t)
  PROVE  EpochInv'
  <1>0. PICK p \in Thread : p = arg[t] BY DEF ThreadStart, CallInv, Move
  <1> DEFINE c == Join(Increment(Zero, t), vc[p])
             d == Increment(vc[p], p)
  <1>1. /\ pc[t] = "starting" /\ pc' = [pc EXCEPT ![t] = "run"]
        /\ p \in Thread \ {t} /\ pc[p] \notin {"unborn", "starting"}
        /\ vc' = [vc EXCEPT ![t] = c, ![p] = d]
        /\ UNCHANGED <<mutexVc, rwVc, rwWait, waitTable, signalTable, barVc, semVc>>
    BY <1>0 DEF ThreadStart, CallInv, Move, Goto, lockVars, rwVars, condVars, barVars, semVars
  <1>2. vc \in [Thread -> Clock] /\ pc \in [Thread -> PC] BY DEF TypeOK
  <1>3. /\ c \in Clock /\ d \in Clock
        /\ d[p] = vc[p][p] + 1
        /\ \A u \in Thread \ {p} : d[u] = vc[p][u]
        /\ \A u \in Thread \ {t} : c[u] = vc[p][u]
    <2>1. /\ Increment(Zero, t) \in Clock
          /\ \A u \in Thread \ {t} : Increment(Zero, t)[u] = 0
      BY ZeroProp, IncrementProp
    <2>2. vc[p] \in Clock BY <1>1, <1>2
    <2>3. d \in Clock /\ d[p] = vc[p][p] + 1 /\ \A u \in Thread \ {p} : d[u] = vc[p][u]
      BY <1>1, <2>2, IncrementProp
    <2>4. c \in Clock /\ \A u \in Thread \ {t} : c[u] = vc[p][u]
      <3>1. c \in Clock BY <2>1, <2>2, JoinProp
      <3>2. \A u \in Thread \ {t} : c[u] = vc[p][u]
        BY <2>1, <2>2 DEF Join, Clock
      <3> QED BY <3>1, <3>2
    <2> QED BY <2>3, <2>4
  <1>4. c[t] = 1
    <2>1. Increment(Zero, t) \in Clock /\ Increment(Zero, t)[t] = 1
      BY ZeroProp, IncrementProp
    <2>2. vc[p] \in Clock /\ vc[p][t] <= 0
      BY <1>1, <1>2 DEF EpochInv, EpochOf, ClocksBelow
    <2> QED BY <2>1, <2>2 DEF Join, Clock
  <1> HIDE DEF c, d
  <1>5. vc'[t] = c /\ vc'[p] = d /\ \A w \in Thread \ {t, p} : vc'[w] = vc[w]
    BY <1>1, <1>2
  <1>6. ASSUME NEW u \in Thread \ {p}, NEW n \in Int, ClocksBelow(u, n)
        PROVE  ClocksBelow(u, n)'
    <2>1. \A w \in Thread \ {u} : vc'[w][u] <= n
      <3>1. \A w \in Thread \ {u} : vc[w][u] <= n BY <1>6 DEF ClocksBelow
      <3>2. d[u] <= n BY <1>1, <1>3, <3>1
      <3>3. u # t => c[u] <= n BY <1>1, <1>3, <3>1
      <3> QED BY <1>5, <3>1, <3>2, <3>3
    <2> QED BY <1>1, <1>6, <2>1 DEF ClocksBelow
  <1>7. EpochOf(t)'
    <2>1. ClocksBelow(t, 0)' BY <1>1, <1>6 DEF EpochInv, EpochOf
    <2> QED BY <1>1, <1>2, <1>4, <1>5, <2>1 DEF EpochOf, Alive, BarPC
  <1>8. EpochOf(p)'
    <2>1. PICK k \in Nat : k = vc[p][p] BY <1>1, <1>2 DEF Clock
    <2>2. pc'[p] = pc[p] BY <1>1, <1>2
    <2>3. vc'[p][p] = k + 1 BY <1>3, <1>5, <2>1
    <2>4. ASSUME pc[p] \in Alive \cup BarPC, NEW n \in {k, k + 1}
          PROVE  ClocksBelow(p, n)'
      <3>1. PICK m \in {k - 1, k} : ClocksBelow(p, m)
        BY <1>1, <2>1, <2>4 DEF EpochInv, EpochOf
      <3>2. /\ \A w \in Thread \ {p} : vc[w][p] <= n
            /\ \A w \in Thread : signalTable[w][p] <= n /\ waitTable[w][p] <= n
            /\ \A x \in Mutex : mutexVc[x][p] <= n
            /\ rwVc[p] <= n /\ rwWait[p] <= n /\ semVc[p] <= n /\ barVc[p] <= n
        <4>1. \A x \in Clock : x[p] <= m => x[p] <= n BY <2>4, <3>1 DEF Clock
        <4> QED BY <3>1, <4>1 DEF ClocksBelow, TypeOK
      <3>3. \A w \in Thread \ {p} : vc'[w][p] <= n
        <4>1. c[p] <= n BY <1>1, <1>3, <2>1, <2>4
        <4> QED BY <1>5, <3>2, <4>1
      <3> QED BY <1>1, <3>2, <3>3 DEF ClocksBelow
    <2> QED BY <1>1, <2>2, <2>3, <2>4 DEF EpochOf, Alive
  <1>9. ASSUME NEW u \in Thread \ {t, p} PROVE EpochOf(u)'
    <2>1. pc'[u] = pc[u] /\ vc'[u][u] = vc[u][u] BY <1>1, <1>2, <1>5
    <2>2. vc[u][u] \in Nat BY <1>2 DEF Clock
    <2> QED BY <1>6, <2>1, <2>2 DEF EpochInv, EpochOf, Alive
  <1> QED BY <1>1, <1>7, <1>8, <1>9 DEF EpochInv

\* Every step keeps EpochInv.
LEMMA EpochStep ==
  ASSUME TypeOK, CallInv, EpochInv, NEW t \in Thread, Step(t)
  PROVE  EpochInv'
  <1>1. CASE ThreadStart(t) BY <1>1, StartEpochs
  <1>2. CASE ~ThreadStart(t)
    <2>1. EpochOf(t)' BY <1>2, OwnEpoch
    <2>2. ASSUME NEW u \in Thread \ {t} PROVE EpochOf(u)'
      <3>1. vc[u][u] \in Nat BY DEF TypeOK, Clock
      <3>2. CASE pc[u] \in {"exited", "reaped"}
        <4>1. pc'[u] \in {"exited", "reaped"} BY <3>2, OtherPc
        <4> QED BY <4>1 DEF EpochOf, Alive, BarPC
      <3>3. CASE pc[u] \in {"unborn", "starting"}
        <4>1. pc'[u] \in {"unborn", "starting"} BY <3>3, OtherPc
        <4>2. vc[u][u] = 0 /\ ClocksBelow(u, 0) BY <3>3 DEF EpochInv, EpochOf
        <4>3. ClocksBelow(u, 0)' /\ vc'[u][u] = 0 BY <1>2, <3>3, <4>2, OthersBelow
        <4> QED BY <4>1, <4>3 DEF EpochOf, Alive, BarPC
      <3>4. CASE pc[u] \in BarPC
        <4>1. pc'[u] \in BarPC BY <3>4, OtherPc DEF BarPC
        <4>2. ClocksBelow(u, vc[u][u]) BY <3>4 DEF EpochInv, EpochOf
        <4>3. PICK k \in Nat : k = vc[u][u] BY <3>1
        <4>4. ClocksBelow(u, k)' /\ vc'[u][u] = k BY <1>2, <3>4, <4>2, <4>3, OthersBelow DEF BarPC
        <4> QED BY <4>1, <4>4 DEF EpochOf, Alive, BarPC
      <3>5. CASE pc[u] \in Alive
        <4>1. pc'[u] \in Alive BY <3>5, OtherPc DEF Alive, BarPC, PC
        <4>2. ClocksBelow(u, vc[u][u] - 1) BY <3>5 DEF EpochInv, EpochOf
        <4>3. PICK k \in Nat : k = vc[u][u] - 1
          <5>1. rwVc[u] \in Nat BY DEF TypeOK, Clock
          <5>2. rwVc[u] <= vc[u][u] - 1 BY <4>2 DEF ClocksBelow
          <5> QED BY <3>1, <5>1, <5>2
        <4>4. ClocksBelow(u, k)' /\ vc'[u][u] = k + 1
          BY <1>2, <3>1, <3>5, <4>2, <4>3, OthersBelow DEF Alive
        <4> QED BY <4>1, <4>4 DEF EpochOf, Alive, BarPC
      <3> QED BY <3>2, <3>3, <3>4, <3>5 DEF TypeOK, Alive
    <2> QED BY <2>1, <2>2 DEF EpochInv
  <1> QED BY <1>1, <1>2

\* At first the main thread is in epoch 1 and nobody has heard of it.
LEMMA EpochInit == Init => EpochInv
  <1> SUFFICES ASSUME Init PROVE EpochInv OBVIOUS
  <1>1. Zero \in Clock /\ \A u \in Thread : Zero[u] = 0 BY ZeroProp
  <1>2. \A t, u \in Thread : Increment(Zero, t)[u] = IF u = t THEN 1 ELSE 0
    BY <1>1, IncrementProp
  <1> QED BY <1>1, <1>2, MainAssumption DEF Init, EpochInv, EpochOf, ClocksBelow, Alive, BarPC

\* With the epochs they are inductive as well.
LEMMA EpochNext == EpochIInv /\ [Next]_vars => EpochIInv'
  <1> SUFFICES ASSUME EpochIInv, [Next]_vars PROVE EpochIInv' OBVIOUS
  <1>1. CallIInv' BY CallNext DEF EpochIInv
  <1>2. CASE Next
    BY <1>1, <1>2, NextIsStep, EpochStep DEF EpochIInv, CallIInv
  <1>3. CASE UNCHANGED vars
    BY <1>1, <1>3 DEF EpochIInv, EpochInv, EpochOf, ClocksBelow, vars, callVars, lockVars, rwVars,
       condVars, barVars, semVars
  <1> QED BY <1>2, <1>3

\* No clock holds an epoch before it is handed on by its thread: an access made
\* in it cannot be taken for one that happens before another thread's.
THEOREM EpochsUnpublished == Spec => []EpochUnpublished
  <1>1. EpochIInv => EpochUnpublished
    <2> SUFFICES ASSUME EpochIInv, NEW t \in Thread, pc[t] = "run"
                 PROVE  ClocksBelow(t, vc[t][t] - 1) /\ TypeOK
      <3>1. ASSUME NEW t \in Thread, TypeOK PROVE \A c \in Clock : c[t] <= vc[t][t] - 1 => c[t] < vc[t][t]
        BY <3>1 DEF TypeOK, Clock
      <3> QED BY <3>1 DEF EpochUnpublished, ClocksBelow, TypeOK
    <2> QED BY DEF EpochIInv, CallIInv, EpochInv, EpochOf, Alive, PC, BarPC
  <1>2. Init => EpochIInv BY CallInit, EpochInit DEF EpochIInv
  <1> QED BY <1>1, <1>2, EpochNext, PTL DEF Spec

-----------------------------------------------------------------------------
(***************************************************************************)
(* That no happens-before edge is lost, for any set of threads and mutexes  *)
(* and any bound, with FastTrack's rwlock handlers and a program that      *)
(* signals with the mutex held.  Callbacks change the clocks and leave the *)
(* truth alone, the pthread steps the other way round.  Due(t) is the clock *)
(* that the callback t is heading for will give it: no callback shrinks it, *)
(* and it contains every access that happens before what t does now.       *)
(***************************************************************************)

-----------------------------------------------------------------------------
(* The inductive invariant. *)

\* With the accesses e, what h says happens before is in the clock c.
CoversIn(e, c, h) == \A u \in Thread : \A n \in 1..h[u] : e[u][n] <= c[u]
MadeIn(e, h)      == \A u \in Thread : h[u] <= Len(e[u])

\* Only accesses that were made happen before anything, and a thread's own do.
HbInv ==
  /\ \A t \in Thread : MadeIn(epochs, hb[t]) /\ hb[t][t] = Len(epochs[t])
  /\ \A t \in Thread : pc[t] = "unborn" => hb[t] = Zero
  /\ \A m \in Mutex : MadeIn(epochs, hbMutex[m])
  /\ MadeIn(epochs, hbWriter) /\ MadeIn(epochs, hbReaders) /\ MadeIn(epochs, hbSem)

\* The clock t's next callback will give it.
Due(t) ==
  CASE pc[t] = "starting" -> vc[arg[t]]
    [] pc[t] = "locked" -> Join(vc[t], mutexVc[arg[t]])
    [] pc[t] \in {"rdLocked", "wrLocked"} -> Join(vc[t], rwVc)
    [] pc[t] = "condWoken" -> Join(vc[t], signalTable[t])
    [] pc[t] = "condLocked" -> Join(Join(vc[t], signalTable[t]), mutexVc[arg[t]])
    [] pc[t] \in BarPC -> Join(vc[t], barVc)
    [] pc[t] = "semTaken" -> Join(vc[t], semVc)
    [] pc[t] = "joined" -> Join(vc[t], vc[arg[t]])
    [] OTHER -> vc[t]

\* A parent that has been joined has no clock left to hand on.
Orphan(t) == pc[t] = "starting" /\ pc[arg[t]] = "reaped" /\ vc[arg[t]] = Zero

DueInv ==
  \A t \in Thread : pc[t] # "reaped" /\ ~Orphan(t) => CoversIn(epochs, Due(t), hb[t])

\* What a release hands on is in the clock it leaves behind, from its callback on.
MutexCover ==
  /\ \A m \in Mutex : holder[m] = NoThread => CoversIn(epochs, mutexVc[m], hbMutex[m])
  /\ \A t \in Thread : pc[t] \in {"unlocking", "condEnter"} => CoversIn(epochs, mutexVc[arg[t]], hb[t])

RwCover ==
  /\ CoversIn(epochs, rwVc, hbWriter)
  /\ CoversIn(epochs, Join(rwVc, rwWait), hbReaders)
  /\ \A t \in Thread : pc[t] = "rwUnlocking" =>
       IF writer = t THEN CoversIn(epochs, rwVc, hb[t])
       ELSE CoversIn(epochs, Join(rwVc, rwWait), hb[t])

\* Whoever holds the rwlock, and is counted, knows all that has been published.
RwKnown == \A t \in RwCounted : HappensBefore(rwVc, vc[t])

BarCover == \A t \in InBarrier : CoversIn(epochs, barVc, hb[t])

SemCover ==
  /\ CoversIn(epochs, semVc, hbSem)
  /\ \A t \in Thread : pc[t] = "semPosting" => CoversIn(epochs, semVc, hb[t])

\* With the mutex held, a signal reaches every waiter there is.
CondCover ==
  \A t \in Thread : pc[t] = "signalling" =>
    \A u \in Thread : pc[u] = "condWait" => CoversIn(epochs, signalTable[u], hb[t])

\* The next signaller knows what earlier ones have left for the waiters: it is in
\* the mutex's clock while the mutex is free or changes hands.
Passing(t) ==
  pc[t] \in {"locked", "condLocked", "unlocking", "condEnter"} /\ arg[t] = CondMutex

SignalsKnown ==
  \A u \in Thread :
    /\ holder[CondMutex] = NoThread => HappensBefore(signalTable[u], mutexVc[CondMutex])
    /\ \A t \in Thread : holder[CondMutex] = t =>
         IF Passing(t) THEN HappensBefore(signalTable[u], mutexVc[CondMutex])
         ELSE HappensBefore(signalTable[u], vc[t])

EdgeIInv  == /\ CallIInv /\ HbInv /\ DueInv
             /\ MutexCover /\ RwCover /\ RwKnown /\ BarCover /\ SemCover
             /\ CondCover /\ SignalsKnown


-----------------------------------------------------------------------------
(* Clocks, ordered by HappensBefore. *)

\* HappensBefore is an order on clocks, Zero its least and Join the least upper bound.
LEMMA ClockOrder ==
  /\ \A c \in Clock : HappensBefore(c, c) /\ HappensBefore(Zero, c)
  /\ \A c, d, e \in Clock : HappensBefore(c, d) /\ HappensBefore(d, e) => HappensBefore(c, e)
  /\ \A c, d \in Clock : /\ Join(c, d) \in Clock
                         /\ HappensBefore(c, Join(c, d)) /\ HappensBefore(d, Join(c, d))
  /\ \A c, d, e \in Clock : HappensBefore(c, e) /\ HappensBefore(d, e) => HappensBefore(Join(c, d), e)
  /\ \A c \in Clock, t \in Thread : Increment(c, t) \in Clock /\ HappensBefore(c, Increment(c, t))
  <1>1. \A c \in Clock : HappensBefore(c, c) /\ HappensBefore(Zero, c)
    BY ZeroProp DEF HappensBefore, Clock
  <1>2. \A c, d, e \in Clock : HappensBefore(c, d) /\ HappensBefore(d, e) => HappensBefore(c, e)
    BY DEF HappensBefore, Clock
  <1>3. \A c, d \in Clock : /\ Join(c, d) \in Clock
                            /\ HappensBefore(c, Join(c, d)) /\ HappensBefore(d, Join(c, d))
    BY JoinProp DEF HappensBefore
  <1>4. \A c, d, e \in Clock : HappensBefore(c, e) /\ HappensBefore(d, e) => HappensBefore(Join(c, d), e)
    BY JoinProp DEF HappensBefore
  <1>5. ASSUME NEW c \in Clock, NEW t \in Thread
        PROVE  Increment(c, t) \in Clock /\ HappensBefore(c, Increment(c, t))
    <2>1. \A u \in Thread : c[u] \in Nat BY DEF Clock
    <2> QED BY <2>1, IncrementProp DEF HappensBefore
  <1> QED BY <1>1, <1>2, <1>3, <1>4, <1>5

\* f has the accesses of e, and maybe more.
Extends(e, f) ==
  \A u \in Thread : /\ Len(e[u]) <= Len(f[u])
                    /\ \A n \in 1..Len(e[u]) : f[u][n] = e[u][n]

\* What a clock covers, a greater one covers, and more accesses change nothing of it.
LEMMA CoversLe ==
  ASSUME NEW e \in [Thread -> Seq(Nat)], NEW f \in [Thread -> Seq(Nat)], Extends(e, f),
         NEW c \in Clock, NEW d \in Clock, HappensBefore(c, d),
         NEW h \in Clock, MadeIn(e, h), CoversIn(e, c, h)
  PROVE  CoversIn(f, d, h) /\ MadeIn(f, h)
  <1>1. ASSUME NEW u \in Thread, NEW n \in 1..h[u] PROVE f[u][n] <= d[u]
    <2>1. h[u] \in Nat /\ c[u] \in Nat /\ d[u] \in Nat BY DEF Clock
    <2>2. e[u] \in Seq(Nat) /\ Len(e[u]) \in Nat OBVIOUS
    <2>3. n \in 1..Len(e[u]) BY <2>1, <2>2 DEF MadeIn
    <2>4. e[u][n] \in Nat BY <2>2, <2>3
    <2>5. f[u][n] = e[u][n] /\ e[u][n] <= c[u] BY <2>3 DEF Extends, CoversIn
    <2>6. c[u] <= d[u] BY DEF HappensBefore
    <2> QED BY <2>1, <2>4, <2>5, <2>6
  <1>2. ASSUME NEW u \in Thread PROVE h[u] <= Len(f[u])
    <2>1. h[u] \in Nat BY DEF Clock
    <2>2. e[u] \in Seq(Nat) /\ f[u] \in Seq(Nat) OBVIOUS
    <2>3. Len(e[u]) \in Nat /\ Len(f[u]) \in Nat BY <2>2
    <2> QED BY <2>1, <2>3 DEF MadeIn, Extends
  <1> QED BY <1>1, <1>2 DEF CoversIn, MadeIn

\* Two covered sets of accesses are covered together.
LEMMA CoversJoin ==
  ASSUME NEW e, NEW c, NEW h \in Clock, NEW k \in Clock
  PROVE  /\ CoversIn(e, c, h) /\ CoversIn(e, c, k) => CoversIn(e, c, Join(h, k))
         /\ MadeIn(e, h) /\ MadeIn(e, k) => MadeIn(e, Join(h, k))
  <1>1. \A u \in Thread : Join(h, k)[u] = h[u] \/ Join(h, k)[u] = k[u] BY JoinProp
  <1>2. CoversIn(e, c, h) /\ CoversIn(e, c, k) => CoversIn(e, c, Join(h, k)) BY <1>1 DEF CoversIn
  <1>3. MadeIn(e, h) /\ MadeIn(e, k) => MadeIn(e, Join(h, k)) BY <1>1 DEF MadeIn
  <1> QED BY <1>2, <1>3

\* So are any number of them.
LEMMA CoversJoinAll ==
  ASSUME NEW e, NEW c, NEW h \in Clock, NEW k \in [Thread -> Clock], NEW S \in SUBSET Thread
  PROVE  /\ CoversIn(e, c, h) /\ (\A w \in S : CoversIn(e, c, k[w])) => CoversIn(e, c, JoinAll(h, k, S))
         /\ MadeIn(e, h) /\ (\A w \in S : MadeIn(e, k[w])) => MadeIn(e, JoinAll(h, k, S))
  <1> DEFINE J == JoinAll(h, k, S)
  <1>1. \A u \in Thread : J[u] = h[u] \/ \E w \in S : J[u] = k[w][u] BY JoinAllProp
  <1> HIDE DEF J
  <1>2. CoversIn(e, c, h) /\ (\A w \in S : CoversIn(e, c, k[w])) => CoversIn(e, c, J)
    BY <1>1 DEF CoversIn
  <1>3. MadeIn(e, h) /\ (\A w \in S : MadeIn(e, k[w])) => MadeIn(e, J) BY <1>1 DEF MadeIn
  <1> QED BY <1>2, <1>3 DEF J

\* No accesses are covered by any clock.
LEMMA CoversZero ==
  ASSUME NEW e, NEW c
  PROVE  CoversIn(e, c, Zero)
  BY ZeroProp DEF CoversIn
-----------------------------------------------------------------------------
(* Callbacks: the clocks change, the truth does not. *)

Callback(t) ==
  \/ ThreadStart(t)
  \/ \E there \in {"run", "pruning"} : AfterPthreadJoin(t, there)
  \/ \E m \in Mutex : BeforePthreadMutexUnlock(t, m)
  \/ AfterPthreadMutexLock(t)
  \/ AfterPthreadRwlock(t) \/ BeforePthreadRwlockUnlock(t)
  \/ BeforePthreadCondWait(t) \/ ProcessNotify(t) \/ AfterPthreadCondWait(t)
  \/ BeforePthreadBarrierWait(t) \/ AfterPthreadBarrierWait(t)
  \/ BeforeSemPost(t) \/ AfterSemWait(t)

\* A callback leaves the truth, the pthread objects and the other threads alone;
\* ThreadStart alone works on another thread's clock while that thread lives.
LEMMA CallbackFrame ==
  ASSUME TypeOK, CallInv, NEW t \in Thread, Callback(t)
  PROVE  /\ UNCHANGED <<epochs, hb, hbMutex, hbWriter, hbReaders, hbSem, holder, writer, readers>>
         /\ \A u \in Thread \ {t} : pc'[u] = pc[u] /\ arg'[u] = arg[u]
         /\ pc[t] # "reaped" /\ pc'[t] # "reaped" /\ pc[t] # "unborn" /\ pc'[t] # "unborn"
  <1> USE DEF TypeOK, Move, Goto, lockVars, rwVars, condVars, barVars, semVars
  <1>1. ASSUME NEW there \in {"run", "pruning"}, AfterPthreadJoin(t, there) PROVE
         /\ UNCHANGED <<epochs, hb, hbMutex, hbWriter, hbReaders, hbSem, holder, writer, readers>>
         /\ \A u \in Thread \ {t} : pc'[u] = pc[u] /\ arg'[u] = arg[u]
         /\ pc[t] # "reaped" /\ pc'[t] # "reaped" /\ pc[t] # "unborn" /\ pc'[t] # "unborn"
    BY <1>1 DEF AfterPthreadJoin
  <1>2. CASE ThreadStart(t) \/ AfterPthreadMutexLock(t) \/ \E m \in Mutex : BeforePthreadMutexUnlock(t, m)
    BY <1>2 DEF ThreadStart, AfterPthreadMutexLock, BeforePthreadMutexUnlock
  <1>3. CASE AfterPthreadRwlock(t) \/ BeforePthreadRwlockUnlock(t)
    BY <1>3 DEF AfterPthreadRwlock, BeforePthreadRwlockUnlock
  <1>4. CASE BeforePthreadCondWait(t) \/ ProcessNotify(t) \/ AfterPthreadCondWait(t)
    BY <1>4 DEF BeforePthreadCondWait, ProcessNotify, AfterPthreadCondWait
  <1>5. CASE \/ BeforePthreadBarrierWait(t) \/ AfterPthreadBarrierWait(t)
             \/ BeforeSemPost(t) \/ AfterSemWait(t)
    BY <1>5 DEF BeforePthreadBarrierWait, AfterPthreadBarrierWait, BeforeSemPost, AfterSemWait
  <1> QED BY <1>1, <1>2, <1>3, <1>4, <1>5 DEF Callback

\* The clocks a thread is heading for are clocks.
LEMMA DueType ==
  ASSUME TypeOK, CallInv, NEW u \in Thread
  PROVE  Due(u) \in Clock
  <1>1. pc[u] \in {"locked", "condLocked"} => arg[u] \in Mutex
    BY CondAssumption DEF CallInv, CondPC
  <1>2. pc[u] \in {"starting", "joined"} => arg[u] \in Thread BY DEF CallInv
  <1> QED BY <1>1, <1>2, ClockOrder DEF TypeOK, Due, BarPC

\* So they are after a step.
LEMMA DueTypeNext ==
  ASSUME TypeOK', CallInv', NEW u \in Thread
  PROVE  Due(u)' \in Clock
  <1>1. pc'[u] \in {"locked", "condLocked"} => arg'[u] \in Mutex
    BY CondAssumption DEF CallInv, CondPC
  <1>2. pc'[u] \in {"starting", "joined"} => arg'[u] \in Thread BY DEF CallInv
  <1> QED BY <1>1, <1>2, ClockOrder DEF TypeOK, Due, BarPC

\* What must grow for the clock that u is heading for to grow.
Grows(u) ==
  /\ pc[u] # "starting" => HappensBefore(vc[u], vc'[u])
  /\ pc[u] \in {"starting", "joined"} => HappensBefore(vc[arg[u]], vc'[arg[u]])
  /\ pc[u] \in {"locked", "condLocked"} => HappensBefore(mutexVc[arg[u]], mutexVc'[arg[u]])
  /\ pc[u] \in {"rdLocked", "wrLocked"} => HappensBefore(rwVc, rwVc')
  /\ pc[u] \in {"condWoken", "condLocked"} => HappensBefore(signalTable[u], signalTable'[u])
  /\ pc[u] \in BarPC => HappensBefore(barVc, barVc')
  /\ pc[u] = "semTaken" => HappensBefore(semVc, semVc')

\* If all that goes into it grows, the clock that u is heading for does.
LEMMA DueGrows ==
  ASSUME TypeOK, TypeOK', CallInv, NEW u \in Thread, pc'[u] = pc[u], arg'[u] = arg[u], Grows(u)
  PROVE  HappensBefore(Due(u), Due(u)')
  <1>1. pc[u] \in {"locked", "condLocked"} => arg[u] \in Mutex
    BY CondAssumption DEF CallInv, CondPC
  <1>2. pc[u] \in {"starting", "joined"} => arg[u] \in Thread BY DEF CallInv
  <1>3. \A c, d, e, f \in Clock :
          HappensBefore(c, e) /\ HappensBefore(d, f) => HappensBefore(Join(c, d), Join(e, f))
    BY ClockOrder
  <1>4. \A c, d \in Clock : Join(c, d) \in Clock BY ClockOrder
  <1>5. CASE pc[u] = "starting"
    BY <1>5 DEF Due, Grows, BarPC
  <1>6. CASE pc[u] = "joined"
    <2>1. Due(u) = Join(vc[u], vc[arg[u]]) /\ Due(u)' = Join(vc'[u], vc'[arg[u]])
      BY <1>6 DEF Due, BarPC
    <2>2. /\ vc[u] \in Clock /\ vc[arg[u]] \in Clock
          /\ vc'[u] \in Clock /\ vc'[arg[u]] \in Clock
      BY <1>2, <1>6 DEF TypeOK
    <2>3. HappensBefore(vc[u], vc'[u]) /\ HappensBefore(vc[arg[u]], vc'[arg[u]])
      BY <1>6 DEF Grows
    <2> QED BY <1>3, <2>1, <2>2, <2>3
  <1>10. CASE pc[u] = "locked"
    <2>1. Due(u) = Join(vc[u], mutexVc[arg[u]]) /\ Due(u)' = Join(vc'[u], mutexVc'[arg[u]])
      BY <1>10 DEF Due, BarPC
    <2>2. /\ vc[u] \in Clock /\ mutexVc[arg[u]] \in Clock
          /\ vc'[u] \in Clock /\ mutexVc'[arg[u]] \in Clock
      BY <1>1, <1>10 DEF TypeOK
    <2>3. HappensBefore(vc[u], vc'[u]) /\ HappensBefore(mutexVc[arg[u]], mutexVc'[arg[u]])
      BY <1>10 DEF Grows
    <2> QED BY <1>3, <2>1, <2>2, <2>3
  <1>11. CASE pc[u] = "condLocked"
    <2> DEFINE c == Join(vc[u], signalTable[u])
               d == Join(vc'[u], signalTable'[u])
    <2>1. Due(u) = Join(c, mutexVc[arg[u]]) /\ Due(u)' = Join(d, mutexVc'[arg[u]])
      BY <1>11 DEF Due, BarPC
    <2>2. c \in Clock /\ d \in Clock /\ HappensBefore(c, d)
      BY <1>3, <1>4, <1>11 DEF Grows, TypeOK
    <2> HIDE DEF c, d
    <2> QED BY SMTT(20), <1>1, <1>3, <1>11, <2>1, <2>2 DEF Grows, TypeOK
  <1>7. CASE pc[u] \in {"rdLocked", "wrLocked", "condWoken", "semTaken"}
    BY SMTT(20), <1>3, <1>7 DEF Due, Grows, TypeOK
  <1>8. CASE pc[u] \in BarPC
    BY <1>3, <1>8 DEF Due, Grows, TypeOK, BarPC
  <1>9. CASE pc[u] \notin {"starting", "joined", "locked", "condLocked", "rdLocked", "wrLocked",
                           "condWoken", "semTaken"} \cup BarPC
    BY <1>9 DEF Due, Grows
  <1> QED BY <1>5, <1>6, <1>7, <1>8, <1>9, <1>10, <1>11

\* No callback takes anything from the clock of a thread that has not been
\* joined; the clock of one that has been is deleted by the joining thread alone,
\* and nothing brings it back.
LEMMA CallbackVc ==
  ASSUME TypeOK, CallInv, NEW t \in Thread, Callback(t), NEW u \in Thread, pc[u] # "starting"
  PROVE  /\ pc[u] # "reaped" => HappensBefore(vc[u], vc'[u])
         /\ pc[u] = "reaped" /\ vc[u] = Zero => vc'[u] = Zero
         /\ HappensBefore(vc[u], vc'[u]) \/ (vc'[u] = Zero /\ pc[t] = "joined" /\ u = arg[t])
  <1> DEFINE Goal == /\ pc[u] # "reaped" => HappensBefore(vc[u], vc'[u])
                     /\ pc[u] = "reaped" /\ vc[u] = Zero => vc'[u] = Zero
                     /\ \/ HappensBefore(vc[u], vc'[u])
                        \/ vc'[u] = Zero /\ pc[t] = "joined" /\ u = arg[t]
  <1> USE DEF SetVc, SetVcInc
  <1>a. vc \in [Thread -> Clock] /\ mutexVc \in [Mutex -> Clock] /\ signalTable \in [Thread -> Clock]
        /\ waitTable \in [Thread -> Clock] /\ rwVc \in Clock /\ barVc \in Clock /\ semVc \in Clock
    BY DEF TypeOK
  <1>b. pc[t] # "reaped" BY CallbackFrame
  <1>c. ASSUME NEW c \in Clock, HappensBefore(vc[t], c), vc' = [vc EXCEPT ![t] = c] PROVE Goal
    <2>1. CASE u = t BY <1>a, <1>b, <1>c, <2>1
    <2>2. CASE u # t
      <3>1. vc'[u] = vc[u] BY <1>a, <1>c, <2>2
      <3> QED BY <1>a, <3>1, ClockOrder
    <2> QED BY <2>1, <2>2
  <1>d. /\ \A c \in Clock : Join(vc[t], c) \in Clock /\ HappensBefore(vc[t], Join(vc[t], c))
        /\ \A c \in Clock : HappensBefore(vc[t], c) =>
             Increment(c, t) \in Clock /\ HappensBefore(vc[t], Increment(c, t))
        /\ vc[t] \in Clock /\ HappensBefore(vc[t], vc[t])
    BY <1>a, ClockOrder
  <1>x. SUFFICES Goal OBVIOUS
  <1> HIDE DEF Goal
  <1>1. CASE ThreadStart(t)
    <2>0. PICK p \in Thread \ {t} : p = arg[t] /\ vc[p] # Zero
      BY <1>1 DEF ThreadStart, CallInv, Move
    <2> DEFINE c == Join(Increment(Zero, t), vc[p])
               d == Increment(vc[p], p)
    <2>1. pc[t] = "starting" /\ vc' = [vc EXCEPT ![t] = c, ![p] = d]
      BY <1>1, <2>0 DEF ThreadStart, Move
    <2>2. d \in Clock /\ HappensBefore(vc[p], d) BY <1>a, ClockOrder
    <2> HIDE DEF c, d
    <2>3. vc'[p] = d /\ \A w \in Thread \ {t, p} : vc'[w] = vc[w]
      BY <1>a, <2>1, <2>2
    <2> QED BY <1>a, <2>0, <2>1, <2>2, <2>3, ClockOrder DEF Goal
  <1>2. ASSUME NEW there \in {"run", "pruning"}, AfterPthreadJoin(t, there) PROVE Goal
    <2>0. PICK p \in Thread \ {t} : p = arg[t] /\ pc[p] = "reaped" /\ pc[t] = "joined"
      BY <1>2 DEF AfterPthreadJoin, CallInv, Move
    <2> DEFINE c == Increment(Join(vc[t], vc[p]), t)
    <2>1. vc' = [vc EXCEPT ![t] = c, ![p] = Zero]
      BY <1>2, <2>0 DEF AfterPthreadJoin
    <2>2. HappensBefore(vc[t], c) BY <1>a, <1>d
    <2> HIDE DEF c
    <2>3. vc'[t] = c /\ vc'[p] = Zero /\ \A w \in Thread \ {t, p} : vc'[w] = vc[w]
      BY <1>a, <2>1
    <2> QED BY <1>a, <2>0, <2>2, <2>3, ClockOrder DEF Goal
  <1>3. CASE \/ \E m \in Mutex : BeforePthreadMutexUnlock(t, m)
             \/ BeforePthreadRwlockUnlock(t) \/ BeforeSemPost(t)
    BY <1>3, <1>c, <1>d DEF BeforePthreadMutexUnlock, BeforePthreadRwlockUnlock, BeforeSemPost
  <1>4. CASE AfterPthreadMutexLock(t)
    <2>1. arg[t] \in Mutex BY <1>4 DEF AfterPthreadMutexLock, CallInv, Move
    <2> QED BY <1>4, <1>a, <1>c, <1>d, <2>1 DEF AfterPthreadMutexLock
  <1>5. CASE AfterPthreadRwlock(t) BY <1>5, <1>a, <1>c, <1>d DEF AfterPthreadRwlock
  <1>6. CASE BeforePthreadCondWait(t)
    <2>1. /\ Increment(vc[t], t) \in Clock /\ HappensBefore(vc[t], Increment(vc[t], t))
      BY <1>d
    <2>2. /\ Increment(Increment(vc[t], t), t) \in Clock
          /\ HappensBefore(vc[t], Increment(Increment(vc[t], t), t))
      BY <1>d, <2>1
    <2> QED BY <1>6, <1>c, <2>2 DEF BeforePthreadCondWait
  <1>7. CASE ProcessNotify(t)
    <2> DEFINE c == JoinAll(vc[t], waitTable, Waiting)
    <2>1. c \in Clock /\ HappensBefore(vc[t], c)
      <3>1. Waiting \in SUBSET Thread BY DEF Waiting
      <3> QED BY <1>a, <3>1, JoinAllProp DEF HappensBefore
    <2>2. vc' = [vc EXCEPT ![t] = Increment(c, t)] BY <1>7 DEF ProcessNotify
    <2> HIDE DEF c
    <2> QED BY <1>c, <1>d, <2>1, <2>2
  <1>8. CASE AfterPthreadCondWait(t)
    <2>1. arg[t] \in Mutex
      BY <1>8, CondAssumption DEF AfterPthreadCondWait, CallInv, CondPC, Move
    <2> DEFINE c == Join(vc[t], signalTable[t])
               d == Join(c, mutexVc[arg[t]])
    <2>2. c \in Clock /\ HappensBefore(vc[t], c) BY <1>a, <1>d
    <2>3. vc' = [vc EXCEPT ![t] = d] BY <1>8 DEF AfterPthreadCondWait
    <2>4. d \in Clock /\ HappensBefore(c, d)
      <3> HIDE DEF c
      <3> QED BY <1>a, <2>1, <2>2, ClockOrder
    <2> HIDE DEF c, d
    <2>5. HappensBefore(vc[t], d) BY <1>d, <2>2, <2>4, ClockOrder
    <2> QED BY <1>c, <2>3, <2>4, <2>5
  <1>9. CASE BeforePthreadBarrierWait(t)
    <2>1. vc' = vc BY <1>9 DEF BeforePthreadBarrierWait
    <2> QED BY <1>a, <2>1, ClockOrder DEF Goal
  <1>10. CASE AfterPthreadBarrierWait(t) BY <1>10, <1>a, <1>c, <1>d DEF AfterPthreadBarrierWait
  <1>11. CASE AfterSemWait(t) BY <1>11, <1>a, <1>c, <1>d DEF AfterSemWait
  <1> QED
    BY <1>1, <1>2, <1>3, <1>4, <1>5, <1>6, <1>7, <1>8, <1>9, <1>10, <1>11 DEF Callback

\* What a callback does to the objects: a mutex's clock is overwritten by its
\* holder; a release of the rwlock publishes no less than before, for whoever is
\* counted knows it all; a signaller that holds the mutex overwrites what earlier
\* ones have left with no less; the barrier is cleared by the last one in it.
LEMMA CallbackObjects ==
  ASSUME RwlockCounts, SignalHolding,
         TypeOK, TypeOK', CallInv, CountInv, RwKnown, SignalsKnown, NEW t \in Thread, Callback(t)
  PROVE  /\ \A m \in Mutex : mutexVc'[m] = mutexVc[m] \/ (holder[m] = t /\ pc[t] = "run"
                                                          /\ mutexVc'[m] = vc[t])
         /\ HappensBefore(rwVc, rwVc')
         /\ \A u \in Thread : \/ HappensBefore(signalTable[u], signalTable'[u])
                              \/ u = t /\ pc[t] = "condLocked"
         /\ HappensBefore(barVc, barVc') \/ InBarrier = {t}
         /\ HappensBefore(semVc, semVc')
  <1> DEFINE Mutexes1 == \A m \in Mutex : mutexVc'[m] = mutexVc[m] \/ (holder[m] = t /\ pc[t] = "run"
                                                                        /\ mutexVc'[m] = vc[t])
             Rw1      == HappensBefore(rwVc, rwVc')
             Signals1 == \A u \in Thread : \/ HappensBefore(signalTable[u], signalTable'[u])
                                           \/ u = t /\ pc[t] = "condLocked"
             Bar1     == HappensBefore(barVc, barVc') \/ InBarrier = {t}
             Sem1     == HappensBefore(semVc, semVc')
  <1>a. /\ vc \in [Thread -> Clock] /\ mutexVc \in [Mutex -> Clock] /\ signalTable \in [Thread -> Clock]
        /\ waitTable \in [Thread -> Clock] /\ rwVc \in Clock /\ rwWait \in Clock
        /\ barVc \in Clock /\ semVc \in Clock
    BY DEF TypeOK
  <1>b. /\ UNCHANGED mutexVc => Mutexes1
        /\ UNCHANGED rwVc => Rw1
        /\ UNCHANGED signalTable => Signals1
        /\ UNCHANGED barVc => Bar1
        /\ UNCHANGED semVc => Sem1
    BY <1>a, ClockOrder
  <1> HIDE DEF Mutexes1, Rw1, Signals1, Bar1, Sem1
  <1> USE DEF Move, lockVars, rwVars, condVars, barVars, semVars
  <1>1. Mutexes1
    <2>1. CASE \E m \in Mutex : BeforePthreadMutexUnlock(t, m)
      BY <1>a, <2>1 DEF BeforePthreadMutexUnlock, Mutexes1
    <2>2. CASE BeforePthreadCondWait(t)
      BY <1>a, <2>2 DEF BeforePthreadCondWait, Mutexes1
    <2>3. CASE \E there \in {"run", "pruning"} : AfterPthreadJoin(t, there)
      BY <1>b, <2>3 DEF AfterPthreadJoin
    <2>4. CASE \/ ThreadStart(t) \/ AfterPthreadMutexLock(t)
               \/ AfterPthreadRwlock(t) \/ BeforePthreadRwlockUnlock(t)
      BY <1>b, <2>4 DEF ThreadStart, AfterPthreadMutexLock, AfterPthreadRwlock, BeforePthreadRwlockUnlock
    <2>5. CASE \/ ProcessNotify(t) \/ AfterPthreadCondWait(t)
               \/ BeforePthreadBarrierWait(t) \/ AfterPthreadBarrierWait(t)
               \/ BeforeSemPost(t) \/ AfterSemWait(t)
      BY <1>b, <2>5 DEF ProcessNotify, AfterPthreadCondWait, BeforePthreadBarrierWait,
         AfterPthreadBarrierWait, BeforeSemPost, AfterSemWait
    <2> QED BY <2>1, <2>2, <2>3, <2>4, <2>5 DEF Callback
  <1>2. Rw1
    <2>1. CASE BeforePthreadRwlockUnlock(t)
      <3>1. t \in RwCounted BY <2>1 DEF BeforePthreadRwlockUnlock, RwCounted
      <3>2. HappensBefore(rwVc, vc[t]) BY <3>1 DEF RwKnown
      <3>3. /\ Join(rwWait, vc[t]) \in Clock
            /\ HappensBefore(rwVc, Join(rwWait, vc[t])) /\ HappensBefore(rwVc, rwVc)
        BY <1>a, <3>2, ClockOrder
      <3> QED BY <2>1, <3>3 DEF BeforePthreadRwlockUnlock, ReleaseCounted, Rw1
    <2>2. CASE \E there \in {"run", "pruning"} : AfterPthreadJoin(t, there)
      BY <1>b, <2>2 DEF AfterPthreadJoin
    <2>3. CASE \/ ThreadStart(t) \/ AfterPthreadMutexLock(t)
               \/ AfterPthreadRwlock(t) \/ \E m \in Mutex : BeforePthreadMutexUnlock(t, m)
      BY <1>b, <2>3 DEF ThreadStart, AfterPthreadMutexLock, AfterPthreadRwlock, BeforePthreadMutexUnlock
    <2>4. CASE \/ BeforePthreadCondWait(t) \/ ProcessNotify(t) \/ AfterPthreadCondWait(t)
               \/ BeforePthreadBarrierWait(t) \/ AfterPthreadBarrierWait(t)
               \/ BeforeSemPost(t) \/ AfterSemWait(t)
      BY <1>b, <2>4 DEF BeforePthreadCondWait, ProcessNotify, AfterPthreadCondWait,
         BeforePthreadBarrierWait, AfterPthreadBarrierWait, BeforeSemPost, AfterSemWait
    <2> QED BY <2>1, <2>2, <2>3, <2>4 DEF Callback
  <1>3. Signals1
    <2>1. CASE ProcessNotify(t)
      <3> DEFINE c == JoinAll(vc[t], waitTable, Waiting)
      <3>1. pc[t] = "run" /\ holder[CondMutex] = t
        BY <2>1 DEF ProcessNotify, MaySignal
      <3>2. \A u \in Thread : HappensBefore(signalTable[u], vc[t])
        BY <3>1 DEF SignalsKnown, Passing
      <3>3. c \in Clock /\ HappensBefore(vc[t], c)
        <4>1. Waiting \in SUBSET Thread BY DEF Waiting
        <4> QED BY <1>a, <4>1, JoinAllProp DEF HappensBefore
      <3>4. signalTable' = [u \in Thread |-> IF u \in Waiting THEN c ELSE signalTable[u]]
        BY <2>1 DEF ProcessNotify
      <3> HIDE DEF c
      <3>5. \A u \in Thread : HappensBefore(signalTable[u], c) BY <1>a, <3>2, <3>3, ClockOrder
      <3> QED BY <1>a, <3>4, <3>5, ClockOrder DEF Signals1
    <2>2. CASE AfterPthreadCondWait(t)
      <3>1. pc[t] = "condLocked" /\ \A u \in Thread \ {t} : signalTable'[u] = signalTable[u]
        BY <1>a, <2>2 DEF AfterPthreadCondWait
      <3> QED BY <1>a, <3>1, ClockOrder DEF Signals1
    <2>3. CASE \E there \in {"run", "pruning"} : AfterPthreadJoin(t, there)
      BY <1>b, <2>3 DEF AfterPthreadJoin
    <2>4. CASE \/ ThreadStart(t) \/ AfterPthreadMutexLock(t)
               \/ AfterPthreadRwlock(t) \/ BeforePthreadRwlockUnlock(t)
               \/ \E m \in Mutex : BeforePthreadMutexUnlock(t, m)
      BY <1>b, <2>4 DEF ThreadStart, AfterPthreadMutexLock, AfterPthreadRwlock,
         BeforePthreadRwlockUnlock, BeforePthreadMutexUnlock
    <2>5. CASE \/ BeforePthreadCondWait(t)
               \/ BeforePthreadBarrierWait(t) \/ AfterPthreadBarrierWait(t)
               \/ BeforeSemPost(t) \/ AfterSemWait(t)
      BY <1>b, <2>5 DEF BeforePthreadCondWait,
         BeforePthreadBarrierWait, AfterPthreadBarrierWait, BeforeSemPost, AfterSemWait
    <2> QED BY <2>1, <2>2, <2>3, <2>4, <2>5 DEF Callback
  <1>4. Bar1
    <2>1. CASE BeforePthreadBarrierWait(t)
      BY <1>a, <2>1, ClockOrder DEF BeforePthreadBarrierWait, Bar1
    <2>2. CASE AfterPthreadBarrierWait(t)
      <3>1. t \in InBarrier BY <2>2 DEF AfterPthreadBarrierWait, InBarrier, BarPC
      <3>2. waiter = Cardinality(InBarrier) /\ waiter \in Nat BY DEF CountInv, TypeOK
      <3>3. waiter = 1 => InBarrier = {t}
        <4>1. InBarrier \in SUBSET Thread BY DEF InBarrier
        <4> QED BY <3>1, <3>2, <4>1, OneMore
      <3>4. waiter # 1 => barVc' = barVc BY <2>2, <3>2 DEF AfterPthreadBarrierWait
      <3> QED BY <1>b, <3>3, <3>4 DEF Bar1
    <2>3. CASE \E there \in {"run", "pruning"} : AfterPthreadJoin(t, there)
      BY <1>b, <2>3 DEF AfterPthreadJoin
    <2>4. CASE \/ ThreadStart(t) \/ AfterPthreadMutexLock(t)
               \/ AfterPthreadRwlock(t) \/ BeforePthreadRwlockUnlock(t)
               \/ \E m \in Mutex : BeforePthreadMutexUnlock(t, m)
      BY <1>b, <2>4 DEF ThreadStart, AfterPthreadMutexLock, AfterPthreadRwlock,
         BeforePthreadRwlockUnlock, BeforePthreadMutexUnlock
    <2>5. CASE \/ BeforePthreadCondWait(t) \/ ProcessNotify(t) \/ AfterPthreadCondWait(t)
               \/ BeforeSemPost(t) \/ AfterSemWait(t)
      BY <1>b, <2>5 DEF BeforePthreadCondWait, ProcessNotify, AfterPthreadCondWait,
         BeforeSemPost, AfterSemWait
    <2> QED BY <2>1, <2>2, <2>3, <2>4, <2>5 DEF Callback
  <1>5. Sem1
    <2>1. CASE BeforeSemPost(t) BY <1>a, <2>1, ClockOrder DEF BeforeSemPost, Sem1
    <2>2. CASE \E there \in {"run", "pruning"} : AfterPthreadJoin(t, there)
      BY <1>b, <2>2 DEF AfterPthreadJoin
    <2>3. CASE \/ ThreadStart(t) \/ AfterPthreadMutexLock(t)
               \/ AfterPthreadRwlock(t) \/ BeforePthreadRwlockUnlock(t)
               \/ \E m \in Mutex : BeforePthreadMutexUnlock(t, m)
      BY <1>b, <2>3 DEF ThreadStart, AfterPthreadMutexLock, AfterPthreadRwlock,
         BeforePthreadRwlockUnlock, BeforePthreadMutexUnlock
    <2>4. CASE \/ BeforePthreadCondWait(t) \/ ProcessNotify(t) \/ AfterPthreadCondWait(t)
               \/ BeforePthreadBarrierWait(t) \/ AfterPthreadBarrierWait(t) \/ AfterSemWait(t)
      BY <1>b, <2>4 DEF BeforePthreadCondWait, ProcessNotify, AfterPthreadCondWait,
         BeforePthreadBarrierWait, AfterPthreadBarrierWait, AfterSemWait
    <2> QED BY <2>1, <2>2, <2>3, <2>4 DEF Callback
  <1> QED BY <1>1, <1>2, <1>3, <1>4, <1>5 DEF Mutexes1, Rw1, Signals1, Bar1, Sem1

\* The clock t is heading for is the one its callback gives it, at least.
LEMMA OwnDue ==
  ASSUME TypeOK, TypeOK', CallInv, NEW t \in Thread, Callback(t)
  PROVE  HappensBefore(Due(t), Due(t)') /\ ~Orphan(t)
  <1> USE DEF SetVc, SetVcInc, Move, Goto
  <1>a. /\ vc \in [Thread -> Clock] /\ mutexVc \in [Mutex -> Clock] /\ signalTable \in [Thread -> Clock]
        /\ waitTable \in [Thread -> Clock] /\ rwVc \in Clock /\ barVc \in Clock /\ semVc \in Clock
        /\ pc \in [Thread -> PC] /\ vc[t] \in Clock
    BY DEF TypeOK
  <1>b. /\ \A c, d \in Clock : Join(c, d) \in Clock
        /\ \A c \in Clock : HappensBefore(c, c) /\ HappensBefore(c, Increment(c, t))
    BY ClockOrder
  <1>1. CASE ThreadStart(t)
    <2>0. PICK p \in Thread \ {t} : p = arg[t] /\ vc[p] # Zero
      BY <1>1 DEF ThreadStart, CallInv
    <2> DEFINE c == Join(Increment(Zero, t), vc[p])
               d == Increment(vc[p], p)
    <2>1. /\ pc[t] = "starting" /\ pc'[t] = "run"
          /\ vc' = [vc EXCEPT ![t] = c, ![p] = d]
      BY <1>1, <1>a, <2>0 DEF ThreadStart
    <2>2. HappensBefore(vc[p], c)
      <3>1. Increment(Zero, t) \in Clock /\ vc[p] \in Clock BY <1>a, ZeroProp, ClockOrder
      <3> QED BY <3>1, ClockOrder
    <2> HIDE DEF c, d
    <2>3. vc'[t] = c BY <1>a, <2>1
    <2>4. Due(t) = vc[p] /\ Due(t)' = vc'[t] /\ ~Orphan(t)
      BY <2>0, <2>1 DEF Due, BarPC, Orphan
    <2> QED BY <2>2, <2>3, <2>4
  <1>2. ASSUME NEW there \in {"run", "pruning"}, AfterPthreadJoin(t, there)
        PROVE  HappensBefore(Due(t), Due(t)') /\ ~Orphan(t)
    <2>0. PICK p \in Thread \ {t} : p = arg[t] /\ pc[p] = "reaped" /\ pc[t] = "joined"
      BY <1>2 DEF AfterPthreadJoin, CallInv
    <2> DEFINE c == Join(vc[t], vc[p])
    <2>1. vc' = [vc EXCEPT ![t] = Increment(c, t), ![p] = Zero] /\ pc'[t] = there
      BY <1>2, <1>a, <2>0 DEF AfterPthreadJoin
    <2>2. c \in Clock BY <1>a, <1>b
    <2>3. Due(t) = c BY <2>0 DEF Due, BarPC
    <2> HIDE DEF c
    <2>4. vc'[t] = Increment(c, t) BY <1>a, <2>1
    <2>5. Due(t)' = vc'[t] BY <2>1 DEF Due, BarPC
    <2> QED BY <1>b, <2>0, <2>2, <2>3, <2>4, <2>5 DEF Orphan
  <1>3. CASE \/ \E m \in Mutex : BeforePthreadMutexUnlock(t, m)
             \/ BeforePthreadRwlockUnlock(t) \/ BeforeSemPost(t)
    <2>1. /\ pc[t] = "run" /\ pc'[t] \in {"unlocking", "rwUnlocking", "semPosting"}
          /\ vc'[t] = Increment(vc[t], t)
      BY <1>3, <1>a DEF BeforePthreadMutexUnlock, BeforePthreadRwlockUnlock, BeforeSemPost
    <2>2. Due(t) = vc[t] /\ Due(t)' = vc'[t] /\ ~Orphan(t) BY <2>1 DEF Due, BarPC, Orphan
    <2> QED BY <1>a, <1>b, <2>1, <2>2
  <1>4. CASE AfterPthreadMutexLock(t)
    <2>1. /\ pc[t] = "locked" /\ pc'[t] = "run" /\ arg[t] \in Mutex
          /\ vc'[t] = Join(vc[t], mutexVc[arg[t]])
      BY <1>4, <1>a DEF AfterPthreadMutexLock, CallInv
    <2>2. Due(t) = vc'[t] /\ Due(t)' = vc'[t] /\ ~Orphan(t) BY <2>1 DEF Due, BarPC, Orphan
    <2> QED BY <1>a, <1>b, <2>1, <2>2
  <1>5. CASE AfterPthreadRwlock(t)
    <2>1. /\ pc[t] \in {"rdLocked", "wrLocked"} /\ pc'[t] = "run"
          /\ vc'[t] = Join(vc[t], rwVc)
      BY <1>5, <1>a DEF AfterPthreadRwlock
    <2>2. Due(t) = vc'[t] /\ Due(t)' = vc'[t] /\ ~Orphan(t) BY <2>1 DEF Due, BarPC, Orphan
    <2> QED BY <1>a, <1>b, <2>1, <2>2
  <1>6. CASE BeforePthreadCondWait(t)
    <2>1. /\ pc[t] = "run" /\ pc'[t] = "condEnter"
          /\ vc'[t] = Increment(Increment(vc[t], t), t)
      BY <1>6, <1>a DEF BeforePthreadCondWait
    <2>2. Due(t) = vc[t] /\ Due(t)' = vc'[t] /\ ~Orphan(t) BY <2>1 DEF Due, BarPC, Orphan
    <2>3. HappensBefore(vc[t], Increment(Increment(vc[t], t), t))
      <3>1. Increment(vc[t], t) \in Clock /\ Increment(Increment(vc[t], t), t) \in Clock
        BY <1>a, ClockOrder
      <3> QED BY <1>a, <3>1, ClockOrder
    <2> QED BY <2>1, <2>2, <2>3
  <1>7. CASE ProcessNotify(t)
    <2> DEFINE c == JoinAll(vc[t], waitTable, Waiting)
    <2>1. c \in Clock /\ HappensBefore(vc[t], c)
      <3>1. Waiting \in SUBSET Thread BY DEF Waiting
      <3> QED BY <1>a, <3>1, JoinAllProp DEF HappensBefore
    <2>2. pc[t] = "run" /\ pc'[t] = "signalling" /\ vc'[t] = Increment(c, t)
      BY <1>7, <1>a DEF ProcessNotify
    <2> HIDE DEF c
    <2>3. Due(t) = vc[t] /\ Due(t)' = vc'[t] /\ ~Orphan(t) BY <2>2 DEF Due, BarPC, Orphan
    <2>4. Increment(c, t) \in Clock /\ HappensBefore(c, Increment(c, t)) BY <2>1, ClockOrder
    <2> QED BY <1>a, <2>1, <2>2, <2>3, <2>4, ClockOrder
  <1>8. CASE AfterPthreadCondWait(t)
    <2>1. /\ pc[t] = "condLocked" /\ pc'[t] = "run" /\ arg[t] \in Mutex
          /\ vc'[t] = Join(Join(vc[t], signalTable[t]), mutexVc[arg[t]])
      BY <1>8, <1>a, CondAssumption DEF AfterPthreadCondWait, CallInv, CondPC
    <2>2. Due(t) = vc'[t] /\ Due(t)' = vc'[t] /\ ~Orphan(t) BY <2>1 DEF Due, BarPC, Orphan
    <2>3. vc'[t] \in Clock BY DEF TypeOK
    <2> QED BY <1>b, <2>2, <2>3
  <1>9. CASE BeforePthreadBarrierWait(t)
    <2>1. /\ pc[t] = "run" /\ pc'[t] = "barEnter" /\ vc'[t] = vc[t]
          /\ barVc' = Join(barVc, vc[t])
      BY <1>9, <1>a DEF BeforePthreadBarrierWait
    <2>2. Due(t) = vc[t] /\ Due(t)' = Join(vc[t], barVc') /\ ~Orphan(t) BY <2>1 DEF Due, BarPC, Orphan
    <2>3. barVc' \in Clock BY DEF TypeOK
    <2> QED BY <1>a, <2>2, <2>3, ClockOrder
  <1>10. CASE AfterPthreadBarrierWait(t)
    <2>1. /\ pc[t] = "barrierOpen" /\ pc'[t] = "run"
          /\ vc'[t] = Increment(Join(vc[t], barVc), t)
      BY <1>10, <1>a DEF AfterPthreadBarrierWait
    <2>2. Due(t) = Join(vc[t], barVc) /\ Due(t)' = vc'[t] /\ ~Orphan(t) BY <2>1 DEF Due, BarPC, Orphan
    <2> QED BY <1>a, <1>b, <2>1, <2>2
  <1>11. CASE AfterSemWait(t)
    <2>1. /\ pc[t] = "semTaken" /\ pc'[t] = "run"
          /\ vc'[t] = Increment(Join(vc[t], semVc), t)
      BY <1>11, <1>a DEF AfterSemWait
    <2>2. Due(t) = Join(vc[t], semVc) /\ Due(t)' = vc'[t] /\ ~Orphan(t) BY <2>1 DEF Due, BarPC, Orphan
    <2> QED BY <1>a, <1>b, <2>1, <2>2
  <1> QED
    BY <1>1, <1>2, <1>3, <1>4, <1>5, <1>6, <1>7, <1>8, <1>9, <1>10, <1>11 DEF Callback

\* The hypotheses of the lemmas about steps.
StepHyp ==
  /\ RwlockCounts /\ SignalHolding
  /\ TypeOK /\ TypeOK' /\ CallInv /\ CallInv' /\ CountInv /\ RwKnown /\ SignalsKnown

\* A callback of t takes nothing from the clock another thread is heading for,
\* unless it deletes the clock that one was to start from.
LEMMA OtherDue ==
  ASSUME StepHyp, NEW t \in Thread, Callback(t),
         NEW u \in Thread \ {t}, pc[u] # "reaped", ~Orphan(u)'
  PROVE  HappensBefore(Due(u), Due(u)') /\ ~Orphan(u)
  <1> USE DEF StepHyp
  <1>1. /\ \A w \in Thread \ {t} : pc'[w] = pc[w] /\ arg'[w] = arg[w]
        /\ pc[t] # "reaped"
    BY CallbackFrame
  <1>2. ASSUME pc[u] = "starting"
        PROVE  arg[u] \in Thread /\ pc[arg[u]] # "starting" /\ HappensBefore(vc[arg[u]], vc'[arg[u]])
               /\ ~Orphan(u)
    <2>1. PICK p \in Thread : p = arg[u] /\ pc[p] # "starting" BY <1>2 DEF CallInv
    <2>2. pc'[u] = "starting" /\ arg'[u] = p BY <1>1, <1>2, <2>1
    <2>3. pc[p] = "reaped" => pc'[p] = "reaped" BY <1>1
    <2>4. /\ pc[p] = "reaped" /\ vc[p] = Zero => vc'[p] = Zero
          /\ HappensBefore(vc[p], vc'[p]) \/ (vc'[p] = Zero /\ pc[t] = "joined" /\ p = arg[t])
      BY <2>1, CallbackVc
    <2>5. pc[t] = "joined" /\ p = arg[t] => pc[p] = "reaped" BY DEF CallInv
    <2>6. ~ (pc'[p] = "reaped" /\ vc'[p] = Zero) BY <2>2 DEF Orphan
    <2> QED BY <2>1, <2>3, <2>4, <2>5, <2>6 DEF Orphan
  <1>3. ASSUME pc[u] = "joined"
        PROVE  HappensBefore(vc[arg[u]], vc'[arg[u]])
    <2>1. PICK p \in Thread : p = arg[u] /\ pc[p] = "reaped" BY <1>3 DEF CallInv
    <2>2. ~ (pc[t] = "joined" /\ p = arg[t]) BY <1>3, <2>1 DEF CallInv
    <2> QED BY <2>1, <2>2, CallbackVc
  <1>4. pc[u] # "starting" => HappensBefore(vc[u], vc'[u]) BY CallbackVc
  <1>5. ASSUME pc[u] \in {"locked", "condLocked"}
        PROVE  HappensBefore(mutexVc[arg[u]], mutexVc'[arg[u]])
    <2>1. arg[u] \in Mutex /\ holder[arg[u]] = u
      BY <1>5, CondAssumption DEF CallInv, CondPC
    <2>2. mutexVc'[arg[u]] = mutexVc[arg[u]] BY <2>1, CallbackObjects
    <2> QED BY <2>1, <2>2, ClockOrder DEF TypeOK
  <1>6. pc[u] \in BarPC => InBarrier # {t} BY DEF InBarrier
  <1>7. Grows(u)
    BY <1>2, <1>3, <1>4, <1>5, <1>6, CallbackObjects DEF Grows
  <1>8. HappensBefore(Due(u), Due(u)') BY <1>1, <1>7, DueGrows
  <1> QED BY <1>2, <1>8 DEF Orphan

\* The same accesses are in a greater clock.
LEMMA CoversMore ==
  ASSUME TypeOK, NEW c \in Clock, NEW d \in Clock, HappensBefore(c, d),
         NEW h \in Clock, MadeIn(epochs, h), CoversIn(epochs, c, h)
  PROVE  CoversIn(epochs, d, h)
  <1>1. epochs \in [Thread -> Seq(Nat)] BY DEF TypeOK
  <1>2. Extends(epochs, epochs) BY <1>1 DEF Extends
  <1> QED BY <1>1, <1>2, CoversLe

\* No callback makes DueInv false.
LEMMA CallbackDue ==
  ASSUME StepHyp, HbInv, DueInv, NEW t \in Thread, Callback(t)
  PROVE  HbInv' /\ DueInv'
  <1> USE DEF StepHyp
  <1>1. /\ UNCHANGED <<epochs, hb, hbMutex, hbWriter, hbReaders, hbSem>>
        /\ \A u \in Thread \ {t} : pc'[u] = pc[u]
        /\ pc[t] # "reaped" /\ pc'[t] # "unborn"
    BY CallbackFrame
  <1>2. HbInv' BY <1>1 DEF HbInv
  <1>3. ASSUME NEW u \in Thread, pc'[u] # "reaped", ~Orphan(u)'
        PROVE  CoversIn(epochs, Due(u)', hb[u])
    <2>1. HappensBefore(Due(u), Due(u)') /\ ~Orphan(u)
      <3>1. CASE u = t BY <3>1, OwnDue
      <3>2. CASE u # t BY <1>1, <1>3, <3>2, OtherDue
      <3> QED BY <3>1, <3>2
    <2>2. pc[u] # "reaped" BY <1>1, <1>3
    <2>3. Due(u) \in Clock BY DueType
    <2>4. Due(u)' \in Clock BY DueTypeNext
    <2>5. CoversIn(epochs, Due(u), hb[u]) BY <2>1, <2>2 DEF DueInv
    <2> QED BY <2>1, <2>3, <2>4, <2>5, CoversMore DEF HbInv, TypeOK
  <1> QED BY <1>1, <1>2, <1>3 DEF DueInv

\* A callback that goes on to a release leaves t's clock there; of a thread that is
\* running, that clock has all that happens before.
LEMMA RunCovered ==
  ASSUME StepHyp, HbInv, DueInv, NEW t \in Thread, pc[t] = "run"
  PROVE  /\ CoversIn(epochs, vc[t], hb[t])
         /\ \A c \in Clock : HappensBefore(vc[t], c) => CoversIn(epochs, c, hb[t])
  <1>1. Due(t) = vc[t] /\ ~Orphan(t) BY DEF Due, BarPC, Orphan
  <1>2. CoversIn(epochs, vc[t], hb[t]) BY <1>1 DEF DueInv
  <1> QED BY <1>2, CoversMore DEF StepHyp, TypeOK, HbInv

\* The callback before an unlock, or before a wait, leaves the thread's clock with the
\* mutex, which no one else writes while the thread holds it.
LEMMA CallbackMutex ==
  ASSUME StepHyp, HbInv, DueInv, MutexCover, NEW t \in Thread, Callback(t)
  PROVE  MutexCover'
  <1> USE DEF StepHyp
  <1>1. /\ UNCHANGED <<epochs, hb, hbMutex, holder>>
        /\ \A u \in Thread \ {t} : pc'[u] = pc[u] /\ arg'[u] = arg[u]
    BY CallbackFrame
  <1>2. \A m \in Mutex : holder[m] # t => mutexVc'[m] = mutexVc[m] BY CallbackObjects
  <1>3. ASSUME NEW m \in Mutex, holder[m] = NoThread PROVE CoversIn(epochs, mutexVc'[m], hbMutex[m])
    BY <1>2, <1>3, NullAssumption DEF MutexCover
  <1>4. ASSUME NEW u \in Thread \ {t}, pc[u] \in {"unlocking", "condEnter"}
        PROVE  CoversIn(epochs, mutexVc'[arg[u]], hb[u])
    <2>1. arg[u] \in Mutex /\ holder[arg[u]] = u
      BY <1>4, CondAssumption DEF CallInv, CondPC
    <2> QED BY <1>2, <1>4, <2>1 DEF MutexCover
  <1>5. ASSUME pc'[t] \in {"unlocking", "condEnter"}
        PROVE  CoversIn(epochs, mutexVc'[arg'[t]], hb[t])
    <2>1. (\E m \in Mutex : BeforePthreadMutexUnlock(t, m)) \/ BeforePthreadCondWait(t)
      BY <1>5 DEF Callback, ThreadStart, AfterPthreadJoin, AfterPthreadMutexLock, AfterPthreadRwlock,
         BeforePthreadRwlockUnlock, ProcessNotify, AfterPthreadCondWait, BeforePthreadBarrierWait,
         AfterPthreadBarrierWait, BeforeSemPost, AfterSemWait, TypeOK, Move, Goto
    <2>2. pc[t] = "run" /\ mutexVc'[arg'[t]] = vc[t]
      BY <2>1, CondAssumption DEF BeforePthreadMutexUnlock, BeforePthreadCondWait, TypeOK, Move, Goto
    <2> QED BY <2>2, RunCovered
  <1> QED BY <1>1, <1>3, <1>4, <1>5 DEF MutexCover

\* A release of the rwlock adds to what has been collected, and a writer, who is alone,
\* publishes it.
LEMMA CallbackRw ==
  ASSUME StepHyp, HbInv, DueInv, RwCover, NEW t \in Thread, Callback(t)
  PROVE  RwCover'
  <1> USE DEF StepHyp
  <1>1. /\ UNCHANGED <<epochs, hb, hbWriter, hbReaders, writer>>
        /\ \A u \in Thread \ {t} : pc'[u] = pc[u]
    BY CallbackFrame
  <1>2. HappensBefore(rwVc, rwVc') BY CallbackObjects
  <1>a. /\ rwVc \in Clock /\ rwVc' \in Clock /\ rwWait \in Clock /\ rwWait' \in Clock
        /\ vc[t] \in Clock
        /\ hbWriter \in Clock /\ hbReaders \in Clock /\ \A u \in Thread : hb[u] \in Clock
    BY DEF TypeOK
  <1>b. /\ Join(rwVc, rwWait) \in Clock /\ Join(rwVc', rwWait') \in Clock
        /\ Join(rwWait, vc[t]) \in Clock
    BY <1>a, ClockOrder
  <1>3. CASE BeforePthreadRwlockUnlock(t)
    <2> DEFINE wait == Join(rwWait, vc[t])
    <2>1. /\ pc[t] = "run" /\ t \in RwCounted /\ rwRef = Cardinality(RwCounted)
          /\ rwRef' = rwRef - 1
          /\ rwVc' = IF rwRef' = 0 THEN wait ELSE rwVc
          /\ rwWait' = IF rwRef' = 0 THEN Zero ELSE wait
      BY <1>3 DEF BeforePthreadRwlockUnlock, ReleaseCounted, RwCounted, Move, CountInv
    <2>2. /\ HappensBefore(rwWait, wait) /\ HappensBefore(vc[t], wait) BY <1>a, ClockOrder
    <2> HIDE DEF wait
    <2>3. HappensBefore(rwVc, wait)
      <3>1. HappensBefore(rwVc, vc[t]) BY <2>1 DEF RwKnown
      <3>2. wait \in Clock BY <1>b DEF wait
      <3> QED BY <1>a, <2>2, <3>1, <3>2, ClockOrder
    <2>4. /\ HappensBefore(Join(rwVc, rwWait), Join(rwVc', rwWait'))
          /\ HappensBefore(vc[t], Join(rwVc', rwWait'))
      <3>0. wait \in Clock BY <1>b DEF wait
      <3>1. HappensBefore(wait, Join(rwVc', rwWait'))
        BY <1>a, <2>1, <3>0, ClockOrder
      <3>2. HappensBefore(Join(rwVc, rwWait), wait)
        BY <1>a, <2>2, <2>3, <3>0, ClockOrder
      <3> QED BY <1>a, <1>b, <2>2, <3>0, <3>1, <3>2, ClockOrder
    <2>5. writer = t => HappensBefore(vc[t], rwVc')
      <3>1. SUFFICES ASSUME writer = t PROVE rwRef' = 0 BY <2>1, <2>2
      <3>2. readers = {} BY <3>1, NullAssumption DEF CallInv
      <3>3. RwCounted = {t} BY <2>1, <3>1, <3>2 DEF RwCounted
      <3>4. Cardinality({t}) = 1 BY FS_Singleton
      <3> QED BY <2>1, <3>3, <3>4
    <2>6. /\ HappensBefore(Join(rwVc, rwWait), Join(rwVc', rwWait'))
          /\ pc'[t] = "rwUnlocking" =>
               IF writer = t THEN CoversIn(epochs, rwVc', hb[t])
               ELSE CoversIn(epochs, Join(rwVc', rwWait'), hb[t])
      BY <1>a, <1>b, <2>1, <2>4, <2>5, RunCovered
    <2>7. ASSUME NEW h \in Clock, MadeIn(epochs, h)
          PROVE  /\ CoversIn(epochs, rwVc, h) => CoversIn(epochs, rwVc', h)
                 /\ CoversIn(epochs, Join(rwVc, rwWait), h) => CoversIn(epochs, Join(rwVc', rwWait'), h)
      BY <1>a, <1>b, <1>2, <2>4, <2>7, CoversMore
    <2>8. CoversIn(epochs, rwVc', hbWriter) /\ CoversIn(epochs, Join(rwVc', rwWait'), hbReaders)
      BY <1>a, <2>7 DEF RwCover, HbInv
    <2>9. ASSUME NEW u \in Thread, pc'[u] = "rwUnlocking"
          PROVE  IF writer = u THEN CoversIn(epochs, rwVc', hb[u])
                 ELSE CoversIn(epochs, Join(rwVc', rwWait'), hb[u])
      <3>1. CASE u = t BY <2>6, <2>9, <3>1
      <3>2. CASE u # t
        <4>1. pc[u] = "rwUnlocking" BY <1>1, <2>9, <3>2
        <4>2. hb[u] \in Clock /\ MadeIn(epochs, hb[u]) BY <1>a DEF HbInv
        <4> QED BY <2>7, <4>1, <4>2 DEF RwCover
      <3> QED BY <3>1, <3>2
    <2> QED BY <1>1, <2>8, <2>9 DEF RwCover
  <1>4. CASE ~BeforePthreadRwlockUnlock(t)
    <2>1. UNCHANGED <<rwVc, rwWait>> /\ pc'[t] # "rwUnlocking"
      <3> USE DEF TypeOK, Move, Goto, rwVars
      <3>1. CASE \E there \in {"run", "pruning"} : AfterPthreadJoin(t, there)
        BY <3>1 DEF AfterPthreadJoin
      <3>2. CASE \/ ThreadStart(t) \/ AfterPthreadMutexLock(t) \/ AfterPthreadRwlock(t)
                 \/ \E m \in Mutex : BeforePthreadMutexUnlock(t, m)
        BY <3>2 DEF ThreadStart, AfterPthreadMutexLock, AfterPthreadRwlock, BeforePthreadMutexUnlock
      <3>3. CASE BeforePthreadCondWait(t) \/ ProcessNotify(t) \/ AfterPthreadCondWait(t)
        BY <3>3 DEF BeforePthreadCondWait, ProcessNotify, AfterPthreadCondWait
      <3>4. CASE \/ BeforePthreadBarrierWait(t) \/ AfterPthreadBarrierWait(t)
                 \/ BeforeSemPost(t) \/ AfterSemWait(t)
        BY <3>4 DEF BeforePthreadBarrierWait, AfterPthreadBarrierWait, BeforeSemPost, AfterSemWait
      <3> QED BY <1>4, <3>1, <3>2, <3>3, <3>4 DEF Callback
    <2> QED BY <1>1, <2>1 DEF RwCover
  <1> QED BY <1>3, <1>4

\* Whoever is counted after a callback was before it, or has just learnt all that
\* has been published; what the last one to leave publishes, no one is left to know.
LEMMA CallbackKnown ==
  ASSUME StepHyp, NEW t \in Thread, Callback(t)
  PROVE  RwKnown'
  <1> USE DEF StepHyp
  <1>1. /\ UNCHANGED <<writer, readers>>
        /\ \A u \in Thread \ {t} : pc'[u] = pc[u]
    BY CallbackFrame
  <1>a. rwVc \in Clock /\ rwVc' \in Clock /\ vc \in [Thread -> Clock] /\ vc' \in [Thread -> Clock]
    BY DEF TypeOK
  <1>2. ASSUME NEW u \in RwCounted PROVE HappensBefore(rwVc, vc[u]) /\ HappensBefore(rwVc, vc'[u])
    <2>1. u \in Thread /\ pc[u] \notin {"starting", "reaped"} BY DEF RwCounted, CallInv
    <2>2. HappensBefore(vc[u], vc'[u]) BY <2>1, CallbackVc
    <2>3. HappensBefore(rwVc, vc[u]) BY DEF RwKnown
    <2> QED BY <1>a, <2>1, <2>2, <2>3, ClockOrder
  <1>3. CASE BeforePthreadRwlockUnlock(t)
    <2>1. /\ t \in RwCounted /\ rwRef = Cardinality(RwCounted) /\ pc'[t] = "rwUnlocking"
          /\ rwRef' = rwRef - 1
          /\ rwRef' # 0 => rwVc' = rwVc
      BY <1>3 DEF BeforePthreadRwlockUnlock, ReleaseCounted, RwCounted, Move, Goto, CountInv, TypeOK
    <2>2. ASSUME NEW u \in RwCounted' PROVE HappensBefore(rwVc', vc'[u])
      <3>1. u \in RwCounted /\ u # t BY <1>1, <2>1, <2>2 DEF RwCounted
      <3>2. rwRef' # 0
        <4>1. RwCounted \in SUBSET Thread BY DEF RwCounted
        <4>2. ASSUME Cardinality(RwCounted) = 1 PROVE FALSE
          <5>1. RwCounted = {t} BY <2>1, <4>1, <4>2, OneMore
          <5> QED BY <3>1, <5>1
        <4> QED BY <2>1, <4>2 DEF TypeOK
      <3> QED BY <1>2, <2>1, <3>1, <3>2
    <2> QED BY <2>2 DEF RwKnown
  <1>4. CASE AfterPthreadRwlock(t)
    <2>1. rwVc' = rwVc /\ vc'[t] = Join(vc[t], rwVc)
      BY <1>4, <1>a DEF AfterPthreadRwlock, SetVc
    <2>2. ASSUME NEW u \in RwCounted' PROVE HappensBefore(rwVc', vc'[u])
      <3>1. CASE u = t BY <1>a, <2>1, <3>1, ClockOrder
      <3>2. CASE u # t
        <4>1. u \in RwCounted BY <1>1, <2>2, <3>2 DEF RwCounted
        <4> QED BY <1>2, <2>1, <4>1
      <3> QED BY <3>1, <3>2
    <2> QED BY <2>2 DEF RwKnown
  <1>5. CASE ~BeforePthreadRwlockUnlock(t) /\ ~AfterPthreadRwlock(t)
    <2>1. rwVc' = rwVc /\ pc[t] \notin {"rdLocked", "wrLocked", "rwUnlocking"}
      <3> USE DEF TypeOK, Move, Goto, rwVars
      <3>1. CASE \E there \in {"run", "pruning"} : AfterPthreadJoin(t, there)
        BY <3>1 DEF AfterPthreadJoin
      <3>2. CASE \/ ThreadStart(t) \/ AfterPthreadMutexLock(t)
                 \/ \E m \in Mutex : BeforePthreadMutexUnlock(t, m)
        BY <3>2 DEF ThreadStart, AfterPthreadMutexLock, BeforePthreadMutexUnlock
      <3>3. CASE BeforePthreadCondWait(t) \/ ProcessNotify(t) \/ AfterPthreadCondWait(t)
        BY <3>3 DEF BeforePthreadCondWait, ProcessNotify, AfterPthreadCondWait
      <3>4. CASE \/ BeforePthreadBarrierWait(t) \/ AfterPthreadBarrierWait(t)
                 \/ BeforeSemPost(t) \/ AfterSemWait(t)
        BY <3>4 DEF BeforePthreadBarrierWait, AfterPthreadBarrierWait, BeforeSemPost, AfterSemWait
      <3> QED BY <1>5, <3>1, <3>2, <3>3, <3>4 DEF Callback
    <2>2. RwCounted' \subseteq RwCounted BY <1>1, <2>1 DEF RwCounted
    <2>3. ASSUME NEW u \in RwCounted' PROVE HappensBefore(rwVc', vc'[u])
      BY <1>2, <2>1, <2>2
    <2> QED BY <2>3 DEF RwKnown
  <1> QED BY <1>3, <1>4, <1>5

\* Whoever comes to the barrier leaves its clock there; the barrier is cleared when
\* nobody is in it.
LEMMA CallbackBar ==
  ASSUME StepHyp, HbInv, DueInv, BarCover, NEW t \in Thread, Callback(t)
  PROVE  BarCover'
  <1> USE DEF StepHyp
  <1>1. /\ UNCHANGED <<epochs, hb>>
        /\ \A u \in Thread \ {t} : pc'[u] = pc[u]
    BY CallbackFrame
  <1>a. barVc \in Clock /\ barVc' \in Clock /\ vc[t] \in Clock /\ \A u \in Thread : hb[u] \in Clock
    BY DEF TypeOK
  <1>2. ASSUME NEW u \in InBarrier', u # t PROVE CoversIn(epochs, barVc', hb[u])
    <2>1. u \in InBarrier /\ u \in Thread BY <1>1, <1>2 DEF InBarrier
    <2>2. HappensBefore(barVc, barVc') BY <1>2, <2>1, CallbackObjects
    <2>3. CoversIn(epochs, barVc, hb[u]) BY <2>1 DEF BarCover
    <2> QED BY <1>a, <2>1, <2>2, <2>3, CoversMore DEF HbInv
  <1>3. ASSUME t \in InBarrier' PROVE CoversIn(epochs, barVc', hb[t])
    <2>1. BeforePthreadBarrierWait(t)
      BY <1>3 DEF InBarrier, BarPC, Callback, ThreadStart, AfterPthreadJoin, AfterPthreadMutexLock,
         AfterPthreadRwlock, BeforePthreadRwlockUnlock, ProcessNotify, AfterPthreadCondWait,
         AfterPthreadBarrierWait, BeforeSemPost, AfterSemWait, BeforePthreadMutexUnlock,
         BeforePthreadCondWait, TypeOK, Move, Goto
    <2>2. pc[t] = "run" /\ barVc' = Join(barVc, vc[t])
      BY <2>1 DEF BeforePthreadBarrierWait, Move
    <2>3. HappensBefore(vc[t], barVc') BY <1>a, <2>2, ClockOrder
    <2> QED BY <1>a, <2>2, <2>3, RunCovered
  <1> QED BY <1>1, <1>2, <1>3 DEF BarCover, InBarrier

\* A post leaves the thread's clock with the semaphore, and nothing takes it away.
LEMMA CallbackSem ==
  ASSUME StepHyp, HbInv, DueInv, SemCover, NEW t \in Thread, Callback(t)
  PROVE  SemCover'
  <1> USE DEF StepHyp
  <1>1. /\ UNCHANGED <<epochs, hb, hbSem>>
        /\ \A u \in Thread \ {t} : pc'[u] = pc[u]
    BY CallbackFrame
  <1>a. /\ semVc \in Clock /\ semVc' \in Clock /\ hbSem \in Clock /\ vc[t] \in Clock
        /\ \A u \in Thread : hb[u] \in Clock
    BY DEF TypeOK
  <1>2. HappensBefore(semVc, semVc') BY CallbackObjects
  <1>3. ASSUME NEW h \in Clock, MadeIn(epochs, h), CoversIn(epochs, semVc, h)
        PROVE  CoversIn(epochs, semVc', h)
    BY <1>a, <1>2, <1>3, CoversMore
  <1>4. CoversIn(epochs, semVc', hbSem) BY <1>a, <1>3 DEF HbInv, SemCover
  <1>5. ASSUME NEW u \in Thread \ {t}, pc'[u] = "semPosting" PROVE CoversIn(epochs, semVc', hb[u])
    BY <1>1, <1>a, <1>3, <1>5 DEF HbInv, SemCover
  <1>6. ASSUME pc'[t] = "semPosting" PROVE CoversIn(epochs, semVc', hb[t])
    <2>1. BeforeSemPost(t)
      BY <1>6 DEF Callback, ThreadStart, AfterPthreadJoin, AfterPthreadMutexLock,
         AfterPthreadRwlock, BeforePthreadRwlockUnlock, ProcessNotify, AfterPthreadCondWait,
         AfterPthreadBarrierWait, BeforePthreadBarrierWait, AfterSemWait, BeforePthreadMutexUnlock,
         BeforePthreadCondWait, TypeOK, Move, Goto
    <2>2. pc[t] = "run" /\ semVc' = Join(semVc, vc[t])
      BY <2>1 DEF BeforeSemPost, Move
    <2>3. HappensBefore(vc[t], semVc') BY <1>a, <2>2, ClockOrder
    <2> QED BY <1>a, <2>2, <2>3, RunCovered
  <1> QED BY <1>1, <1>4, <1>5, <1>6 DEF SemCover

\* A signaller leaves its clock for every waiter; no one signals while another
\* signaller, who holds the mutex, is about to.
LEMMA CallbackCond ==
  ASSUME StepHyp, HbInv, DueInv, CondCover, NEW t \in Thread, Callback(t)
  PROVE  CondCover'
  <1> USE DEF StepHyp
  <1>1. /\ UNCHANGED <<epochs, hb>>
        /\ \A u \in Thread \ {t} : pc'[u] = pc[u]
    BY CallbackFrame
  <1>a. /\ signalTable \in [Thread -> Clock] /\ signalTable' \in [Thread -> Clock]
        /\ waitTable \in [Thread -> Clock] /\ vc[t] \in Clock
        /\ \A u \in Thread : hb[u] \in Clock
    BY DEF TypeOK
  <1>2. pc'[t] # "condWait" /\ (pc'[t] = "signalling" => ProcessNotify(t))
    BY DEF Callback, ThreadStart, AfterPthreadJoin, AfterPthreadMutexLock,
       AfterPthreadRwlock, BeforePthreadRwlockUnlock, BeforeSemPost, AfterPthreadCondWait,
       AfterPthreadBarrierWait, BeforePthreadBarrierWait, AfterSemWait, BeforePthreadMutexUnlock,
       BeforePthreadCondWait, ProcessNotify, TypeOK, Move, Goto
  <1>3. ASSUME NEW w \in Thread, pc'[w] = "signalling", NEW u \in Thread, pc'[u] = "condWait"
        PROVE  CoversIn(epochs, signalTable'[u], hb[w])
    <2>1. u # t /\ pc[u] = "condWait" BY <1>1, <1>2, <1>3
    <2>2. CASE w = t
      <3> DEFINE c == JoinAll(vc[t], waitTable, Waiting)
      <3>1. pc[t] = "run" /\ signalTable' = [v \in Thread |-> IF v \in Waiting THEN c ELSE signalTable[v]]
        BY <1>2, <1>3, <2>2 DEF ProcessNotify, Move
      <3>2. c \in Clock /\ HappensBefore(vc[t], c)
        <4>1. Waiting \in SUBSET Thread BY DEF Waiting
        <4> QED BY <1>a, <4>1, JoinAllProp DEF HappensBefore
      <3>3. u \in Waiting BY <2>1 DEF Waiting, CallInv, CondPC
      <3> HIDE DEF c
      <3>4. signalTable'[u] = c BY <3>1, <3>3
      <3> QED BY <2>2, <3>1, <3>2, <3>4, RunCovered
    <2>3. CASE w # t
      <3>1. pc[w] = "signalling" BY <1>1, <1>3, <2>3
      <3>2. CoversIn(epochs, signalTable[u], hb[w]) BY <2>1, <3>1 DEF CondCover
      <3>3. HappensBefore(signalTable[u], signalTable'[u]) BY <2>1, CallbackObjects
      <3> QED BY <1>a, <3>2, <3>3, CoversMore DEF HbInv
    <2> QED BY <2>2, <2>3
  <1> QED BY <1>1, <1>3 DEF CondCover

\* A callback of a thread that does not hold the mutex changes nothing of this; one
\* that does hands on what it knows through the mutex's clock, or learns it there.
LEMMA CallbackSignals ==
  ASSUME StepHyp, NEW t \in Thread, Callback(t)
  PROVE  SignalsKnown'
  <1> USE DEF StepHyp
  <1> DEFINE M == CondMutex
             Others == \/ ThreadStart(t) \/ AfterPthreadRwlock(t) \/ BeforePthreadRwlockUnlock(t)
                       \/ \E there \in {"run", "pruning"} : AfterPthreadJoin(t, there)
                       \/ BeforePthreadBarrierWait(t) \/ AfterPthreadBarrierWait(t)
                       \/ BeforeSemPost(t) \/ AfterSemWait(t)
  <1>1. /\ UNCHANGED holder
        /\ \A w \in Thread \ {t} : pc'[w] = pc[w] /\ arg'[w] = arg[w]
    BY CallbackFrame
  <1>a. /\ vc \in [Thread -> Clock] /\ vc' \in [Thread -> Clock]
        /\ signalTable \in [Thread -> Clock] /\ signalTable' \in [Thread -> Clock]
        /\ waitTable \in [Thread -> Clock]
        /\ mutexVc \in [Mutex -> Clock] /\ mutexVc' \in [Mutex -> Clock]
        /\ mutexVc[M] \in Clock /\ mutexVc'[M] \in Clock
        /\ arg \in [Thread -> Mutex \cup Thread \cup {NoArg}] /\ pc \in [Thread -> PC]
    BY CondAssumption DEF TypeOK
  <1>2. ASSUME holder[M] # t PROVE signalTable' = signalTable /\ mutexVc'[M] = mutexVc[M]
    <2>1. mutexVc'[M] = mutexVc[M] BY <1>2, CallbackObjects, CondAssumption
    <2>2. ~ProcessNotify(t) BY <1>2 DEF ProcessNotify, MaySignal
    <2>3. ~AfterPthreadCondWait(t) BY <1>2 DEF AfterPthreadCondWait, Move, CallInv, CondPC
    <2>4. CASE \E there \in {"run", "pruning"} : AfterPthreadJoin(t, there)
      BY <2>1, <2>4 DEF AfterPthreadJoin, condVars
    <2>5. CASE \/ ThreadStart(t) \/ AfterPthreadMutexLock(t) \/ AfterPthreadRwlock(t)
               \/ BeforePthreadRwlockUnlock(t) \/ \E m \in Mutex : BeforePthreadMutexUnlock(t, m)
      BY <2>1, <2>5 DEF ThreadStart, AfterPthreadMutexLock, AfterPthreadRwlock,
         BeforePthreadRwlockUnlock, BeforePthreadMutexUnlock, condVars
    <2>6. CASE \/ BeforePthreadCondWait(t) \/ BeforePthreadBarrierWait(t) \/ AfterPthreadBarrierWait(t)
               \/ BeforeSemPost(t) \/ AfterSemWait(t)
      BY <2>1, <2>6 DEF BeforePthreadCondWait, BeforePthreadBarrierWait, AfterPthreadBarrierWait,
         BeforeSemPost, AfterSemWait, condVars
    <2> QED BY <2>2, <2>3, <2>4, <2>5, <2>6 DEF Callback
  <1>3. ASSUME NEW u \in Thread, holder[M] = NoThread
        PROVE  HappensBefore(signalTable'[u], mutexVc'[M])
    BY <1>2, <1>3, NullAssumption DEF SignalsKnown
  <1>4. ASSUME NEW u \in Thread, NEW w \in Thread \ {t}, holder[M] = w
        PROVE  IF Passing(w)' THEN HappensBefore(signalTable'[u], mutexVc'[M])
               ELSE HappensBefore(signalTable'[u], vc'[w])
    <2>1. signalTable'[u] = signalTable[u] /\ mutexVc'[M] = mutexVc[M] BY <1>2, <1>4
    <2>2. Passing(w)' = Passing(w) BY <1>1 DEF Passing
    <2>3. pc[w] \notin {"starting", "reaped"} BY <1>4, CondAssumption DEF CallInv
    <2>4. HappensBefore(vc[w], vc'[w]) BY <2>3, CallbackVc
    <2>5. IF Passing(w) THEN HappensBefore(signalTable[u], mutexVc[M])
          ELSE HappensBefore(signalTable[u], vc[w])
      BY <1>4 DEF SignalsKnown
    <2> QED BY <1>a, <2>1, <2>2, <2>4, <2>5, ClockOrder
  <1>5. ASSUME NEW u \in Thread, holder[M] = t
        PROVE  IF Passing(t)' THEN HappensBefore(signalTable'[u], mutexVc'[M])
               ELSE HappensBefore(signalTable'[u], vc'[t])
    <2>1. IF Passing(t) THEN HappensBefore(signalTable[u], mutexVc[M])
          ELSE HappensBefore(signalTable[u], vc[t])
      BY <1>5 DEF SignalsKnown
    <2>2. pc[t] \notin {"starting", "reaped"} BY <1>5, CondAssumption DEF CallInv
    <2>3. HappensBefore(vc[t], vc'[t]) BY <2>2, CallbackVc
    <2>a. /\ signalTable[u] \in Clock /\ signalTable'[u] \in Clock
          /\ vc[t] \in Clock /\ vc'[t] \in Clock
      BY <1>a
    <2>4. CASE AfterPthreadMutexLock(t)
      <3>1. /\ pc[t] = "locked" /\ pc'[t] = "run" /\ signalTable' = signalTable
            /\ vc'[t] = Join(vc[t], mutexVc[arg[t]]) /\ arg[t] \in Mutex
        BY <1>a, <2>4 DEF AfterPthreadMutexLock, SetVc, Move, Goto, condVars, CallInv
      <3>2. HappensBefore(mutexVc[arg[t]], vc'[t]) BY <1>a, <3>1, ClockOrder
      <3> QED BY <1>a, <2>a, <2>1, <2>3, <3>1, <3>2, ClockOrder DEF Passing
    <2>5. CASE AfterPthreadCondWait(t)
      <3>1. /\ pc[t] = "condLocked" /\ pc'[t] = "run" /\ arg[t] = M
            /\ signalTable'[u] = signalTable[u] \/ signalTable'[u] = Zero
        BY <1>a, <2>5 DEF AfterPthreadCondWait, Move, Goto, CallInv, CondPC
      <3>2. HappensBefore(mutexVc[M], vc'[t])
        <4>1. vc'[t] = Join(Join(vc[t], signalTable[t]), mutexVc[M])
          BY <1>a, <2>5, <3>1 DEF AfterPthreadCondWait, SetVc
        <4>2. PICK c \in Clock : c = Join(vc[t], signalTable[t]) BY <1>a, ClockOrder
        <4>3. vc'[t] = Join(c, mutexVc[M]) BY <4>1, <4>2
        <4> QED BY <1>a, <4>3, ClockOrder
      <3> QED BY <1>a, <2>a, <2>1, <3>1, <3>2, ClockOrder DEF Passing
    <2>6. ASSUME NEW m \in Mutex, BeforePthreadMutexUnlock(t, m)
          PROVE  IF Passing(t)' THEN HappensBefore(signalTable'[u], mutexVc'[M])
                 ELSE HappensBefore(signalTable'[u], vc'[t])
      <3>1. /\ pc[t] = "run" /\ signalTable' = signalTable
            /\ pc'[t] = "unlocking" /\ arg'[t] = m /\ mutexVc'[m] = vc[t]
        BY <1>a, <2>6 DEF BeforePthreadMutexUnlock, Move, Goto, condVars
      <3> QED BY <2>a, <2>1, <2>3, <3>1, ClockOrder DEF Passing
    <2>7. CASE BeforePthreadCondWait(t)
      <3>1. /\ pc[t] = "run" /\ signalTable' = signalTable
            /\ pc'[t] = "condEnter" /\ arg'[t] = M /\ mutexVc'[M] = vc[t]
        BY <1>a, <2>7, CondAssumption DEF BeforePthreadCondWait, Move, Goto
      <3> QED BY <2>1, <3>1 DEF Passing
    <2>8. CASE ProcessNotify(t)
      <3> DEFINE c == JoinAll(vc[t], waitTable, Waiting)
      <3>1. /\ pc[t] = "run" /\ pc'[t] = "signalling"
            /\ signalTable'[u] = c \/ signalTable'[u] = signalTable[u]
            /\ vc'[t] = Increment(c, t)
        BY <1>a, <2>8 DEF ProcessNotify, Move, Goto, SetVc, SetVcInc
      <3>2. c \in Clock
        <4>1. Waiting \in SUBSET Thread BY DEF Waiting
        <4> QED BY <1>a, <4>1, JoinAllProp
      <3> HIDE DEF c
      <3>3. HappensBefore(c, vc'[t]) BY <3>1, <3>2, ClockOrder
      <3> QED BY <2>a, <2>1, <2>3, <3>1, <3>3, ClockOrder DEF Passing
    <2>9. CASE Others
      <3>1. /\ signalTable' = signalTable
            /\ pc[t] \notin {"locked", "condLocked", "unlocking", "condEnter"}
            /\ pc'[t] \notin {"locked", "condLocked", "unlocking", "condEnter"}
        <4> USE DEF Move, Goto, condVars
        <4>1. CASE \E there \in {"run", "pruning"} : AfterPthreadJoin(t, there)
          BY <1>a, <4>1 DEF AfterPthreadJoin
        <4>2. CASE ThreadStart(t) \/ AfterPthreadRwlock(t) \/ BeforePthreadRwlockUnlock(t)
          BY <1>a, <4>2 DEF ThreadStart, AfterPthreadRwlock, BeforePthreadRwlockUnlock
        <4>3. CASE \/ BeforePthreadBarrierWait(t) \/ AfterPthreadBarrierWait(t)
                   \/ BeforeSemPost(t) \/ AfterSemWait(t)
          BY <1>a, <4>3 DEF BeforePthreadBarrierWait, AfterPthreadBarrierWait, BeforeSemPost, AfterSemWait
        <4> QED BY <2>9, <4>1, <4>2, <4>3
      <3> QED BY <2>a, <2>1, <2>3, <3>1, ClockOrder DEF Passing
    <2> QED BY <2>4, <2>5, <2>6, <2>7, <2>8, <2>9 DEF Callback
  <1> QED BY <1>1, <1>3, <1>4, <1>5 DEF SignalsKnown

-----------------------------------------------------------------------------
(* The pthread steps: the truth changes, the clocks do not. *)

\* The pthread steps but the memory access.
Real(t) == Silent(t) /\ ~Touch(t)

\* What such a step may do to a thread other than the one that takes it.
LEMMA RealOthers ==
  ASSUME TypeOK, CallInv, NEW t \in Thread, Real(t), NEW u \in Thread \ {t}
  PROVE  \/ pc'[u] = pc[u] /\ arg'[u] = arg[u] /\ hb'[u] = hb[u]
         \/ RealCreate(t, u) /\ pc[u] = "unborn" /\ pc'[u] = "starting"
         \/ pc[u] = "exited" /\ pc'[u] = "reaped"
         \/ RealCondSignal(t) /\ pc[u] = "condWait" /\ pc'[u] = "condWoken"
         \/ RealBarrierWait(t) /\ pc[u] = "barrier" /\ pc'[u] = "barrierOpen"
  <1> USE DEF TypeOK, Move, Goto, Learn
  <1>1. ASSUME NEW c \in Thread, RealCreate(t, c)
        PROVE  \/ pc'[u] = pc[u] /\ arg'[u] = arg[u] /\ hb'[u] = hb[u]
               \/ RealCreate(t, u) /\ pc[u] = "unborn" /\ pc'[u] = "starting"
    <2>1. CASE u = c BY <1>1, <2>1 DEF RealCreate
    <2>2. CASE u # c BY <1>1, <2>2 DEF RealCreate
    <2> QED BY <2>1, <2>2
  <1>2. CASE \E c \in Thread : RealJoin(t, c) BY <1>2 DEF RealJoin
  <1>3. CASE RealCondSignal(t) BY <1>3 DEF RealCondSignal
  <1>4. CASE RealBarrierWait(t)
    <2>1. \A w \in arrived : pc[w] = "barrier" BY DEF CallInv
    <2> QED BY <1>4, <2>1 DEF RealBarrierWait
  <1>5. CASE \/ \E m \in Mutex : RealMutexLock(t, m)
             \/ ThreadExit(t) \/ Prune(t) \/ RealMutexUnlock(t)
    BY <1>5 DEF RealMutexLock, ThreadExit, Prune, RealMutexUnlock
  <1>6. CASE \/ RealRwlockRdlock(t) \/ RealRwlockWrlock(t) \/ RealRwlockUnlock(t)
             \/ RealSemPost(t) \/ RealSemWait(t)
             \/ RealCondWait(t) \/ RealCondTimeout(t) \/ RealCondReturn(t)
    BY <1>6 DEF RealRwlockRdlock, RealRwlockWrlock, RealRwlockUnlock, RealSemPost, RealSemWait,
       RealCondWait, RealCondTimeout, RealCondReturn
  <1> QED BY <1>1, <1>2, <1>3, <1>4, <1>5, <1>6 DEF Real, Silent

\* Where the thread that takes it may go: never to where a callback has left
\* something for a release.
LEMMA RealOwn ==
  ASSUME TypeOK, CallInv, NEW t \in Thread, Real(t)
  PROVE  /\ pc[t] \notin {"unborn", "starting", "exited", "reaped"}
         /\ pc'[t] \notin {"unborn", "starting", "unlocking", "condEnter", "rwUnlocking", "signalling",
                           "semPosting", "reaped"}
         /\ pc'[t] = "condWait" => RealCondWait(t)
         /\ pc'[t] \in BarPC => RealBarrierWait(t) /\ pc[t] \in BarPC
         /\ pc[t] = "rwUnlocking" => RealRwlockUnlock(t)
         /\ pc[t] \notin {"rdLocked", "wrLocked"}
         /\ UNCHANGED clocks /\ UNCHANGED epochs
  <1> USE DEF TypeOK, Move, Goto, BarPC
  <1>a. UNCHANGED clocks BY SilentClocks DEF Real
  <1>1. CASE \E c \in Thread : RealCreate(t, c) \/ RealJoin(t, c)
    BY <1>a, <1>1 DEF RealCreate, RealJoin
  <1>2. CASE RealCondSignal(t) BY <1>a, <1>2 DEF RealCondSignal
  <1>3. CASE RealBarrierWait(t) BY <1>a, <1>3 DEF RealBarrierWait
  <1>4. CASE \/ \E m \in Mutex : RealMutexLock(t, m)
             \/ ThreadExit(t) \/ Prune(t) \/ RealMutexUnlock(t)
    BY <1>a, <1>4 DEF RealMutexLock, ThreadExit, Prune, RealMutexUnlock
  <1>5. CASE \/ RealRwlockRdlock(t) \/ RealRwlockWrlock(t) \/ RealRwlockUnlock(t)
             \/ RealSemPost(t) \/ RealSemWait(t)
    BY <1>a, <1>5 DEF RealRwlockRdlock, RealRwlockWrlock, RealRwlockUnlock, RealSemPost, RealSemWait
  <1>6. CASE RealCondWait(t) \/ RealCondTimeout(t) \/ RealCondReturn(t)
    BY <1>a, <1>6 DEF RealCondWait, RealCondTimeout, RealCondReturn
  <1> QED BY <1>1, <1>2, <1>3, <1>4, <1>5, <1>6 DEF Real, Silent

\* What a step does to what the releases hand on.
LEMMA RealObjects ==
  ASSUME TypeOK, CallInv, NEW t \in Thread, Real(t)
  PROVE  /\ \A m \in Mutex :
              \/ hbMutex'[m] = hbMutex[m] /\ holder'[m] = holder[m]
              \/ hbMutex'[m] = hbMutex[m] /\ holder[m] = NoThread /\ holder'[m] = t
              \/ /\ pc[t] \in {"unlocking", "condEnter"} /\ arg[t] = m
                 /\ hbMutex'[m] = hb[t] /\ holder'[m] = NoThread
         /\ \/ UNCHANGED <<hbWriter, hbReaders, readers, writer>>
            \/ /\ UNCHANGED <<hbWriter, hbReaders>> /\ writer = NoThread
               /\ writer' \in {NoThread, t} /\ readers' \subseteq readers \cup {t}
               /\ pc'[t] \in {"rdLocked", "wrLocked"}
            \/ RealRwlockUnlock(t)
         /\ hbSem' = hbSem \/ (RealSemPost(t) /\ pc[t] = "semPosting" /\ hbSem' = Join(hbSem, hb[t]))
  <1> USE DEF TypeOK, Move, Goto, lockVars, rwVars, semVars
  <1>1. CASE \E c \in Thread : RealCreate(t, c) \/ RealJoin(t, c)
    BY <1>1 DEF RealCreate, RealJoin
  <1>2. CASE RealCondSignal(t) \/ RealBarrierWait(t) BY <1>2 DEF RealCondSignal, RealBarrierWait
  <1>3. CASE ThreadExit(t) \/ Prune(t) \/ RealCondTimeout(t) \/ RealSemPost(t) \/ RealSemWait(t)
    BY <1>3 DEF ThreadExit, Prune, RealCondTimeout, RealSemPost, RealSemWait
  <1>4. CASE \E m \in Mutex : RealMutexLock(t, m)
    BY <1>4 DEF RealMutexLock
  <1>5. CASE RealMutexUnlock(t)
    <2>1. arg[t] \in Mutex BY <1>5 DEF RealMutexUnlock, CallInv
    <2> QED BY <1>5, <2>1 DEF RealMutexUnlock
  <1>6. CASE RealCondWait(t) \/ RealCondReturn(t)
    <2>1. arg[t] \in Mutex BY <1>6, CondAssumption DEF RealCondWait, RealCondReturn, CallInv, CondPC
    <2> QED BY <1>6, <2>1 DEF RealCondWait, RealCondReturn
  <1>7. CASE RealRwlockRdlock(t) \/ RealRwlockWrlock(t)
    BY <1>7 DEF RealRwlockRdlock, RealRwlockWrlock
  <1>8. CASE RealRwlockUnlock(t) BY <1>8 DEF RealRwlockUnlock
  <1> QED BY <1>1, <1>2, <1>3, <1>4, <1>5, <1>6, <1>7, <1>8 DEF Real, Silent

\* A thread that learns something keeps what it has heard of.
LEMMA LearnMade ==
  ASSUME TypeOK, HbInv, NEW w \in Thread, NEW h \in Clock, MadeIn(epochs, h), Learn(w, h)
  PROVE  \A u \in Thread : HappensBefore(hb[u], hb'[u]) /\ MadeIn(epochs, hb'[u])
  <1>a. hb \in [Thread -> Clock] BY DEF TypeOK
  <1>1. ASSUME NEW u \in Thread, u # w PROVE HappensBefore(hb[u], hb'[u]) /\ MadeIn(epochs, hb'[u])
    <2>1. hb'[u] = hb[u] BY <1>1, <1>a DEF Learn
    <2> QED BY <1>a, <2>1, ClockOrder DEF HbInv
  <1>2. HappensBefore(hb[w], hb'[w]) /\ MadeIn(epochs, hb'[w])
    <2>1. hb'[w] = Join(hb[w], h) BY <1>a DEF Learn
    <2>2. hb[w] \in Clock /\ MadeIn(epochs, hb[w]) BY <1>a DEF HbInv
    <2>3. HappensBefore(hb[w], Join(hb[w], h)) BY <2>2, ClockOrder
    <2>4. MadeIn(epochs, Join(hb[w], h)) BY <2>2, CoversJoin
    <2> QED BY <2>1, <2>3, <2>4
  <1> QED BY <1>1, <1>2

\* Only accesses that were made come to happen before anything.
LEMMA RealHb ==
  ASSUME StepHyp, HbInv, NEW t \in Thread, Real(t)
  PROVE  HbInv'
  <1> USE DEF StepHyp
  <1> DEFINE Grow == \A u \in Thread : HappensBefore(hb[u], hb'[u]) /\ MadeIn(epochs, hb'[u])
  <1>a. /\ hb \in [Thread -> Clock] /\ hb' \in [Thread -> Clock] /\ hbMutex \in [Mutex -> Clock]
        /\ hbWriter \in Clock /\ hbReaders \in Clock /\ hbSem \in Clock
        /\ epochs \in [Thread -> Seq(Nat)]
    BY DEF TypeOK
  <1>b. /\ \A u \in Thread : MadeIn(epochs, hb[u])
        /\ \A m \in Mutex : MadeIn(epochs, hbMutex[m])
        /\ MadeIn(epochs, hbWriter) /\ MadeIn(epochs, hbReaders) /\ MadeIn(epochs, hbSem)
    BY DEF HbInv
  <1>c. epochs' = epochs BY RealOwn
  <1>d. UNCHANGED hb => Grow BY <1>a, <1>b, ClockOrder
  <1>e. ASSUME NEW w \in Thread, NEW h \in Clock, MadeIn(epochs, h), Learn(w, h) PROVE Grow
    BY <1>e, LearnMade
  <1>f. /\ Join(hbWriter, hbReaders) \in Clock /\ MadeIn(epochs, Join(hbWriter, hbReaders))
        /\ Join(hbReaders, hb[t]) \in Clock /\ MadeIn(epochs, Join(hbReaders, hb[t]))
        /\ Join(hbSem, hb[t]) \in Clock /\ MadeIn(epochs, Join(hbSem, hb[t]))
    BY <1>a, <1>b, ClockOrder, CoversJoin
  <1> HIDE DEF Grow
  <1>1. Grow
    <2>1. ASSUME NEW c \in Thread, RealCreate(t, c) \/ RealJoin(t, c) PROVE Grow
      <3>1. Learn(c, hb[t]) \/ Learn(t, hb[c]) BY <2>1 DEF RealCreate, RealJoin
      <3> QED BY <1>a, <1>b, <1>e, <3>1
    <2>2. ASSUME NEW m \in Mutex, RealMutexLock(t, m) PROVE Grow
      BY <2>2, <1>a, <1>b, <1>e DEF RealMutexLock
    <2>3. CASE ThreadExit(t) \/ Prune(t) \/ RealMutexUnlock(t) \/ RealRwlockUnlock(t)
      BY <2>3, <1>d DEF ThreadExit, Prune, RealMutexUnlock, RealRwlockUnlock
    <2>4. CASE RealCondWait(t) \/ RealCondTimeout(t) \/ RealSemPost(t)
      BY <2>4, <1>d DEF RealCondWait, RealCondTimeout, RealSemPost
    <2>5. CASE RealRwlockRdlock(t) \/ RealRwlockWrlock(t) \/ RealSemWait(t)
      BY <2>5, <1>a, <1>b, <1>e, <1>f DEF RealRwlockRdlock, RealRwlockWrlock, RealSemWait
    <2>6. CASE RealCondReturn(t)
      <3>1. arg[t] \in Mutex BY <2>6, CondAssumption DEF RealCondReturn, Move, CallInv, CondPC
      <3> QED BY <2>6, <1>a, <1>b, <1>e, <3>1 DEF RealCondReturn
    <2>7. CASE RealCondSignal(t)
      <3>1. ASSUME NEW u \in Thread PROVE hb'[u] = hb[u] \/ hb'[u] = Join(hb[u], hb[t])
        BY <2>7 DEF RealCondSignal
      <3>2. ASSUME NEW u \in Thread
            PROVE  /\ HappensBefore(hb[u], hb[u]) /\ HappensBefore(hb[u], Join(hb[u], hb[t]))
                   /\ MadeIn(epochs, Join(hb[u], hb[t]))
        BY <1>a, <1>b, ClockOrder, CoversJoin
      <3>3. ASSUME NEW u \in Thread PROVE HappensBefore(hb[u], hb'[u]) /\ MadeIn(epochs, hb'[u])
        BY <1>b, <3>1, <3>2
      <3> QED BY <3>3 DEF Grow
    <2>8. CASE RealBarrierWait(t)
      <3> DEFINE all == arrived \cup {t}
      <3>1. all \in SUBSET Thread BY DEF TypeOK
      <3>2. ASSUME NEW u \in Thread PROVE hb'[u] = hb[u] \/ hb'[u] = JoinAll(hb[u], hb, all)
        BY <2>8 DEF RealBarrierWait
      <3> HIDE DEF all
      <3>3. ASSUME NEW u \in Thread
            PROVE  /\ HappensBefore(hb[u], hb[u]) /\ HappensBefore(hb[u], JoinAll(hb[u], hb, all))
                   /\ MadeIn(epochs, JoinAll(hb[u], hb, all))
        <4>1. HappensBefore(hb[u], JoinAll(hb[u], hb, all))
          BY <1>a, <3>1, JoinAllProp DEF HappensBefore
        <4> QED BY <1>a, <1>b, <3>1, <4>1, ClockOrder, CoversJoinAll
      <3>4. ASSUME NEW u \in Thread PROVE HappensBefore(hb[u], hb'[u]) /\ MadeIn(epochs, hb'[u])
        BY <1>b, <3>2, <3>3
      <3> QED BY <3>4 DEF Grow
    <2> QED BY <2>1, <2>2, <2>3, <2>4, <2>5, <2>6, <2>7, <2>8 DEF Real, Silent
  <1>2. ASSUME NEW u \in Thread PROVE MadeIn(epochs, hb'[u]) /\ hb'[u][u] = Len(epochs[u])
    <2>1. HappensBefore(hb[u], hb'[u]) /\ MadeIn(epochs, hb'[u]) BY <1>1 DEF Grow
    <2>2. hb[u][u] = Len(epochs[u]) BY DEF HbInv
    <2>3. hb[u][u] \in Nat /\ hb'[u][u] \in Nat BY <1>a DEF Clock
    <2>4. hb[u][u] <= hb'[u][u] /\ hb'[u][u] <= Len(epochs[u]) BY <2>1 DEF HappensBefore, MadeIn
    <2> QED BY <2>1, <2>2, <2>3, <2>4
  <1>3. ASSUME NEW u \in Thread, pc'[u] = "unborn" PROVE hb'[u] = Zero
    <2>1. u # t BY <1>3, RealOwn
    <2>2. pc[u] = "unborn" /\ hb'[u] = hb[u] BY <1>3, <2>1, RealOthers
    <2> QED BY <2>2 DEF HbInv
  <1>4. ASSUME NEW m \in Mutex PROVE MadeIn(epochs, hbMutex'[m])
    BY <1>b, RealObjects
  <1>5. MadeIn(epochs, hbWriter') /\ MadeIn(epochs, hbReaders')
    <2>1. /\ hbWriter' = hbWriter \/ hbWriter' = hb[t]
          /\ hbReaders' = hbReaders \/ hbReaders' = Join(hbReaders, hb[t])
      <3>1. CASE RealRwlockUnlock(t) BY <3>1 DEF RealRwlockUnlock
      <3> QED BY <3>1, RealObjects
    <2> QED BY <1>b, <1>f, <2>1
  <1>6. MadeIn(epochs, hbSem') BY <1>b, <1>f, RealObjects
  <1> QED BY <1>2, <1>3, <1>4, <1>5, <1>6, <1>c DEF HbInv

\* A release hands on what its callback has left the clock for.
LEMMA RealMutex ==
  ASSUME StepHyp, MutexCover, NEW t \in Thread, Real(t)
  PROVE  MutexCover'
  <1> USE DEF StepHyp
  <1>1. UNCHANGED <<mutexVc, epochs>> BY RealOwn DEF clocks
  <1>2. ASSUME NEW m \in Mutex, holder'[m] = NoThread PROVE CoversIn(epochs, mutexVc[m], hbMutex'[m])
    <2>1. \/ hbMutex'[m] = hbMutex[m] /\ holder[m] = NoThread
          \/ pc[t] \in {"unlocking", "condEnter"} /\ arg[t] = m /\ hbMutex'[m] = hb[t]
      BY <1>2, RealObjects
    <2> QED BY <2>1 DEF MutexCover
  <1>3. ASSUME NEW u \in Thread, pc'[u] \in {"unlocking", "condEnter"}
        PROVE  CoversIn(epochs, mutexVc[arg'[u]], hb'[u])
    <2>1. u # t BY <1>3, RealOwn
    <2>2. pc'[u] = pc[u] /\ arg'[u] = arg[u] /\ hb'[u] = hb[u] BY <1>3, <2>1, RealOthers
    <2> QED BY <1>3, <2>2 DEF MutexCover
  <1> QED BY <1>1, <1>2, <1>3 DEF MutexCover

\* A release of the rwlock hands on what has been collected, a writer's what is published.
LEMMA RealRw ==
  ASSUME StepHyp, HbInv, RwCover, NEW t \in Thread, Real(t)
  PROVE  RwCover'
  <1> USE DEF StepHyp
  <1>a. /\ hb \in [Thread -> Clock] /\ hbReaders \in Clock /\ hbReaders' \in Clock
    BY DEF TypeOK
  <1>1. UNCHANGED <<rwVc, rwWait, epochs>> BY RealOwn DEF clocks
  <1>2. /\ CoversIn(epochs, rwVc, hbWriter') 
        /\ CoversIn(epochs, Join(rwVc, rwWait), hbReaders')
    <2>1. CASE RealRwlockUnlock(t)
      <3>1. pc[t] = "rwUnlocking" BY <2>1 DEF RealRwlockUnlock, Move
      <3>2. CASE writer = t
        <4>1. hbWriter' = hb[t] /\ hbReaders' = hbReaders BY <2>1, <3>2 DEF RealRwlockUnlock
        <4> QED BY <3>1, <3>2, <4>1 DEF RwCover
      <3>3. CASE writer # t
        <4>1. hbWriter' = hbWriter /\ hbReaders' = Join(hbReaders, hb[t])
          BY <2>1, <3>3 DEF RealRwlockUnlock
        <4> DEFINE c == Join(rwVc, rwWait)
        <4>2. CoversIn(epochs, c, hbReaders) /\ CoversIn(epochs, c, hb[t])
          BY <3>1, <3>3 DEF RwCover
        <4> HIDE DEF c
        <4>3. CoversIn(epochs, c, Join(hbReaders, hb[t])) BY <1>a, <4>2, CoversJoin
        <4> QED BY <4>1, <4>3 DEF RwCover, c
      <3> QED BY <3>2, <3>3
    <2>2. CASE ~RealRwlockUnlock(t)
      <3>1. UNCHANGED <<hbWriter, hbReaders>> BY <2>2, RealObjects
      <3> QED BY <3>1 DEF RwCover
    <2> QED BY <2>1, <2>2
  <1>3. ASSUME NEW u \in Thread, pc'[u] = "rwUnlocking"
        PROVE  IF writer' = u THEN CoversIn(epochs, rwVc, hb'[u])
               ELSE CoversIn(epochs, Join(rwVc, rwWait), hb'[u])
    <2>1. u # t BY <1>3, RealOwn
    <2>2. pc[u] = "rwUnlocking" /\ hb'[u] = hb[u] BY <1>3, <2>1, RealOthers
    <2>3. writer' = u <=> writer = u
      <3>1. CASE RealRwlockUnlock(t)
        BY <2>1, <3>1, NullAssumption DEF RealRwlockUnlock
      <3>2. CASE ~RealRwlockUnlock(t)
        BY <2>1, <3>2, RealObjects, NullAssumption
      <3> QED BY <3>1, <3>2
    <2> QED BY <2>2, <2>3 DEF RwCover
  <1> QED BY <1>1, <1>2, <1>3 DEF RwCover

\* Nobody comes to be counted in the pthread call itself.
LEMMA RealKnown ==
  ASSUME StepHyp, NEW t \in Thread, Real(t)
  PROVE  RwKnown'
  <1> USE DEF StepHyp
  <1>1. UNCHANGED <<rwVc, vc>> BY RealOwn DEF clocks
  <1>2. ASSUME NEW u \in RwCounted' PROVE u \in RwCounted
    <2>a. u \in Thread /\ (u \in readers' \/ writer' = u)
          /\ pc'[u] \notin {"rdLocked", "wrLocked", "rwUnlocking"}
      BY <1>2 DEF RwCounted
    <2>1. CASE u = t
      <3>1. ~RealRwlockUnlock(t)
        <4>1. SUFFICES ASSUME RealRwlockUnlock(t) PROVE FALSE OBVIOUS
        <4>2. CASE writer = t
          <5>1. writer' = NoThread /\ readers' = readers BY <4>1, <4>2 DEF RealRwlockUnlock
          <5>2. readers = {} BY <4>2, NullAssumption DEF CallInv
          <5> QED BY <2>a, <2>1, <5>1, <5>2, NullAssumption
        <4>3. CASE writer # t
          BY <2>a, <2>1, <4>1, <4>3 DEF RealRwlockUnlock
        <4> QED BY <4>2, <4>3
      <3>2. UNCHANGED <<readers, writer>> BY <2>a, <2>1, <3>1, RealObjects
      <3>3. pc[t] \notin {"rdLocked", "wrLocked", "rwUnlocking"} BY <3>1, RealOwn
      <3> QED BY <2>a, <2>1, <3>2, <3>3 DEF RwCounted
    <2>2. CASE u # t
      <3>1. u \in readers \/ writer = u
        <4>1. CASE RealRwlockUnlock(t)
          BY <2>a, <4>1, NullAssumption DEF RealRwlockUnlock
        <4>2. CASE ~RealRwlockUnlock(t)
          BY <2>a, <2>2, <4>2, RealObjects, NullAssumption
        <4> QED BY <4>1, <4>2
      <3>2. pc[u] \notin {"rdLocked", "wrLocked", "rwUnlocking"} BY <2>a, <2>2, RealOthers
      <3> QED BY <2>a, <3>1, <3>2 DEF RwCounted
    <2> QED BY <2>1, <2>2
  <1>3. ASSUME NEW u \in RwCounted' PROVE HappensBefore(rwVc', vc'[u])
    BY <1>1, <1>2 DEF RwKnown
  <1> QED BY <1>3 DEF RwKnown

\* What the last to arrive lets the others know is what all have brought.
LEMMA RealBar ==
  ASSUME StepHyp, BarCover, NEW t \in Thread, Real(t)
  PROVE  BarCover'
  <1> USE DEF StepHyp
  <1>a. hb \in [Thread -> Clock] BY DEF TypeOK
  <1>1. UNCHANGED <<barVc, epochs>> BY RealOwn DEF clocks
  <1>2. ASSUME NEW u \in InBarrier' PROVE CoversIn(epochs, barVc, hb'[u])
    <2>1. u \in Thread /\ pc'[u] \in BarPC BY <1>2 DEF InBarrier
    <2>2. CASE RealBarrierWait(t)
      <3> DEFINE all == arrived \cup {t}
      <3>1. \A w \in all : w \in Thread /\ CoversIn(epochs, barVc, hb[w])
        BY <2>2 DEF RealBarrierWait, CallInv, BarCover, InBarrier, BarPC, TypeOK
      <3>2. hb'[u] = hb[u] \/ (hb'[u] = JoinAll(hb[u], hb, all) /\ u \in all)
        BY <2>1, <2>2 DEF RealBarrierWait
      <3>3. u \in all \/ pc'[u] = pc[u]
        BY <2>1, <2>2 DEF RealBarrierWait, Goto, TypeOK
      <3> HIDE DEF all
      <3>4. CoversIn(epochs, barVc, hb[u])
        BY <2>1, <3>1, <3>3 DEF BarCover, InBarrier
      <3>5. CoversIn(epochs, barVc, JoinAll(hb[u], hb, all))
        <4>1. all \in SUBSET Thread BY <3>1
        <4> QED BY <1>a, <2>1, <3>1, <3>4, <4>1, CoversJoinAll
      <3> QED BY <3>2, <3>4, <3>5
    <2>3. CASE ~RealBarrierWait(t)
      <3>1. u # t BY <2>1, <2>3, RealOwn
      <3>2. pc'[u] = pc[u] /\ hb'[u] = hb[u] BY <2>1, <2>3, <3>1, RealOthers DEF BarPC
      <3> QED BY <2>1, <3>2 DEF BarCover, InBarrier
    <2> QED BY <2>2, <2>3
  <1> QED BY <1>1, <1>2 DEF BarCover

\* A post hands on what its callback has left with the semaphore.
LEMMA RealSem ==
  ASSUME StepHyp, SemCover, NEW t \in Thread, Real(t)
  PROVE  SemCover'
  <1> USE DEF StepHyp
  <1>1. UNCHANGED <<semVc, epochs>> BY RealOwn DEF clocks
  <1>2. CoversIn(epochs, semVc, hbSem')
    <2>1. hbSem \in Clock /\ hb[t] \in Clock BY DEF TypeOK
    <2>2. CoversIn(epochs, semVc, hbSem) BY DEF SemCover
    <2>3. pc[t] = "semPosting" => CoversIn(epochs, semVc, Join(hbSem, hb[t]))
      BY <2>1, <2>2, CoversJoin DEF SemCover
    <2> QED BY <2>2, <2>3, RealObjects
  <1>3. ASSUME NEW u \in Thread, pc'[u] = "semPosting" PROVE CoversIn(epochs, semVc, hb'[u])
    <2>1. u # t BY <1>3, RealOwn
    <2>2. pc'[u] = pc[u] /\ hb'[u] = hb[u] BY <1>3, <2>1, RealOthers
    <2> QED BY <1>3, <2>2 DEF SemCover
  <1> QED BY <1>1, <1>2, <1>3 DEF SemCover

\* Nobody comes to wait while a signaller holds the mutex.
LEMMA RealCond ==
  ASSUME StepHyp, CondCover, NEW t \in Thread, Real(t)
  PROVE  CondCover'
  <1> USE DEF StepHyp
  <1>1. UNCHANGED <<signalTable, epochs>> BY RealOwn DEF clocks, condVars
  <1>2. ASSUME NEW w \in Thread, pc'[w] = "signalling", NEW u \in Thread, pc'[u] = "condWait"
        PROVE  CoversIn(epochs, signalTable[u], hb'[w])
    <2>1. w # t BY <1>2, RealOwn
    <2>2. pc[w] = "signalling" /\ hb'[w] = hb[w] BY <1>2, <2>1, RealOthers
    <2>3. u # t
      <3>1. SUFFICES ASSUME u = t PROVE FALSE OBVIOUS
      <3>2. pc[t] = "condEnter" BY <1>2, <3>1, RealOwn DEF RealCondWait, Move
      <3>3. holder[CondMutex] = t BY <3>2 DEF CallInv, CondPC
      <3>4. holder[CondMutex] = w BY <2>2 DEF CallInv
      <3> QED BY <2>1, <3>3, <3>4
    <2>4. pc[u] = "condWait" BY <1>2, <2>3, RealOthers
    <2> QED BY <2>2, <2>4 DEF CondCover
  <1> QED BY <1>1, <1>2 DEF CondCover

\* The mutex is passed on with what its clock has, both ways.
LEMMA RealSignals ==
  ASSUME StepHyp, NEW t \in Thread, Real(t)
  PROVE  SignalsKnown'
  <1> USE CondAssumption, NullAssumption DEF StepHyp
  <1> DEFINE M == CondMutex
  <1>1. UNCHANGED <<signalTable, mutexVc, vc>> BY RealOwn DEF clocks, condVars
  <1>2. /\ holder[M] = t /\ holder'[M] = t => ~Passing(t) /\ ~Passing(t)'
        /\ holder[M] = NoThread /\ holder'[M] = t => Passing(t)'
    <2> USE DEF Move, Goto, lockVars, TypeOK, Passing
    <2>1. CASE \E c \in Thread : RealCreate(t, c) \/ RealJoin(t, c)
      BY <2>1 DEF RealCreate, RealJoin
    <2>2. CASE RealCondSignal(t) \/ RealBarrierWait(t) BY <2>2 DEF RealCondSignal, RealBarrierWait, BarPC
    <2>3. CASE ThreadExit(t) \/ Prune(t) \/ RealCondTimeout(t) \/ RealSemPost(t) \/ RealSemWait(t)
      BY <2>3 DEF ThreadExit, Prune, RealCondTimeout, RealSemPost, RealSemWait
    <2>4. CASE \E m \in Mutex : RealMutexLock(t, m)
      BY <2>4 DEF RealMutexLock
    <2>5. CASE RealMutexUnlock(t)
      BY <2>5 DEF RealMutexUnlock, CallInv
    <2>6. CASE RealCondWait(t) \/ RealCondReturn(t)
      BY <2>6 DEF RealCondWait, RealCondReturn, CallInv, CondPC
    <2>7. CASE RealRwlockRdlock(t) \/ RealRwlockWrlock(t) \/ RealRwlockUnlock(t)
      BY <2>7 DEF RealRwlockRdlock, RealRwlockWrlock, RealRwlockUnlock
    <2> QED BY <2>1, <2>2, <2>3, <2>4, <2>5, <2>6, <2>7 DEF Real, Silent
  <1>3. \/ holder'[M] = holder[M]
        \/ holder[M] = NoThread /\ holder'[M] = t
        \/ holder[M] = t /\ Passing(t) /\ holder'[M] = NoThread
    <2>1. pc[t] \in {"unlocking", "condEnter"} /\ arg[t] = M => holder[M] = t BY DEF CallInv
    <2> QED BY <2>1, RealObjects DEF Passing
  <1>4. ASSUME NEW u \in Thread, holder'[M] = NoThread PROVE HappensBefore(signalTable[u], mutexVc[M])
    BY <1>3, <1>4 DEF SignalsKnown
  <1>5. ASSUME NEW u \in Thread, NEW w \in Thread, holder'[M] = w
        PROVE  IF Passing(w)' THEN HappensBefore(signalTable[u], mutexVc[M])
               ELSE HappensBefore(signalTable[u], vc[w])
    <2>1. CASE w = t
      BY <1>2, <1>3, <1>5, <2>1 DEF SignalsKnown
    <2>2. CASE w # t
      <3>1. holder[M] = w BY <1>3, <1>5, <2>2
      <3>2. Passing(w)' <=> Passing(w)
        BY <2>2, RealOthers DEF Passing
      <3> QED BY <3>1, <3>2 DEF SignalsKnown
    <2> QED BY <2>1, <2>2
  <1> QED BY <1>1, <1>4, <1>5 DEF SignalsKnown

\* Two clocks cover together what each covers.
LEMMA CoversBoth ==
  ASSUME TypeOK, NEW c \in Clock, NEW d \in Clock, NEW h \in Clock, NEW k \in Clock,
         MadeIn(epochs, h), MadeIn(epochs, k), CoversIn(epochs, c, h), CoversIn(epochs, d, k)
  PROVE  CoversIn(epochs, Join(c, d), Join(h, k))
  <1> DEFINE e == Join(c, d)
  <1>1. e \in Clock /\ HappensBefore(c, e) /\ HappensBefore(d, e) BY ClockOrder
  <1> HIDE DEF e
  <1>2. CoversIn(epochs, e, h) /\ CoversIn(epochs, e, k) BY <1>1, CoversMore
  <1>3. CoversIn(epochs, e, Join(h, k)) BY <1>2, CoversJoin
  <1> QED BY <1>3 DEF e

\* The clock that the thread is heading for after its step has what it has learnt.
LEMMA RealOwnDue ==
  ASSUME StepHyp, HbInv, DueInv, MutexCover, RwCover, BarCover, SemCover, NEW t \in Thread, Real(t)
  PROVE  CoversIn(epochs, Due(t)', hb'[t])
  <1> USE DEF StepHyp, Move, Goto, Learn
  <1>a. /\ vc \in [Thread -> Clock] /\ mutexVc \in [Mutex -> Clock] /\ signalTable \in [Thread -> Clock]
        /\ rwVc \in Clock /\ rwWait \in Clock /\ barVc \in Clock /\ semVc \in Clock
        /\ hb \in [Thread -> Clock] /\ hbMutex \in [Mutex -> Clock]
        /\ hbWriter \in Clock /\ hbReaders \in Clock /\ hbSem \in Clock
        /\ pc \in [Thread -> PC] /\ arg \in [Thread -> Mutex \cup Thread \cup {NoArg}]
        /\ vc[t] \in Clock /\ signalTable[t] \in Clock /\ hb[t] \in Clock
    BY DEF TypeOK
  <1>b. /\ \A u \in Thread : MadeIn(epochs, hb[u])
        /\ \A m \in Mutex : MadeIn(epochs, hbMutex[m])
        /\ MadeIn(epochs, hbWriter) /\ MadeIn(epochs, hbReaders) /\ MadeIn(epochs, hbSem)
    BY DEF HbInv
  <1>c. /\ UNCHANGED <<vc, mutexVc, rwVc, signalTable, barVc, semVc>>
        /\ pc[t] \notin {"unborn", "starting", "exited", "reaped"}
    BY RealOwn DEF clocks, condVars
  <1>d. CoversIn(epochs, Due(t), hb[t]) BY <1>c DEF DueInv, Orphan
  <1>1. CASE \/ ThreadExit(t) \/ Prune(t) \/ RealMutexUnlock(t) \/ RealRwlockUnlock(t)
             \/ RealCondWait(t) \/ RealSemPost(t)
             \/ \E c \in Thread : RealCreate(t, c)
    <2>1. /\ hb'[t] = hb[t]
          /\ pc[t] \in {"run", "pruning", "unlocking", "rwUnlocking", "condEnter", "semPosting"}
          /\ pc'[t] \in {"run", "exited", "condWait"}
      <3>1. CASE \E c \in Thread : RealCreate(t, c) BY <1>a, <3>1 DEF RealCreate
      <3>2. CASE \/ ThreadExit(t) \/ Prune(t) \/ RealMutexUnlock(t) \/ RealRwlockUnlock(t)
                 \/ RealCondWait(t) \/ RealSemPost(t)
        BY <1>a, <3>2 DEF ThreadExit, Prune, RealMutexUnlock, RealRwlockUnlock, RealCondWait, RealSemPost
      <3> QED BY <1>1, <3>1, <3>2
    <2>2. Due(t) = vc[t] /\ Due(t)' = vc[t] BY <1>c, <2>1 DEF Due, BarPC
    <2> QED BY <1>d, <2>1, <2>2
  <1>2. CASE RealCondSignal(t)
    <2>1. hb'[t] = hb[t] /\ pc[t] = "signalling" /\ pc'[t] = "run"
      BY <1>2, <1>a DEF RealCondSignal
    <2>2. Due(t) = vc[t] /\ Due(t)' = vc[t] BY <1>c, <2>1 DEF Due, BarPC
    <2> QED BY <1>d, <2>1, <2>2
  <1>3. ASSUME NEW c \in Thread, RealJoin(t, c) PROVE CoversIn(epochs, Due(t)', hb'[t])
    <2>1. /\ pc[t] = "run" /\ pc[c] = "exited" /\ pc'[t] = "joined" /\ arg'[t] = c
          /\ hb'[t] = Join(hb[t], hb[c])
      BY <1>3, <1>a DEF RealJoin
    <2>2. Due(t) = vc[t] /\ Due(c) = vc[c] /\ ~Orphan(c) BY <2>1 DEF Due, BarPC, Orphan
    <2>3. Due(t)' = Join(vc[t], vc[c]) BY <1>c, <2>1 DEF Due, BarPC
    <2>4. CoversIn(epochs, vc[c], hb[c]) BY <2>1, <2>2 DEF DueInv
    <2>5. vc[c] \in Clock /\ hb[c] \in Clock BY <1>a
    <2>6. CoversIn(epochs, Join(vc[t], vc[c]), Join(hb[t], hb[c]))
      BY <1>a, <1>b, <1>d, <2>2, <2>4, <2>5, CoversBoth
    <2> QED BY <2>1, <2>3, <2>6
  <1>4. ASSUME NEW m \in Mutex, RealMutexLock(t, m) PROVE CoversIn(epochs, Due(t)', hb'[t])
    <2>1. /\ pc[t] = "run" /\ pc'[t] = "locked" /\ arg'[t] = m /\ holder[m] = NoThread
          /\ hb'[t] = Join(hb[t], hbMutex[m])
      BY <1>4, <1>a DEF RealMutexLock
    <2>2. Due(t) = vc[t] /\ Due(t)' = Join(vc[t], mutexVc[m]) BY <1>c, <2>1 DEF Due, BarPC
    <2>3. CoversIn(epochs, mutexVc[m], hbMutex[m]) BY <2>1 DEF MutexCover
    <2>4. mutexVc[m] \in Clock /\ hbMutex[m] \in Clock BY <1>a
    <2>5. CoversIn(epochs, Join(vc[t], mutexVc[m]), Join(hb[t], hbMutex[m]))
      BY <1>a, <1>b, <1>d, <2>2, <2>3, <2>4, CoversBoth
    <2> QED BY <2>1, <2>2, <2>5
  <1>5. CASE RealRwlockRdlock(t)
    <2>1. /\ pc[t] = "run" /\ pc'[t] = "rdLocked" /\ hb'[t] = Join(hb[t], hbWriter)
      BY <1>5, <1>a DEF RealRwlockRdlock
    <2>2. Due(t) = vc[t] /\ Due(t)' = Join(vc[t], rwVc) BY <1>c, <2>1 DEF Due, BarPC
    <2>3. CoversIn(epochs, rwVc, hbWriter) BY DEF RwCover
    <2>4. CoversIn(epochs, Join(vc[t], rwVc), Join(hb[t], hbWriter))
      BY <1>a, <1>b, <1>d, <2>2, <2>3, CoversBoth
    <2> QED BY <2>1, <2>2, <2>4
  <1>6. CASE RealRwlockWrlock(t)
    <2>1. /\ pc[t] = "run" /\ pc'[t] = "wrLocked" /\ writer = NoThread /\ readers = {}
          /\ hb'[t] = Join(hb[t], Join(hbWriter, hbReaders))
      BY <1>6, <1>a DEF RealRwlockWrlock
    <2>2. Due(t) = vc[t] /\ Due(t)' = Join(vc[t], rwVc) BY <1>c, <2>1 DEF Due, BarPC
    <2>3. rwWait = Zero
      <3>1. RwCounted = {} BY <2>1, NullAssumption DEF RwCounted
      <3> QED BY <3>1, FS_EmptySet DEF CountInv
    <2>4. CoversIn(epochs, rwVc, hbReaders)
      <3>0. Zero \in Clock BY ZeroProp
      <3>1. Join(rwVc, Zero) \in Clock /\ HappensBefore(Join(rwVc, Zero), rwVc)
        BY <1>a, <3>0, ClockOrder
      <3>2. CoversIn(epochs, Join(rwVc, Zero), hbReaders) BY <2>3 DEF RwCover
      <3> DEFINE e == Join(rwVc, Zero)
      <3> HIDE DEF e
      <3>3. e \in Clock /\ HappensBefore(e, rwVc) /\ CoversIn(epochs, e, hbReaders) BY <3>1, <3>2 DEF e
      <3> QED BY <1>a, <1>b, <3>3, CoversMore
    <2>5. CoversIn(epochs, rwVc, hbWriter) BY DEF RwCover
    <2> DEFINE h == Join(hbWriter, hbReaders)
    <2>6. h \in Clock /\ MadeIn(epochs, h) /\ CoversIn(epochs, rwVc, h)
      BY <1>a, <1>b, <2>4, <2>5, CoversJoin, ClockOrder
    <2> HIDE DEF h
    <2>7. CoversIn(epochs, Join(vc[t], rwVc), Join(hb[t], h))
      BY <1>a, <1>b, <1>d, <2>2, <2>6, CoversBoth
    <2> QED BY <2>1, <2>2, <2>7 DEF h
  <1>7. CASE RealCondTimeout(t)
    <2>1. pc[t] = "condWait" /\ pc'[t] = "condWoken" /\ hb'[t] = hb[t]
      BY <1>7, <1>a DEF RealCondTimeout
    <2>2. Due(t) = vc[t] /\ Due(t)' = Join(vc[t], signalTable[t]) BY <1>c, <2>1 DEF Due, BarPC
    <2> DEFINE e == Join(vc[t], signalTable[t])
    <2>3. e \in Clock /\ HappensBefore(vc[t], e) BY <1>a, ClockOrder
    <2> HIDE DEF e
    <2>4. CoversIn(epochs, e, hb[t]) BY <1>a, <1>b, <1>d, <2>2, <2>3, CoversMore
    <2> QED BY <2>1, <2>2, <2>4 DEF e
  <1>8. CASE RealCondReturn(t)
    <2>0. PICK m \in Mutex : m = arg[t]
      BY <1>8, CondAssumption DEF RealCondReturn, CallInv, CondPC
    <2>1. /\ pc[t] = "condWoken" /\ pc'[t] = "condLocked" /\ arg'[t] = m /\ holder[m] = NoThread
          /\ hb'[t] = Join(hb[t], hbMutex[m])
      BY <1>8, <1>a, <2>0 DEF RealCondReturn
    <2> DEFINE e == Join(vc[t], signalTable[t])
    <2>2. Due(t) = e /\ Due(t)' = Join(e, mutexVc[m]) BY <1>c, <2>1 DEF Due, BarPC
    <2>3. CoversIn(epochs, mutexVc[m], hbMutex[m]) BY <2>1 DEF MutexCover
    <2>4. e \in Clock BY <1>a, ClockOrder
    <2> HIDE DEF e
    <2>5. mutexVc[m] \in Clock /\ hbMutex[m] \in Clock BY <1>a
    <2>6. CoversIn(epochs, Join(e, mutexVc[m]), Join(hb[t], hbMutex[m]))
      BY <1>a, <1>b, <1>d, <2>2, <2>3, <2>4, <2>5, CoversBoth
    <2> QED BY <2>1, <2>2, <2>6
  <1>9. CASE RealBarrierWait(t)
    <2>1. t \in InBarrier' /\ pc'[t] \in BarPC
      BY <1>9, <1>a DEF RealBarrierWait, InBarrier, BarPC
    <2>2. CoversIn(epochs, barVc, hb'[t])
      <3>1. BarCover' BY RealBar
      <3>2. epochs' = epochs BY RealOwn
      <3> QED BY <1>c, <2>1, <3>1, <3>2 DEF BarCover
    <2>3. Due(t)' = Join(vc[t], barVc) BY <1>c, <2>1 DEF Due, BarPC
    <2>4. MadeIn(epochs, hb'[t]) /\ hb'[t] \in Clock
      <3>1. HbInv' /\ epochs' = epochs BY RealHb, RealOwn
      <3> QED BY <3>1 DEF HbInv, TypeOK
    <2> DEFINE e == Join(vc[t], barVc)
    <2>5. e \in Clock /\ HappensBefore(barVc, e) BY <1>a, ClockOrder
    <2> HIDE DEF e
    <2>6. CoversIn(epochs, e, hb'[t]) BY <1>a, <2>2, <2>4, <2>5, CoversMore
    <2> QED BY <2>3, <2>6 DEF e
  <1>10. CASE RealSemWait(t)
    <2>1. pc[t] = "run" /\ pc'[t] = "semTaken" /\ hb'[t] = Join(hb[t], hbSem)
      BY <1>10, <1>a DEF RealSemWait
    <2>2. Due(t) = vc[t] /\ Due(t)' = Join(vc[t], semVc) BY <1>c, <2>1 DEF Due, BarPC
    <2>3. CoversIn(epochs, semVc, hbSem) BY DEF SemCover
    <2>4. CoversIn(epochs, Join(vc[t], semVc), Join(hb[t], hbSem))
      BY <1>a, <1>b, <1>d, <2>2, <2>3, CoversBoth
    <2> QED BY <2>1, <2>2, <2>4
  <1> QED BY <1>1, <1>2, <1>3, <1>4, <1>5, <1>6, <1>7, <1>8, <1>9, <1>10 DEF Real, Silent

\* So have the clocks that the others are heading for: of a child that is created, of
\* waiters that are woken, of those whom the last one to arrive lets go.
LEMMA RealDue ==
  ASSUME StepHyp, HbInv, DueInv, MutexCover, RwCover, BarCover, SemCover, CondCover,
         NEW t \in Thread, Real(t)
  PROVE  DueInv'
  <1> USE DEF StepHyp
  <1>a. /\ vc \in [Thread -> Clock] /\ signalTable \in [Thread -> Clock] /\ barVc \in Clock
        /\ hb \in [Thread -> Clock] /\ hb' \in [Thread -> Clock]
        /\ pc \in [Thread -> PC] /\ arg \in [Thread -> Mutex \cup Thread \cup {NoArg}]
    BY DEF TypeOK
  <1>b. \A u \in Thread : MadeIn(epochs, hb[u]) BY DEF HbInv
  <1>c. /\ UNCHANGED <<vc, mutexVc, rwVc, signalTable, barVc, semVc, epochs>>
        /\ pc[t] \notin {"unborn", "starting", "exited", "reaped"}
    BY RealOwn DEF clocks, condVars
  <1>1. \A p \in Thread : pc[p] = "reaped" => pc'[p] = "reaped"
    BY <1>c, RealOthers
  <1>2. ASSUME NEW u \in Thread \ {t}, pc'[u] # "reaped", ~Orphan(u)'
        PROVE  CoversIn(epochs, Due(u)', hb'[u])
    <2>1. CASE pc'[u] = pc[u] /\ arg'[u] = arg[u] /\ hb'[u] = hb[u]
      <3>1. Due(u)' = Due(u) BY <1>c, <2>1 DEF Due
      <3>2. ~Orphan(u)
        <4>1. SUFFICES ASSUME Orphan(u) PROVE FALSE OBVIOUS
        <4>2. arg[u] \in Thread BY <4>1 DEF Orphan, CallInv
        <4> QED BY <1>1, <1>2, <1>c, <2>1, <4>1, <4>2 DEF Orphan
      <3> QED BY <1>2, <2>1, <3>1, <3>2 DEF DueInv
    <2>2. CASE RealCreate(t, u)
      <3>1. /\ pc[t] = "run" /\ pc[u] = "unborn" /\ pc'[u] = "starting" /\ arg'[u] = t
            /\ hb'[u] = Join(hb[u], hb[t])
        BY <1>a, <2>2 DEF RealCreate, Move, Goto, Learn
      <3>2. CoversIn(epochs, vc[t], hb[t]) BY <3>1, RunCovered
      <3>3. hb[u] = Zero BY <3>1 DEF HbInv
      <3>4. hb[u] \in Clock /\ hb[t] \in Clock BY <1>a
      <3>5. CoversIn(epochs, vc[t], hb[u]) BY <3>3, CoversZero
      <3>6. CoversIn(epochs, vc[t], Join(hb[u], hb[t])) BY <3>2, <3>4, <3>5, CoversJoin
      <3>7. Due(u)' = vc[t] BY <1>c, <3>1 DEF Due, BarPC
      <3> QED BY <3>1, <3>6, <3>7
    <2>3. CASE RealCondSignal(t) /\ pc[u] = "condWait" /\ pc'[u] = "condWoken"
      <3>1. pc[t] = "signalling" /\ (hb'[u] = hb[u] \/ hb'[u] = Join(hb[u], hb[t]))
        BY <2>3 DEF RealCondSignal
      <3>2. Due(u) = vc[u] /\ ~Orphan(u) BY <2>3 DEF Due, BarPC, Orphan
      <3>3. CoversIn(epochs, vc[u], hb[u]) BY <2>3, <3>2 DEF DueInv
      <3>4. CoversIn(epochs, signalTable[u], hb[t]) BY <2>3, <3>1 DEF CondCover
      <3>a. vc[u] \in Clock /\ signalTable[u] \in Clock /\ hb[u] \in Clock /\ hb[t] \in Clock
        BY <1>a
      <3> DEFINE e == Join(vc[u], signalTable[u])
      <3>5. CoversIn(epochs, e, Join(hb[u], hb[t])) BY <1>b, <3>3, <3>4, <3>a, CoversBoth
      <3>6. e \in Clock /\ HappensBefore(vc[u], e) BY <3>a, ClockOrder
      <3>7. Due(u)' = e BY <1>c, <2>3 DEF Due, BarPC
      <3> HIDE DEF e
      <3>8. CoversIn(epochs, e, hb[u]) BY <1>b, <3>3, <3>6, <3>a, CoversMore
      <3> QED BY <3>1, <3>5, <3>7, <3>8
    <2>4. CASE RealBarrierWait(t) /\ pc[u] = "barrier" /\ pc'[u] = "barrierOpen"
      <3>1. HbInv' /\ BarCover' BY RealHb, RealBar
      <3>2. CoversIn(epochs, barVc, hb'[u]) /\ MadeIn(epochs, hb'[u])
        BY <1>c, <2>4, <3>1 DEF BarCover, InBarrier, BarPC, HbInv
      <3> DEFINE e == Join(vc[u], barVc)
      <3>3. vc[u] \in Clock /\ hb'[u] \in Clock BY <1>a
      <3>4. e \in Clock /\ HappensBefore(barVc, e) BY <1>a, <3>3, ClockOrder
      <3>5. Due(u)' = e BY <1>c, <2>4 DEF Due, BarPC
      <3> HIDE DEF e
      <3> QED BY <1>a, <3>2, <3>3, <3>4, <3>5, CoversMore
    <2> QED BY <1>2, <2>1, <2>2, <2>3, <2>4, RealOthers
  <1>3. CoversIn(epochs, Due(t)', hb'[t]) BY RealOwnDue
  <1> QED BY <1>2, <1>3, <1>c DEF DueInv

\* An access is in the clock of the thread that makes it, and takes nothing away.
LEMMA TouchEdge ==
  ASSUME StepHyp, HbInv, DueInv, MutexCover, RwCover, RwKnown, BarCover, SemCover, CondCover,
         NEW t \in Thread, Touch(t)
  PROVE  /\ HbInv' /\ DueInv' /\ MutexCover' /\ RwCover' /\ RwKnown' /\ BarCover' /\ SemCover'
         /\ CondCover' /\ SignalsKnown'
  <1> USE DEF StepHyp
  <1>0. /\ rwVc \in Clock /\ rwWait \in Clock /\ vc[t] \in Clock BY DEF TypeOK
  <1>a. /\ vc \in [Thread -> Clock] /\ mutexVc \in [Mutex -> Clock] /\ signalTable \in [Thread -> Clock]
        /\ rwVc \in Clock /\ rwWait \in Clock /\ Join(rwVc, rwWait) \in Clock
        /\ barVc \in Clock /\ semVc \in Clock
        /\ hb \in [Thread -> Clock] /\ hb' \in [Thread -> Clock] /\ hbMutex \in [Mutex -> Clock]
        /\ hbWriter \in Clock /\ hbReaders \in Clock /\ hbSem \in Clock
        /\ epochs \in [Thread -> Seq(Nat)] /\ epochs' \in [Thread -> Seq(Nat)]
        /\ vc[t] \in Clock /\ vc[t][t] \in Nat
    <2>1. Join(rwVc, rwWait) \in Clock BY <1>0, ClockOrder
    <2>2. vc[t][t] \in Nat BY <1>0 DEF Clock
    <2> QED BY <1>0, <2>1, <2>2 DEF TypeOK
  <1>b. /\ \A u \in Thread : MadeIn(epochs, hb[u])
        /\ \A m \in Mutex : MadeIn(epochs, hbMutex[m])
        /\ MadeIn(epochs, hbWriter) /\ MadeIn(epochs, hbReaders) /\ MadeIn(epochs, hbSem)
    BY DEF HbInv
  <1>c. /\ pc[t] = "run"
        /\ epochs' = [epochs EXCEPT ![t] = Append(epochs[t], vc[t][t])]
        /\ \A u \in Thread \ {t} : hb'[u] = hb[u]
        /\ hb'[t] = [hb[t] EXCEPT ![t] = @ + 1]
        /\ UNCHANGED <<pc, arg, vc, mutexVc, holder, hbMutex, rwVc, rwWait, rwRef, writer, readers,
                       hbWriter, hbReaders, signalTable, barVc, semVc, hbSem>>
    BY <1>a DEF Touch, lockVars, rwVars, condVars, barVars, semVars
  <1>d. Extends(epochs, epochs')
    <2>1. \A u \in Thread \ {t} : epochs'[u] = epochs[u] BY <1>a, <1>c
    <2>2. epochs'[t] = Append(epochs[t], vc[t][t]) /\ epochs[t] \in Seq(Nat) BY <1>a, <1>c
    <2>3. /\ Len(epochs[t]) <= Len(epochs'[t])
          /\ \A n \in 1..Len(epochs[t]) : epochs'[t][n] = epochs[t][n]
      BY <1>a, <2>2
    <2>4. \A u \in Thread : Len(epochs[u]) \in Nat BY <1>a
    <2> QED BY <2>1, <2>3, <2>4 DEF Extends
  <1>e. ASSUME NEW c \in Clock, NEW h \in Clock, MadeIn(epochs, h), CoversIn(epochs, c, h)
        PROVE  CoversIn(epochs', c, h)
    <2>1. HappensBefore(c, c) BY ClockOrder
    <2> QED BY <1>a, <1>d, <1>e, <2>1, CoversLe
  <1>f. ASSUME NEW h \in Clock, MadeIn(epochs, h) PROVE MadeIn(epochs', h)
    <2>1. ASSUME NEW u \in Thread PROVE h[u] <= Len(epochs'[u])
      <3>1. h[u] \in Nat BY DEF Clock
      <3>2. epochs[u] \in Seq(Nat) /\ epochs'[u] \in Seq(Nat) BY <1>a
      <3>3. Len(epochs[u]) \in Nat /\ Len(epochs'[u]) \in Nat BY <3>2
      <3> QED BY <1>d, <1>f, <3>1, <3>3 DEF MadeIn, Extends
    <2> QED BY <2>1 DEF MadeIn
  <1>1. \A u \in Thread : Due(u)' = Due(u) /\ (Orphan(u)' <=> Orphan(u))
    BY <1>c DEF Due, Orphan
  <1>2. /\ MadeIn(epochs', hb'[t]) /\ hb'[t][t] = Len(epochs'[t])
        /\ CoversIn(epochs', vc[t], hb'[t])
    <2>1. hb[t] \in Clock /\ hb[t][t] = Len(epochs[t]) BY <1>a DEF HbInv
    <2>2. epochs'[t] = Append(epochs[t], vc[t][t]) /\ epochs[t] \in Seq(Nat) BY <1>a, <1>c
    <2>3. Len(epochs'[t]) = Len(epochs[t]) + 1 /\ epochs'[t][Len(epochs[t]) + 1] = vc[t][t]
      BY <1>a, <2>2
    <2>4. hb'[t][t] = Len(epochs[t]) + 1 /\ \A u \in Thread \ {t} : hb'[t][u] = hb[t][u]
      BY <1>c, <2>1 DEF Clock
    <2>5. MadeIn(epochs', hb[t]) BY <1>b, <1>f, <2>1
    <2>6. CoversIn(epochs', vc[t], hb[t])
      <3>1. CoversIn(epochs, vc[t], hb[t]) BY <1>c, RunCovered
      <3> QED BY <1>a, <1>b, <1>e, <2>1, <3>1
    <2>7. Len(epochs[t]) \in Nat BY <2>2
    <2>8. MadeIn(epochs', hb'[t]) BY <2>3, <2>4, <2>5, <2>7 DEF MadeIn
    <2>9. ASSUME NEW u \in Thread, NEW n \in 1..hb'[t][u] PROVE epochs'[u][n] <= vc[t][u]
      <3>1. CASE u # t BY <2>4, <2>6, <2>9, <3>1 DEF CoversIn
      <3>2. CASE u = t /\ n = Len(epochs[t]) + 1 BY <1>a, <2>3, <3>2
      <3>3. CASE u = t /\ n # Len(epochs[t]) + 1
        <4>1. n \in 1..hb[t][t] BY <2>1, <2>4, <2>7, <2>9, <3>3
        <4> QED BY <2>6, <3>3, <4>1 DEF CoversIn
      <3> QED BY <3>1, <3>2, <3>3
    <2> QED BY <2>3, <2>4, <2>8, <2>9 DEF CoversIn
  <1>3. HbInv'
    <2>1. ASSUME NEW u \in Thread, u # t PROVE MadeIn(epochs', hb'[u]) /\ hb'[u][u] = Len(epochs'[u])
      <3>1. hb'[u] = hb[u] /\ epochs'[u] = epochs[u] /\ hb[u] \in Clock BY <1>a, <1>c, <2>1
      <3>2. MadeIn(epochs', hb[u]) BY <1>b, <1>f, <3>1
      <3> QED BY <3>1, <3>2 DEF HbInv
    <2>2. \A u \in Thread : pc'[u] = "unborn" => hb'[u] = Zero BY <1>c DEF HbInv
    <2>3. /\ \A m \in Mutex : MadeIn(epochs', hbMutex[m])
          /\ MadeIn(epochs', hbWriter) /\ MadeIn(epochs', hbReaders) /\ MadeIn(epochs', hbSem)
      BY <1>a, <1>b, <1>f
    <2> QED BY <1>2, <1>c, <2>1, <2>2, <2>3 DEF HbInv
  <1>4. DueInv'
    <2>1. ASSUME NEW u \in Thread, pc'[u] # "reaped", ~Orphan(u)'
          PROVE  CoversIn(epochs', Due(u)', hb'[u])
      <3>1. CASE u = t
        <4>1. Due(t) = vc[t] BY <1>c DEF Due, BarPC
        <4> QED BY <1>1, <1>2, <3>1, <4>1
      <3>2. CASE u # t
        <4>1. CoversIn(epochs, Due(u), hb[u]) BY <1>1, <1>c, <2>1 DEF DueInv
        <4>2. Due(u) \in Clock BY DueType
        <4> QED BY <1>1, <1>a, <1>b, <1>c, <1>e, <3>2, <4>1, <4>2
      <3> QED BY <3>1, <3>2
    <2> QED BY <2>1 DEF DueInv
  <1>5. ASSUME NEW u \in Thread, pc[u] # "run", NEW c \in Clock, CoversIn(epochs, c, hb[u])
        PROVE  CoversIn(epochs', c, hb'[u])
    <2>1. hb'[u] = hb[u] /\ hb[u] \in Clock BY <1>a, <1>c, <1>5
    <2> QED BY <1>b, <1>e, <1>5, <2>1
  <1>6. MutexCover'
    <2>1. ASSUME NEW m \in Mutex, holder[m] = NoThread PROVE CoversIn(epochs', mutexVc[m], hbMutex[m])
      <3>1. mutexVc[m] \in Clock /\ hbMutex[m] \in Clock BY <1>a
      <3> QED BY <1>b, <1>e, <2>1, <3>1 DEF MutexCover
    <2>2. ASSUME NEW u \in Thread, pc[u] \in {"unlocking", "condEnter"}
          PROVE  CoversIn(epochs', mutexVc[arg[u]], hb'[u])
      <3>1. arg[u] \in Mutex BY <2>2, CondAssumption DEF CallInv, CondPC
      <3>2. mutexVc[arg[u]] \in Clock BY <1>a, <3>1
      <3> QED BY <1>5, <2>2, <3>2 DEF MutexCover
    <2> QED BY <1>c, <2>1, <2>2 DEF MutexCover
  <1>7. RwCover'
    <2>1. CoversIn(epochs', rwVc, hbWriter) /\ CoversIn(epochs', Join(rwVc, rwWait), hbReaders)
      BY <1>a, <1>b, <1>e DEF RwCover
    <2>2. ASSUME NEW u \in Thread, pc[u] = "rwUnlocking"
          PROVE  IF writer = u THEN CoversIn(epochs', rwVc, hb'[u])
                 ELSE CoversIn(epochs', Join(rwVc, rwWait), hb'[u])
      BY <1>a, <1>5, <2>2 DEF RwCover
    <2> QED BY <1>c, <2>1, <2>2 DEF RwCover
  <1>8. RwKnown' BY <1>c DEF RwKnown, RwCounted
  <1>9. BarCover'
    <2>1. ASSUME NEW u \in InBarrier PROVE CoversIn(epochs', barVc, hb'[u])
      <3>1. u \in Thread /\ pc[u] # "run" BY DEF InBarrier, BarPC
      <3> QED BY <1>a, <1>5, <3>1 DEF BarCover
    <2> QED BY <1>c, <2>1 DEF BarCover, InBarrier
  <1>10. SemCover'
    <2>1. CoversIn(epochs', semVc, hbSem) BY <1>a, <1>b, <1>e DEF SemCover
    <2>2. ASSUME NEW u \in Thread, pc[u] = "semPosting" PROVE CoversIn(epochs', semVc, hb'[u])
      BY <1>a, <1>5, <2>2 DEF SemCover
    <2> QED BY <1>c, <2>1, <2>2 DEF SemCover
  <1>11. CondCover'
    <2>1. ASSUME NEW w \in Thread, pc[w] = "signalling", NEW u \in Thread, pc[u] = "condWait"
          PROVE  CoversIn(epochs', signalTable[u], hb'[w])
      <3>1. signalTable[u] \in Clock BY <1>a
      <3> QED BY <1>5, <2>1, <3>1 DEF CondCover
    <2> QED BY <1>c, <2>1 DEF CondCover
  <1>12. SignalsKnown' BY <1>c DEF SignalsKnown, Passing
  <1> QED BY <1>3, <1>4, <1>6, <1>7, <1>8, <1>9, <1>10, <1>11, <1>12

-----------------------------------------------------------------------------
(* Every step, and the theorem. *)

\* Every step keeps the invariant.
LEMMA EdgeStep ==
  ASSUME RwlockCounts, SignalHolding, EdgeIInv, NEW t \in Thread, Step(t)
  PROVE  EdgeIInv'
  <1>1. TypeOK' BY TypeStep DEF EdgeIInv, CallIInv
  <1>2. CallInv' BY CallStep DEF EdgeIInv, CallIInv
  <1>3. CountInv' BY <1>2, CountStep DEF EdgeIInv, CallIInv
  <1>4. StepHyp BY <1>1, <1>2 DEF StepHyp, EdgeIInv, CallIInv
  <1>5. CASE Touch(t) BY <1>1, <1>2, <1>3, <1>4, <1>5, TouchEdge DEF EdgeIInv, CallIInv
  <1>6. CASE Real(t)
    <2>1. HbInv' /\ DueInv' BY <1>4, <1>6, RealHb, RealDue DEF EdgeIInv
    <2>2. MutexCover' /\ RwCover' /\ RwKnown'
      BY <1>4, <1>6, RealMutex, RealRw, RealKnown DEF EdgeIInv
    <2>3. BarCover' /\ SemCover' /\ CondCover' /\ SignalsKnown'
      BY <1>4, <1>6, RealBar, RealSem, RealCond, RealSignals DEF EdgeIInv
    <2> QED BY <1>1, <1>2, <1>3, <2>1, <2>2, <2>3 DEF EdgeIInv, CallIInv
  <1>7. CASE Callback(t)
    <2>1. HbInv' /\ DueInv' BY <1>4, <1>7, CallbackDue DEF EdgeIInv
    <2>2. MutexCover' /\ RwCover' /\ RwKnown'
      BY <1>4, <1>7, CallbackMutex, CallbackRw, CallbackKnown DEF EdgeIInv
    <2>3. BarCover' /\ SemCover' /\ CondCover' /\ SignalsKnown'
      BY <1>4, <1>7, CallbackBar, CallbackSem, CallbackCond, CallbackSignals DEF EdgeIInv
    <2> QED BY <1>1, <1>2, <1>3, <2>1, <2>2, <2>3 DEF EdgeIInv, CallIInv
  <1> QED BY <1>5, <1>6, <1>7, StepCases DEF Real, Callback

\* At first nothing has happened.
LEMMA EdgeInit == Init => EdgeIInv
  <1> SUFFICES ASSUME Init PROVE EdgeIInv OBVIOUS
  <1>1. CallIInv BY CallInit
  <1>2. Zero \in Clock /\ \A u \in Thread : Zero[u] = 0 BY ZeroProp
  <1>3. \A e, c : CoversIn(e, c, Zero) BY CoversZero
  <1>4. /\ \A t \in Thread : hb[t] = Zero /\ epochs[t] = << >>
                             /\ pc[t] \in {"run", "unborn"} /\ signalTable[t] = Zero
        /\ \A m \in Mutex : hbMutex[m] = Zero /\ holder[m] = NoThread /\ mutexVc[m] = Zero
        /\ hbWriter = Zero /\ hbReaders = Zero /\ hbSem = Zero /\ rwVc = Zero
        /\ writer = NoThread /\ readers = {}
    BY DEF Init
  <1>5. MadeIn(epochs, Zero) BY <1>2, <1>4 DEF MadeIn
  <1>6. HbInv BY <1>2, <1>4, <1>5 DEF HbInv
  <1>7. DueInv /\ MutexCover /\ RwCover /\ SemCover /\ CondCover
    BY <1>3, <1>4 DEF DueInv, MutexCover, RwCover, SemCover, CondCover
  <1>8. BarCover BY <1>4 DEF BarCover, InBarrier, BarPC
  <1>9. RwKnown BY <1>4, NullAssumption DEF RwKnown, RwCounted
  <1>10. SignalsKnown
    <2>1. HappensBefore(Zero, Zero) BY <1>2, ClockOrder
    <2> QED BY <1>4, <2>1, CondAssumption, NullAssumption DEF SignalsKnown
  <1> QED BY <1>1, <1>6, <1>7, <1>8, <1>9, <1>10 DEF EdgeIInv

\* The invariant is inductive.
LEMMA EdgeNext == RwlockCounts /\ SignalHolding /\ EdgeIInv /\ [Next]_vars => EdgeIInv'
  <1> SUFFICES ASSUME RwlockCounts, SignalHolding, EdgeIInv, [Next]_vars PROVE EdgeIInv'
    OBVIOUS
  <1>1. CASE Next
    <2>1. PICK t \in Thread : Step(t) BY <1>1, NextIsStep
    <2> QED BY <2>1, EdgeStep
  <1>2. CASE UNCHANGED vars
    <2>1. UNCHANGED <<pc, arg, left, vc, mutexVc, holder, hbMutex, rwVc, rwWait, rwRef, writer, readers,
                      hbWriter, hbReaders, waitTable, signalTable, barVc, waiter, arrived, semVc,
                      semValue, hbSem, epochs, hb>>
      BY <1>2 DEF vars, callVars, lockVars, rwVars, condVars, barVars, semVars
    <2>2. CallIInv'
      BY <1>2, CallNext DEF EdgeIInv
    <2>3. HbInv' BY <2>1 DEF EdgeIInv, HbInv
    <2>4. DueInv' BY <2>1 DEF EdgeIInv, DueInv, Due, Orphan
    <2>5. MutexCover' /\ RwCover' /\ SemCover' /\ CondCover'
      BY <2>1 DEF EdgeIInv, MutexCover, RwCover, SemCover, CondCover
    <2>6. RwKnown' /\ BarCover' BY <2>1 DEF EdgeIInv, RwKnown, RwCounted, BarCover, InBarrier
    <2>7. SignalsKnown' BY <2>1 DEF EdgeIInv, SignalsKnown, Passing
    <2> QED BY <2>2, <2>3, <2>4, <2>5, <2>6, <2>7 DEF EdgeIInv
  <1> QED BY <1>1, <1>2

\* With FastTrack's rwlock handlers (fast_track.cc) and a program that signals only
\* while it holds the waiters' mutex, a thread that runs between two calls has in
\* its clock every access that happens before: detector.cc's callbacks lose no edge.
THEOREM NoEdgeIsLost ==
  ASSUME RwlockCounts, SignalHolding
  PROVE  Spec => []NoEdgeLost
  <1>1. EdgeIInv => NoEdgeLost
    <2> SUFFICES ASSUME EdgeIInv, NEW t \in Thread, pc[t] \in {"run", "exited"}
                 PROVE  Covers(vc[t], hb[t])
      BY DEF NoEdgeLost
    <2>1. Due(t) = vc[t] /\ ~Orphan(t) /\ pc[t] # "reaped" BY DEF Due, BarPC, Orphan
    <2>2. CoversIn(epochs, vc[t], hb[t]) BY <2>1 DEF EdgeIInv, DueInv
    <2> QED BY <2>2 DEF Covers, CoversIn
  <1>2. EdgeIInv /\ [Next]_vars => EdgeIInv' BY EdgeNext
  <1> QED BY <1>1, <1>2, EdgeInit, PTL DEF Spec

-----------------------------------------------------------------------------
(***************************************************************************)
(* What Djit, LiteRace and FastTrack make of the clocks.  Every clock value *)
(* in their metas is the epoch of an access of the kind the entry stands   *)
(* for, so that a clock ahead of a thread's names an access the thread has *)
(* not heard of; with NoEdgeLost, it is a race of the execution.           *)
(***************************************************************************)

-----------------------------------------------------------------------------
(* The inductive invariant. *)

RaceTypes ==
  /\ djit \in DjitMeta /\ lite \in DjitMeta
  /\ ftReader \in Epoch /\ ftWriter \in Epoch
  /\ ftReaderVc \in Clock /\ shared \in BOOLEAN
  /\ lastrld \in [Mutex -> SUBSET Thread]
  /\ lastRead \in Clock /\ lastWrite \in Clock
  /\ lostReader \in BOOLEAN /\ lateStart \in BOOLEAN

\* With the accesses e, an entry of c is the epoch of an access of its thread
\* that is not later than last says; the same of the epoch p.
RecordedIn(e, c, last) ==
  \A u \in Thread : c[u] # 0 => \E n \in 1..last[u] : e[u][n] = c[u]
EpochRecordedIn(e, p, last) ==
  p.thd \in Thread => \E n \in 1..last[p.thd] : e[p.thd][n] = p.clk

RecordInv ==
  /\ MadeIn(epochs, lastRead) /\ MadeIn(epochs, lastWrite)
  /\ RecordedIn(epochs, djit.reader, lastRead) /\ RecordedIn(epochs, djit.writer, lastWrite)
  /\ RecordedIn(epochs, lite.reader, lastRead) /\ RecordedIn(epochs, lite.writer, lastWrite)
  /\ RecordedIn(epochs, ftReaderVc, lastRead)
  /\ EpochRecordedIn(epochs, ftReader, lastRead) /\ EpochRecordedIn(epochs, ftWriter, lastWrite)

-----------------------------------------------------------------------------
(* The steps. *)

\* A step of the detectors is a step of the core.
LEMMA RacesStep ==
  ASSUME NEW t \in Thread
  PROVE  /\ SyncRaces(t) => Step(t)
         /\ BeforeMemRead(t) \/ BeforeMemWrite(t) => Touch(t) /\ Step(t)
         /\ AfterPthreadJoin(t, "pruning") => Step(t)
         /\ PruneReaders(t) => Prune(t) /\ Step(t)
  <1>1. PruneReaders(t) => Prune(t) BY DEF PruneReaders, Prune
  <1> QED BY <1>1 DEF SyncRaces, BeforeMemRead, BeforeMemWrite, Step, Joins

\* Only an access is an access.
LEMMA SyncEpochs ==
  ASSUME NEW t \in Thread, Sync(t)
  PROVE  UNCHANGED epochs
  <1>1. CASE Threads(t)
    BY <1>1 DEF Threads, RealCreate, RealJoin, ThreadStart, ThreadExit
  <1>2. CASE Mutexes(t)
    BY <1>2 DEF Mutexes, RealMutexLock, BeforePthreadMutexUnlock, AfterPthreadMutexLock, RealMutexUnlock
  <1>3. CASE Rwlocks(t)
    BY <1>3 DEF Rwlocks, RealRwlockRdlock, RealRwlockWrlock, AfterPthreadRwlock,
       BeforePthreadRwlockUnlock, RealRwlockUnlock
  <1>4. CASE Conds(t)
    BY <1>4 DEF Conds, BeforePthreadCondWait, RealCondWait, ProcessNotify, RealCondSignal,
       RealCondTimeout, RealCondReturn, AfterPthreadCondWait
  <1>5. CASE Barriers(t) \/ Sems(t)
    BY <1>5 DEF Barriers, Sems, BeforePthreadBarrierWait, RealBarrierWait, AfterPthreadBarrierWait,
       BeforeSemPost, RealSemPost, RealSemWait, AfterSemWait
  <1> QED BY <1>1, <1>2, <1>3, <1>4, <1>5 DEF Sync

-----------------------------------------------------------------------------
(* The detectors' operators. *)

\* What a race set is made of.
LEMMA RacesWithType ==
  ASSUME NEW S \in SUBSET Thread, NEW t \in Thread, NEW k \in {"R", "W"}, NEW l \in {"R", "W"}
  PROVE  RacesWith(S, k, t, l) \subseteq Race
  BY DEF RacesWith, Race

\* A read moves t's entry of the readers to now and is checked against the writers.
LEMMA DjitReadProp ==
  ASSUME NEW d \in DjitMeta, NEW t \in Thread, vc \in [Thread -> Clock]
  PROVE  /\ DjitRead(d, t) \in DjitMeta
         /\ DjitRead(d, t).writer = d.writer
         /\ DjitRead(d, t).reader = [d.reader EXCEPT ![t] = Now(t)]
         /\ DjitRead(d, t).races = d.races \cup
              (IF d.reader[t] = Now(t) THEN {} ELSE RacesWith(Concurrent(d.writer, t), "W", t, "R"))
  <1>1. Now(t) \in Nat BY DEF Now, Clock
  <1>2. d.reader \in Clock /\ d.races \subseteq Race BY DEF DjitMeta
  <1> DEFINE S == RacesWith(Concurrent(d.writer, t), "W", t, "R")
  <1>3. S \subseteq Race BY RacesWithType DEF Concurrent
  <1> HIDE DEF S
  <1>4. CASE d.reader[t] = Now(t)
    <2>1. [d.reader EXCEPT ![t] = Now(t)] = d.reader BY <1>2, <1>4 DEF Clock
    <2> QED BY <1>4, <2>1 DEF DjitRead
  <1>5. CASE d.reader[t] # Now(t)
    <2>1. DjitRead(d, t) = [d EXCEPT !.reader[t] = Now(t), !.races = @ \cup S]
      BY <1>5 DEF DjitRead, S
    <2> QED BY ZenonT(20), <1>1, <1>2, <1>3, <1>5, <2>1 DEF DjitMeta, Clock, S
  <1> QED BY <1>4, <1>5

\* A write moves its entry of the writers and is checked against both.
LEMMA DjitWriteProp ==
  ASSUME NEW d \in DjitMeta, NEW t \in Thread, vc \in [Thread -> Clock]
  PROVE  /\ DjitWrite(d, t) \in DjitMeta
         /\ DjitWrite(d, t).reader = d.reader
         /\ DjitWrite(d, t).writer = [d.writer EXCEPT ![t] = Now(t)]
         /\ DjitWrite(d, t).races = d.races \cup
              (IF d.writer[t] = Now(t) THEN {}
               ELSE RacesWith(Concurrent(d.writer, t), "W", t, "W")
                      \cup RacesWith(Concurrent(d.reader, t), "R", t, "W"))
  <1>1. Now(t) \in Nat BY DEF Now, Clock
  <1>2. d.writer \in Clock /\ d.races \subseteq Race BY DEF DjitMeta
  <1> DEFINE S == RacesWith(Concurrent(d.writer, t), "W", t, "W")
             P == RacesWith(Concurrent(d.reader, t), "R", t, "W")
  <1>3. S \subseteq Race /\ P \subseteq Race BY RacesWithType DEF Concurrent
  <1> HIDE DEF S, P
  <1>4. CASE d.writer[t] = Now(t)
    <2>1. [d.writer EXCEPT ![t] = Now(t)] = d.writer BY <1>2, <1>4 DEF Clock
    <2> QED BY <1>4, <2>1 DEF DjitWrite
  <1>5. CASE d.writer[t] # Now(t)
    <2>1. DjitWrite(d, t) = [d EXCEPT !.writer[t] = Now(t), !.races = @ \cup S \cup P]
      BY <1>5 DEF DjitWrite, S, P
    <2> QED BY ZenonT(20), <1>1, <1>2, <1>3, <1>5, <2>1 DEF DjitMeta, Clock, S, P
  <1> QED BY <1>4, <1>5

\* Records stay good while accesses are added and last moves on.
LEMMA RecordedMore ==
  ASSUME NEW e \in [Thread -> Seq(Nat)], NEW f \in [Thread -> Seq(Nat)], Extends(e, f),
         NEW k \in Clock, NEW l \in Clock, MadeIn(e, k), HappensBefore(k, l)
  PROVE  /\ \A c \in Clock : RecordedIn(e, c, k) => RecordedIn(f, c, l)
         /\ \A p \in Epoch : EpochRecordedIn(e, p, k) => EpochRecordedIn(f, p, l)
  <1>1. ASSUME NEW u \in Thread, NEW n \in 1..k[u] PROVE n \in 1..l[u] /\ f[u][n] = e[u][n]
    <2>1. k[u] \in Nat /\ l[u] \in Nat BY DEF Clock
    <2>2. Len(e[u]) \in Nat OBVIOUS
    <2> QED BY SMTT(20), <2>1, <2>2 DEF MadeIn, HappensBefore, Extends
  <1>2. ASSUME NEW c \in Clock, RecordedIn(e, c, k) PROVE RecordedIn(f, c, l)
    BY <1>1, <1>2 DEF RecordedIn
  <1>3. ASSUME NEW p \in Epoch, EpochRecordedIn(e, p, k) PROVE EpochRecordedIn(f, p, l)
    BY <1>1, <1>3 DEF EpochRecordedIn
  <1> QED BY <1>2, <1>3

\* The access just made may be recorded.
LEMMA RecordedNow ==
  ASSUME NEW f \in [Thread -> Seq(Nat)], NEW l \in Clock, NEW t \in Thread, NEW n \in Nat,
         l[t] \in 1..Len(f[t]), f[t][l[t]] = n
  PROVE  /\ \A c \in Clock : RecordedIn(f, c, l) => RecordedIn(f, [c EXCEPT ![t] = n], l)
         /\ EpochRecordedIn(f, [thd |-> t, clk |-> n], l)
  <1>0. l[t] \in 1..l[t]
    <2>1. Len(f[t]) \in Nat OBVIOUS
    <2> QED BY <2>1
  <1>1. ASSUME NEW c \in Clock, RecordedIn(f, c, l) PROVE RecordedIn(f, [c EXCEPT ![t] = n], l)
    BY <1>0, <1>1 DEF RecordedIn, Clock
  <1> QED BY <1>0, <1>1 DEF EpochRecordedIn

\* An entry that is ahead of t's clock names an access t has not heard of.
LEMMA AheadIsConcurrent ==
  ASSUME NEW t \in Thread, NEW u \in Thread \ {t}, vc \in [Thread -> Clock], hb \in [Thread -> Clock],
         epochs \in [Thread -> Seq(Nat)], NEW last \in Clock, CoversIn(epochs, vc[t], hb[t]),
         MadeIn(epochs, last), NEW n \in 1..last[u], epochs[u][n] > vc[t][u]
  PROVE  u \in HbConcurrent(last, t)
  <1>1. hb[t][u] \in Nat /\ last[u] \in Nat /\ vc[t][u] \in Nat BY DEF Clock
  <1>2. n \in 1..Len(epochs[u])
    <2>1. Len(epochs[u]) \in Nat OBVIOUS
    <2> QED BY <1>1, <2>1 DEF MadeIn
  <1>3. epochs[u][n] \in Nat BY <1>2
  <1>4. ~(n \in 1..hb[t][u]) BY <1>1, <1>3 DEF CoversIn
  <1>5. last[u] > hb[t][u] BY <1>1, <1>4
  <1> QED BY <1>5 DEF HbConcurrent

\* So it is of the entries of a clock, and of an epoch.
LEMMA ConcurrentIsTrue ==
  ASSUME NEW t \in Thread, vc \in [Thread -> Clock], hb \in [Thread -> Clock],
         epochs \in [Thread -> Seq(Nat)], NEW last \in Clock, CoversIn(epochs, vc[t], hb[t]),
         MadeIn(epochs, last)
  PROVE  /\ \A c \in Clock : RecordedIn(epochs, c, last) => Concurrent(c, t) \subseteq HbConcurrent(last, t)
         /\ \A p \in Epoch : EpochRecordedIn(epochs, p, last) => Ahead(p, t) \subseteq HbConcurrent(last, t)
  <1>1. ASSUME NEW c \in Clock, RecordedIn(epochs, c, last), NEW u \in Concurrent(c, t)
        PROVE  u \in HbConcurrent(last, t)
    <2>1. u \in Thread \ {t} /\ c[u] > vc[t][u] BY DEF Concurrent
    <2>2. c[u] # 0 BY <2>1 DEF Clock
    <2>3. PICK n \in 1..last[u] : epochs[u][n] = c[u] BY <1>1, <2>1, <2>2 DEF RecordedIn
    <2> QED BY <2>1, <2>3, AheadIsConcurrent
  <1>2. ASSUME NEW p \in Epoch, EpochRecordedIn(epochs, p, last), NEW u \in Ahead(p, t)
        PROVE  u \in HbConcurrent(last, t)
    <2>1. u \in Thread \ {t} /\ p.thd = u /\ p.clk > vc[t][u] BY DEF Ahead
    <2>2. PICK n \in 1..last[u] : epochs[u][n] = p.clk BY <1>2, <2>1 DEF EpochRecordedIn
    <2> QED BY <2>1, <2>2, AheadIsConcurrent
  <1> QED BY <1>1, <1>2

-----------------------------------------------------------------------------
(* Accesses. *)

\* An access is added to its thread's, in the epoch the thread is in.
LEMMA TouchEpochs ==
  ASSUME TypeOK, NEW t \in Thread, Touch(t)
  PROVE  /\ Extends(epochs, epochs')
         /\ Len(epochs'[t]) \in 1..Len(epochs'[t])
         /\ Len(epochs[t]) <= Len(epochs'[t])
         /\ epochs'[t][Len(epochs'[t])] = Now(t)
         /\ UNCHANGED <<pc, arg, vc>>
  <1>1. vc[t][t] \in Nat BY DEF TypeOK, Clock
  <1>2. \A u \in Thread : epochs[u] \in Seq(Nat) BY DEF TypeOK
  <1>3. /\ epochs'[t] = Append(epochs[t], Now(t))
        /\ \A u \in Thread \ {t} : epochs'[u] = epochs[u]
    BY DEF Touch, TypeOK, Now
  <1>4. Len(epochs'[t]) = Len(epochs[t]) + 1 /\ Len(epochs[t]) \in Nat
    BY <1>1, <1>2, <1>3 DEF Now
  <1>5. /\ epochs'[t][Len(epochs'[t])] = Now(t)
        /\ \A n \in 1..Len(epochs[t]) : epochs'[t][n] = epochs[t][n]
    BY <1>1, <1>2, <1>3, <1>4 DEF Now
  <1>6. Extends(epochs, epochs')
    <2>1. ASSUME NEW u \in Thread
          PROVE  /\ Len(epochs[u]) <= Len(epochs'[u])
                 /\ \A n \in 1..Len(epochs[u]) : epochs'[u][n] = epochs[u][n]
      <3>1. CASE u = t BY <1>4, <1>5, <3>1
      <3>2. CASE u # t
        <4>1. Len(epochs[u]) \in Nat BY <1>2
        <4> QED BY <1>3, <3>2, <4>1
      <3> QED BY <3>1, <3>2
    <2> QED BY <2>1 DEF Extends
  <1> QED BY <1>4, <1>5, <1>6 DEF Touch

\* last moves on to the access just made; nothing else does.
LEMMA LastMoves ==
  ASSUME TypeOK, TypeOK', NEW t \in Thread, Touch(t), NEW k \in Clock, NEW l,
         MadeIn(epochs, k), l = [k EXCEPT ![t] = Len(epochs'[t])]
  PROVE  /\ l \in Clock /\ HappensBefore(k, l) /\ MadeIn(epochs', l)
         /\ l[t] \in 1..Len(epochs'[t]) /\ epochs'[t][l[t]] = Now(t)
  <1>1. \A u \in Thread : epochs'[u] \in Seq(Nat) /\ Len(epochs'[u]) \in Nat BY DEF TypeOK
  <1>2. \A u \in Thread : k[u] \in Nat /\ k[u] <= Len(epochs[u]) BY DEF Clock, MadeIn
  <1>3. \A u \in Thread : k[u] <= Len(epochs'[u])
    <2>1. \A u \in Thread : Len(epochs[u]) <= Len(epochs'[u]) BY TouchEpochs DEF Extends
    <2>2. \A u \in Thread : Len(epochs[u]) \in Nat BY DEF TypeOK
    <2> QED BY SMTT(20), <1>1, <1>2, <2>1, <2>2
  <1>4. l \in Clock /\ l[t] = Len(epochs'[t]) /\ \A u \in Thread \ {t} : l[u] = k[u]
    BY <1>1 DEF Clock
  <1>5. HappensBefore(k, l) /\ MadeIn(epochs', l)
    BY <1>1, <1>2, <1>3, <1>4 DEF HappensBefore, MadeIn
  <1> QED BY <1>4, <1>5, TouchEpochs

\* What FastTrack makes of a read.
LEMMA FtReadProp ==
  ASSUME NEW t \in Thread, vc \in [Thread -> Clock], RaceTypes, FtRead(t)
  PROVE  /\ ftReader' \in {ftReader, [thd |-> t, clk |-> Now(t)]}
         /\ ftReaderVc' \in {ftReaderVc, [ftReaderVc EXCEPT ![t] = Now(t)]} \/
              /\ ftReader.thd \in Thread
              /\ ftReaderVc' = [ftReaderVc EXCEPT ![t] = Now(t), ![ftReader.thd] = ftReader.clk]
         /\ shared' \in BOOLEAN
         /\ UNCHANGED <<ftWriter, lostReader>>
         /\ ftRaces' = ftRaces \/ ftRaces' = ftRaces \cup RacesWith(Ahead(ftWriter, t), "W", t, "R")
         /\ ftReader' \in Epoch /\ ftReaderVc' \in Clock
  <1> DEFINE now == [thd |-> t, clk |-> Now(t)]
  <1>1. Now(t) \in Nat BY DEF Now, Clock
  <1>2. now \in Epoch BY <1>1 DEF Epoch
  <1>3. CASE ftReader = now
    BY <1>3 DEF FtRead, ftVars, RaceTypes
  <1>4. CASE ftReader # now
    <2>1. /\ ftRaces' = ftRaces \cup RacesWith(Ahead(ftWriter, t), "W", t, "R")
          /\ UNCHANGED <<ftWriter, lostReader>>
      BY <1>4 DEF FtRead
    <2>2. CASE shared
      BY <1>1, <1>4, <2>1, <2>2 DEF FtRead, RaceTypes, Clock
    <2>3. CASE ~shared /\ Ahead(ftReader, t) = {}
      BY <1>2, <1>4, <2>1, <2>3 DEF FtRead, RaceTypes
    <2>4. CASE ~shared /\ Ahead(ftReader, t) # {}
      <3>1. ftReader.thd \in Thread BY <2>4 DEF Ahead
      <3>2. ftReader.clk \in Nat BY DEF RaceTypes, Epoch
      <3>3. /\ ftReaderVc' = [ftReaderVc EXCEPT ![t] = Now(t), ![ftReader.thd] = ftReader.clk]
            /\ shared' = TRUE /\ ftReader' = ftReader
        BY <1>4, <2>4 DEF FtRead
      <3> QED BY <1>1, <2>1, <3>1, <3>2, <3>3 DEF RaceTypes, Clock
    <2> QED BY <2>2, <2>3, <2>4 DEF RaceTypes
  <1> QED BY <1>3, <1>4

\* What it makes of a write.
LEMMA FtWriteProp ==
  ASSUME NEW t \in Thread, vc \in [Thread -> Clock], RaceTypes, FtWrite(t)
  PROVE  /\ ftWriter' = [thd |-> t, clk |-> Now(t)] /\ ftWriter' \in Epoch
         /\ ftReader' \in {ftReader, NoEpoch} /\ ftReaderVc' \in {ftReaderVc, Zero}
         /\ shared' \in BOOLEAN /\ UNCHANGED lostReader
         /\ ftRaces' \subseteq ftRaces \cup RacesWith(Ahead(ftWriter, t), "W", t, "W")
                                 \cup RacesWith(Concurrent(ftReaderVc, t), "R", t, "W")
                                 \cup RacesWith(Ahead(ftReader, t), "R", t, "W")
  <1> DEFINE now == [thd |-> t, clk |-> Now(t)]
             S == RacesWith(Ahead(ftWriter, t), "W", t, "W")
             P == RacesWith(Concurrent(ftReaderVc, t), "R", t, "W")
             Q == RacesWith(Ahead(ftReader, t), "R", t, "W")
  <1>1. now \in Epoch BY DEF Now, Clock, Epoch
  <1>2. CASE ftWriter = now
    BY <1>1, <1>2 DEF FtWrite, ftVars, RaceTypes
  <1>3. CASE ftWriter # now
    <2>1. CASE shared
      BY <1>1, <1>3, <2>1 DEF FtWrite
    <2>2. CASE ~shared
      BY <1>1, <1>3, <2>2 DEF FtWrite
    <2> QED BY <2>1, <2>2
  <1> QED BY <1>2, <1>3

-----------------------------------------------------------------------------
(* Every step keeps the records, and what it reports is true. *)

\* A read records the access it makes.
LEMMA ReadRecords ==
  ASSUME TypeOK, TypeOK', RaceTypes, RecordInv, NEW t \in Thread, BeforeMemRead(t)
  PROVE  RaceTypes' /\ RecordInv'
  <1>0. /\ Touch(t) /\ djit' = DjitRead(djit, t) /\ lite' \in {lite, DjitRead(lite, t)}
        /\ FtRead(t) /\ lastrld' = lastrld
        /\ lastRead' = [lastRead EXCEPT ![t] = Len(epochs'[t])]
        /\ UNCHANGED <<lastWrite, lateStart>>
    BY DEF BeforeMemRead, LiteRace, TrueRead
  <1>1. /\ vc \in [Thread -> Clock] /\ epochs \in [Thread -> Seq(Nat)]
        /\ epochs' \in [Thread -> Seq(Nat)]
    BY DEF TypeOK
  <1>2. /\ djit \in DjitMeta /\ lite \in DjitMeta /\ lastRead \in Clock /\ lastWrite \in Clock
        /\ ftReader \in Epoch /\ ftWriter \in Epoch /\ ftReaderVc \in Clock
        /\ djit.reader \in Clock /\ djit.writer \in Clock /\ lite.reader \in Clock /\ lite.writer \in Clock
    BY DEF RaceTypes, DjitMeta
  <1>3. MadeIn(epochs, lastRead) /\ MadeIn(epochs, lastWrite) BY DEF RecordInv
  <1>4. /\ lastRead' \in Clock /\ HappensBefore(lastRead, lastRead') /\ MadeIn(epochs', lastRead')
        /\ lastRead'[t] \in 1..Len(epochs'[t]) /\ epochs'[t][lastRead'[t]] = Now(t)
    BY <1>0, <1>2, <1>3, LastMoves
  <1>5. Extends(epochs, epochs') /\ Now(t) \in Nat
    BY <1>0, <1>1, TouchEpochs DEF Now, Clock
  <1>6. /\ \A c \in Clock : RecordedIn(epochs, c, lastRead) => RecordedIn(epochs', c, lastRead')
        /\ \A p \in Epoch : EpochRecordedIn(epochs, p, lastRead) => EpochRecordedIn(epochs', p, lastRead')
    BY <1>1, <1>2, <1>3, <1>4, <1>5, RecordedMore
  <1>7. /\ \A c \in Clock : RecordedIn(epochs, c, lastWrite) => RecordedIn(epochs', c, lastWrite)
        /\ \A p \in Epoch : EpochRecordedIn(epochs, p, lastWrite) => EpochRecordedIn(epochs', p, lastWrite)
    BY <1>1, <1>2, <1>3, <1>5, RecordedMore, ClockOrder
  <1>8. /\ \A c \in Clock : RecordedIn(epochs', c, lastRead') =>
                              RecordedIn(epochs', [c EXCEPT ![t] = Now(t)], lastRead')
        /\ EpochRecordedIn(epochs', [thd |-> t, clk |-> Now(t)], lastRead')
    BY <1>1, <1>4, <1>5, RecordedNow
  <1>9. MadeIn(epochs', lastWrite')
    <2>1. \A u \in Thread : lastWrite[u] \in Nat BY <1>2 DEF Clock
    <2>2. \A u \in Thread : Len(epochs[u]) \in Nat /\ Len(epochs'[u]) \in Nat BY <1>1
    <2> QED BY <1>0, <1>3, <1>5, <2>1, <2>2 DEF MadeIn, Extends
  <1>10. /\ djit' \in DjitMeta /\ lite' \in DjitMeta
         /\ RecordedIn(epochs', djit'.reader, lastRead') /\ RecordedIn(epochs', djit'.writer, lastWrite')
         /\ RecordedIn(epochs', lite'.reader, lastRead') /\ RecordedIn(epochs', lite'.writer, lastWrite')
    <2>1. ASSUME NEW d \in DjitMeta, RecordedIn(epochs, d.reader, lastRead),
                 RecordedIn(epochs, d.writer, lastWrite), NEW e \in {d, DjitRead(d, t)}
          PROVE  /\ e \in DjitMeta /\ RecordedIn(epochs', e.reader, lastRead')
                 /\ RecordedIn(epochs', e.writer, lastWrite')
      <3>1. d.reader \in Clock /\ d.writer \in Clock BY DEF DjitMeta
      <3>2. RecordedIn(epochs', d.reader, lastRead') /\ RecordedIn(epochs', d.writer, lastWrite')
        BY <1>0, <1>6, <1>7, <2>1, <3>1
      <3>3. RecordedIn(epochs', [d.reader EXCEPT ![t] = Now(t)], lastRead') BY <1>8, <3>1, <3>2
      <3>4. CASE e = d BY <3>2, <3>4
      <3>5. CASE e = DjitRead(d, t) BY <1>1, <3>2, <3>3, <3>5, DjitReadProp
      <3> QED BY <3>4, <3>5
    <2>2. RecordedIn(epochs, djit.reader, lastRead) /\ RecordedIn(epochs, djit.writer, lastWrite)
      BY DEF RecordInv
    <2>3. RecordedIn(epochs, lite.reader, lastRead) /\ RecordedIn(epochs, lite.writer, lastWrite)
      BY DEF RecordInv
    <2> QED BY <1>0, <1>2, <2>1, <2>2, <2>3
  <1>11. /\ ftReader' \in Epoch /\ ftReaderVc' \in Clock /\ shared' \in BOOLEAN
         /\ UNCHANGED <<ftWriter, lostReader>>
         /\ RecordedIn(epochs', ftReaderVc', lastRead') /\ EpochRecordedIn(epochs', ftReader', lastRead')
    <2>1. /\ ftReader' \in Epoch /\ ftReaderVc' \in Clock /\ shared' \in BOOLEAN
          /\ UNCHANGED <<ftWriter, lostReader>>
          /\ ftReader' \in {ftReader, [thd |-> t, clk |-> Now(t)]}
          /\ ftReaderVc' \in {ftReaderVc, [ftReaderVc EXCEPT ![t] = Now(t)]} \/
              /\ ftReader.thd \in Thread
              /\ ftReaderVc' = [ftReaderVc EXCEPT ![t] = Now(t), ![ftReader.thd] = ftReader.clk]
      BY <1>0, <1>1, FtReadProp
    <2>2. EpochRecordedIn(epochs', ftReader, lastRead') BY <1>2, <1>6 DEF RecordInv
    <2>3. EpochRecordedIn(epochs', ftReader', lastRead') BY <1>8, <2>1, <2>2
    <2>4. RecordedIn(epochs', ftReaderVc, lastRead') BY <1>2, <1>6 DEF RecordInv
    <2> DEFINE c == [ftReaderVc EXCEPT ![t] = Now(t)]
    <2>5. RecordedIn(epochs', c, lastRead') /\ c \in Clock
      BY <1>2, <1>5, <1>8, <2>4 DEF Clock
    <2>6. ASSUME ftReader.thd \in Thread,
                 ftReaderVc' = [ftReaderVc EXCEPT ![t] = Now(t), ![ftReader.thd] = ftReader.clk]
          PROVE  RecordedIn(epochs', ftReaderVc', lastRead')
      <3>1. ftReaderVc' = [c EXCEPT ![ftReader.thd] = ftReader.clk] BY <2>6
      <3> HIDE DEF c
      <3>2. \A u \in Thread : ftReaderVc'[u] = IF u = ftReader.thd THEN ftReader.clk ELSE c[u]
        BY <2>5, <3>1 DEF Clock
      <3>3. \A u \in Thread : c[u] # 0 => \E n \in 1..lastRead'[u] : epochs'[u][n] = c[u]
        BY <2>5 DEF RecordedIn
      <3>4. \E n \in 1..lastRead'[ftReader.thd] : epochs'[ftReader.thd][n] = ftReader.clk
        BY <2>2, <2>6 DEF EpochRecordedIn
      <3>5. SUFFICES ASSUME NEW u \in Thread, ftReaderVc'[u] # 0
                     PROVE  \E n \in 1..lastRead'[u] : epochs'[u][n] = ftReaderVc'[u]
        BY Zenon DEF RecordedIn
      <3>6. CASE u = ftReader.thd BY Zenon, <3>2, <3>4, <3>6
      <3>7. CASE u # ftReader.thd BY Zenon, <3>2, <3>3, <3>5, <3>7
      <3> QED BY <3>6, <3>7
    <2> QED BY <2>1, <2>3, <2>4, <2>5, <2>6
  <1>12. EpochRecordedIn(epochs', ftWriter', lastWrite')
    BY <1>0, <1>2, <1>7, <1>11 DEF RecordInv
  <1>13. RaceTypes' BY <1>0, <1>2, <1>4, <1>10, <1>11 DEF RaceTypes
  <1> QED BY <1>0, <1>4, <1>9, <1>10, <1>11, <1>12, <1>13 DEF RecordInv

\* So does a write.
LEMMA WriteRecords ==
  ASSUME TypeOK, TypeOK', RaceTypes, RecordInv, NEW t \in Thread, BeforeMemWrite(t)
  PROVE  RaceTypes' /\ RecordInv'
  <1>0. /\ Touch(t) /\ djit' = DjitWrite(djit, t) /\ lite' \in {lite, DjitWrite(lite, t)}
        /\ FtWrite(t) /\ lastrld' = lastrld
        /\ lastWrite' = [lastWrite EXCEPT ![t] = Len(epochs'[t])]
        /\ UNCHANGED <<lastRead, lateStart>>
    BY DEF BeforeMemWrite, LiteRace, TrueWrite
  <1>1. /\ vc \in [Thread -> Clock] /\ epochs \in [Thread -> Seq(Nat)]
        /\ epochs' \in [Thread -> Seq(Nat)]
    BY DEF TypeOK
  <1>2. /\ djit \in DjitMeta /\ lite \in DjitMeta /\ lastRead \in Clock /\ lastWrite \in Clock
        /\ ftReader \in Epoch /\ ftWriter \in Epoch /\ ftReaderVc \in Clock
        /\ djit.reader \in Clock /\ djit.writer \in Clock /\ lite.reader \in Clock /\ lite.writer \in Clock
    BY DEF RaceTypes, DjitMeta
  <1>3. MadeIn(epochs, lastRead) /\ MadeIn(epochs, lastWrite) BY DEF RecordInv
  <1>4. /\ lastWrite' \in Clock /\ HappensBefore(lastWrite, lastWrite') /\ MadeIn(epochs', lastWrite')
        /\ lastWrite'[t] \in 1..Len(epochs'[t]) /\ epochs'[t][lastWrite'[t]] = Now(t)
    BY <1>0, <1>2, <1>3, LastMoves
  <1>5. Extends(epochs, epochs') /\ Now(t) \in Nat
    BY <1>0, <1>1, TouchEpochs DEF Now, Clock
  <1>6. /\ \A c \in Clock : RecordedIn(epochs, c, lastWrite) => RecordedIn(epochs', c, lastWrite')
        /\ \A p \in Epoch : EpochRecordedIn(epochs, p, lastWrite) => EpochRecordedIn(epochs', p, lastWrite')
    BY <1>1, <1>2, <1>3, <1>4, <1>5, RecordedMore
  <1>7. /\ \A c \in Clock : RecordedIn(epochs, c, lastRead) => RecordedIn(epochs', c, lastRead)
        /\ \A p \in Epoch : EpochRecordedIn(epochs, p, lastRead) => EpochRecordedIn(epochs', p, lastRead)
    BY <1>1, <1>2, <1>3, <1>5, RecordedMore, ClockOrder
  <1>8. /\ \A c \in Clock : RecordedIn(epochs', c, lastWrite') =>
                              RecordedIn(epochs', [c EXCEPT ![t] = Now(t)], lastWrite')
        /\ EpochRecordedIn(epochs', [thd |-> t, clk |-> Now(t)], lastWrite')
    BY <1>1, <1>4, <1>5, RecordedNow
  <1>9. MadeIn(epochs', lastRead')
    <2>1. \A u \in Thread : lastRead[u] \in Nat BY <1>2 DEF Clock
    <2>2. \A u \in Thread : Len(epochs[u]) \in Nat /\ Len(epochs'[u]) \in Nat BY <1>1
    <2> QED BY <1>0, <1>3, <1>5, <2>1, <2>2 DEF MadeIn, Extends
  <1>10. /\ djit' \in DjitMeta /\ lite' \in DjitMeta
         /\ RecordedIn(epochs', djit'.reader, lastRead') /\ RecordedIn(epochs', djit'.writer, lastWrite')
         /\ RecordedIn(epochs', lite'.reader, lastRead') /\ RecordedIn(epochs', lite'.writer, lastWrite')
    <2>1. ASSUME NEW d \in DjitMeta, RecordedIn(epochs, d.reader, lastRead),
                 RecordedIn(epochs, d.writer, lastWrite), NEW e \in {d, DjitWrite(d, t)}
          PROVE  /\ e \in DjitMeta /\ RecordedIn(epochs', e.reader, lastRead')
                 /\ RecordedIn(epochs', e.writer, lastWrite')
      <3>1. d.reader \in Clock /\ d.writer \in Clock BY DEF DjitMeta
      <3>2. RecordedIn(epochs', d.reader, lastRead') /\ RecordedIn(epochs', d.writer, lastWrite')
        BY <1>0, <1>6, <1>7, <2>1, <3>1
      <3>3. RecordedIn(epochs', [d.writer EXCEPT ![t] = Now(t)], lastWrite') BY <1>8, <3>1, <3>2
      <3>4. CASE e = d BY <3>2, <3>4
      <3>5. CASE e = DjitWrite(d, t) BY <1>1, <3>2, <3>3, <3>5, DjitWriteProp
      <3> QED BY <3>4, <3>5
    <2>2. RecordedIn(epochs, djit.reader, lastRead) /\ RecordedIn(epochs, djit.writer, lastWrite)
      BY DEF RecordInv
    <2>3. RecordedIn(epochs, lite.reader, lastRead) /\ RecordedIn(epochs, lite.writer, lastWrite)
      BY DEF RecordInv
    <2> QED BY <1>0, <1>2, <2>1, <2>2, <2>3
  <1>11. /\ ftWriter' = [thd |-> t, clk |-> Now(t)] /\ ftWriter' \in Epoch
         /\ ftReader' \in {ftReader, NoEpoch} /\ ftReaderVc' \in {ftReaderVc, Zero}
         /\ shared' \in BOOLEAN /\ UNCHANGED lostReader
    BY <1>0, <1>1, FtWriteProp
  <1>12. NoEpoch \in Epoch /\ Zero \in Clock /\ NoEpoch.thd \notin Thread
    BY ZeroProp, NullAssumption DEF NoEpoch, Epoch
  <1>13. RecordedIn(epochs', ftReaderVc', lastRead') /\ EpochRecordedIn(epochs', ftReader', lastRead')
    <2>1. RecordedIn(epochs', Zero, lastRead) BY ZeroProp DEF RecordedIn
    <2>2. EpochRecordedIn(epochs', NoEpoch, lastRead) BY <1>12 DEF EpochRecordedIn
    <2>3. RecordedIn(epochs', ftReaderVc, lastRead) /\ EpochRecordedIn(epochs', ftReader, lastRead)
      BY <1>2, <1>7 DEF RecordInv
    <2> QED BY <1>0, <1>11, <2>1, <2>2, <2>3
  <1>14. EpochRecordedIn(epochs', ftWriter', lastWrite') BY <1>8, <1>11
  <1>15. RaceTypes' BY <1>0, <1>2, <1>4, <1>10, <1>11, <1>12 DEF RaceTypes
  <1> QED BY <1>0, <1>4, <1>9, <1>10, <1>13, <1>14, <1>15 DEF RecordInv

\* The other steps leave the records alone, but for the reader that a join drops.
LEMMA OtherRecords ==
  ASSUME TypeOK, TypeOK', RaceTypes, RecordInv, NEW t \in Thread,
         SyncRaces(t) \/ (AfterPthreadJoin(t, "pruning") /\ UNCHANGED raceVars) \/ PruneReaders(t)
  PROVE  RaceTypes' /\ RecordInv' /\ UNCHANGED <<djit, lite, ftRaces, trueRaces>>
  <1>1. CASE SyncRaces(t)
    <2>1. UNCHANGED <<epochs, djitVars, ftVars, trueRaces, lastRead, lastWrite>>
      BY <1>1, SyncEpochs DEF SyncRaces
    <2>2. lastrld' \in [Mutex -> SUBSET Thread] /\ lateStart' \in BOOLEAN
      BY <1>1 DEF SyncRaces, RaceTypes, StartsLate
    <2> QED BY <2>1, <2>2 DEF djitVars, ftVars, RaceTypes, RecordInv
  <1>2. CASE AfterPthreadJoin(t, "pruning") /\ UNCHANGED raceVars
    BY <1>2 DEF AfterPthreadJoin, raceVars, djitVars, ftVars, trueVars, RaceTypes, RecordInv
  <1>3. CASE PruneReaders(t)
    <2>1. /\ UNCHANGED <<epochs, djit, lite, ftReader, ftWriter, ftRaces, trueRaces, lastRead, lastWrite,
                         lateStart, lastrld>>
          /\ ftReaderVc' = [ftReaderVc EXCEPT ![arg[t]] = 0]
          /\ shared' \in BOOLEAN /\ lostReader' \in BOOLEAN
      BY <1>3 DEF PruneReaders, djitVars, trueVars, RaceTypes
    <2>2. /\ ftReaderVc' \in Clock
          /\ \A u \in Thread : ftReaderVc'[u] \in {0, ftReaderVc[u]}
      BY <2>1 DEF RaceTypes, Clock
    <2>3. RecordedIn(epochs, ftReaderVc', lastRead)
      BY <2>2 DEF RecordInv, RecordedIn
    <2> QED BY <2>1, <2>2, <2>3 DEF RaceTypes, RecordInv
  <1> QED BY <1>1, <1>2, <1>3

\* What an access is reported for, it is in truth.
LEMMA ReportsTrue ==
  ASSUME EdgeIInv, RaceTypes, RecordInv, NEW t \in Thread, BeforeMemRead(t) \/ BeforeMemWrite(t),
         NoFalseReport
  PROVE  NoFalseReport'
  <1>1. /\ vc \in [Thread -> Clock] /\ hb \in [Thread -> Clock] /\ epochs \in [Thread -> Seq(Nat)]
    BY DEF EdgeIInv, CallIInv, TypeOK
  <1>2. CoversIn(epochs, vc[t], hb[t])
    <2>1. pc[t] = "run" BY DEF BeforeMemRead, BeforeMemWrite, Touch
    <2>2. Due(t) = vc[t] /\ ~Orphan(t) BY <2>1 DEF Due, Orphan, BarPC
    <2> QED BY <2>1, <2>2 DEF EdgeIInv, DueInv
  <1>3. /\ djit \in DjitMeta /\ lite \in DjitMeta /\ lastRead \in Clock /\ lastWrite \in Clock
        /\ ftReader \in Epoch /\ ftWriter \in Epoch /\ ftReaderVc \in Clock
        /\ djit.reader \in Clock /\ djit.writer \in Clock /\ lite.reader \in Clock /\ lite.writer \in Clock
    BY DEF RaceTypes, DjitMeta
  <1>4. /\ Concurrent(djit.reader, t) \subseteq HbConcurrent(lastRead, t)
        /\ Concurrent(lite.reader, t) \subseteq HbConcurrent(lastRead, t)
        /\ Concurrent(ftReaderVc, t) \subseteq HbConcurrent(lastRead, t)
        /\ Ahead(ftReader, t) \subseteq HbConcurrent(lastRead, t)
    BY <1>1, <1>2, <1>3, ConcurrentIsTrue DEF RecordInv
  <1>5. /\ Concurrent(djit.writer, t) \subseteq HbConcurrent(lastWrite, t)
        /\ Concurrent(lite.writer, t) \subseteq HbConcurrent(lastWrite, t)
        /\ Ahead(ftWriter, t) \subseteq HbConcurrent(lastWrite, t)
    BY <1>1, <1>2, <1>3, ConcurrentIsTrue DEF RecordInv
  <1>6. \A S, P, k, l : S \subseteq P => RacesWith(S, k, t, l) \subseteq RacesWith(P, k, t, l)
    BY DEF RacesWith
  <1>7. CASE BeforeMemRead(t)
    <2> DEFINE W == RacesWith(HbConcurrent(lastWrite, t), "W", t, "R")
    <2> DEFINE DjitRaces(d) == d.races \cup
                 (IF d.reader[t] = Now(t) THEN {} ELSE RacesWith(Concurrent(d.writer, t), "W", t, "R"))
    <2>1. trueRaces' = trueRaces \cup W BY <1>7 DEF BeforeMemRead, TrueRead
    <2>2. RacesWith(Concurrent(djit.writer, t), "W", t, "R") \subseteq W BY <1>5, <1>6
    <2>3. RacesWith(Concurrent(lite.writer, t), "W", t, "R") \subseteq W BY <1>5, <1>6
    <2>4. RacesWith(Ahead(ftWriter, t), "W", t, "R") \subseteq W BY <1>5, <1>6
    <2> HIDE DEF W, DjitRaces
    <2>5. djit'.races \subseteq djit.races \cup W
      <3>1. DjitRaces(djit) \subseteq djit.races \cup W
        BY <2>2 DEF DjitRaces
      <3>2. DjitRead(djit, t).races = DjitRaces(djit) BY <1>1, <1>3, DjitReadProp DEF DjitRaces
      <3>3. djit' = DjitRead(djit, t) BY <1>7 DEF BeforeMemRead
      <3> QED BY <3>1, <3>2, <3>3
    <2>6. lite'.races \subseteq lite.races \cup W
      <3>1. DjitRaces(lite) \subseteq lite.races \cup W
        BY <2>3 DEF DjitRaces
      <3>2. DjitRead(lite, t).races = DjitRaces(lite) BY <1>1, <1>3, DjitReadProp DEF DjitRaces
      <3>3. lite' \in {lite, DjitRead(lite, t)} BY <1>7 DEF BeforeMemRead, LiteRace
      <3> QED BY <3>1, <3>2, <3>3
    <2>7. ftRaces' \subseteq ftRaces \cup W
      <3>1. FtRead(t) BY <1>7 DEF BeforeMemRead
      <3>2. \/ ftRaces' = ftRaces
            \/ ftRaces' = ftRaces \cup RacesWith(Ahead(ftWriter, t), "W", t, "R")
        BY <1>1, <3>1, FtReadProp
      <3> QED BY <2>4, <3>2
    <2> QED BY <2>1, <2>5, <2>6, <2>7 DEF NoFalseReport
  <1>8. CASE BeforeMemWrite(t)
    <2> DEFINE W == RacesWith(HbConcurrent(lastWrite, t), "W", t, "W")
               R == RacesWith(HbConcurrent(lastRead, t), "R", t, "W")
    <2> DEFINE DjitRaces(d) == d.races \cup
                 (IF d.writer[t] = Now(t) THEN {}
                  ELSE RacesWith(Concurrent(d.writer, t), "W", t, "W")
                         \cup RacesWith(Concurrent(d.reader, t), "R", t, "W"))
    <2>1. trueRaces' = trueRaces \cup W \cup R BY <1>8 DEF BeforeMemWrite, TrueWrite
    <2>2. /\ RacesWith(Concurrent(djit.writer, t), "W", t, "W") \subseteq W
          /\ RacesWith(Concurrent(djit.reader, t), "R", t, "W") \subseteq R
      BY <1>4, <1>5, <1>6
    <2>3. /\ RacesWith(Concurrent(lite.writer, t), "W", t, "W") \subseteq W
          /\ RacesWith(Concurrent(lite.reader, t), "R", t, "W") \subseteq R
      BY <1>4, <1>5, <1>6
    <2>4. /\ RacesWith(Ahead(ftWriter, t), "W", t, "W") \subseteq W
          /\ RacesWith(Concurrent(ftReaderVc, t), "R", t, "W") \subseteq R
          /\ RacesWith(Ahead(ftReader, t), "R", t, "W") \subseteq R
      BY <1>4, <1>5, <1>6
    <2> HIDE DEF W, R, DjitRaces
    <2>5. djit'.races \subseteq djit.races \cup W \cup R
      <3>1. DjitRaces(djit) \subseteq djit.races \cup W \cup R
        BY <2>2 DEF DjitRaces
      <3>2. DjitWrite(djit, t).races = DjitRaces(djit) BY <1>1, <1>3, DjitWriteProp DEF DjitRaces
      <3>3. djit' = DjitWrite(djit, t) BY <1>8 DEF BeforeMemWrite
      <3> QED BY <3>1, <3>2, <3>3
    <2>6. lite'.races \subseteq lite.races \cup W \cup R
      <3>1. DjitRaces(lite) \subseteq lite.races \cup W \cup R
        BY <2>3 DEF DjitRaces
      <3>2. DjitWrite(lite, t).races = DjitRaces(lite) BY <1>1, <1>3, DjitWriteProp DEF DjitRaces
      <3>3. lite' \in {lite, DjitWrite(lite, t)} BY <1>8 DEF BeforeMemWrite, LiteRace
      <3> QED BY <3>1, <3>2, <3>3
    <2>7. ftRaces' \subseteq ftRaces \cup W \cup R
      <3>1. FtWrite(t) BY <1>8 DEF BeforeMemWrite
      <3>2. ftRaces' \subseteq ftRaces \cup RacesWith(Ahead(ftWriter, t), "W", t, "W")
                                 \cup RacesWith(Concurrent(ftReaderVc, t), "R", t, "W")
                                 \cup RacesWith(Ahead(ftReader, t), "R", t, "W")
        BY <1>1, <3>1, FtWriteProp
      <3> QED BY <2>4, <3>2
    <2> QED BY <2>1, <2>5, <2>6, <2>7 DEF NoFalseReport
  <1> QED BY <1>7, <1>8

-----------------------------------------------------------------------------
(* The theorem. *)

RacesIInv == EdgeIInv /\ RaceTypes /\ RecordInv /\ NoFalseReport

\* At first there are no accesses and no races.
LEMMA RacesInitInv == RacesInit => RacesIInv
  <1> SUFFICES ASSUME RacesInit PROVE RacesIInv OBVIOUS
  <1>1. EdgeIInv BY EdgeInit DEF RacesInit
  <1>2. Zero \in Clock /\ \A u \in Thread : Zero[u] = 0 BY ZeroProp
  <1>3. NoEpoch \in Epoch /\ NoEpoch.thd \notin Thread
    BY NullAssumption DEF NoEpoch, Epoch
  <1>4. NewDjitMeta \in DjitMeta /\ NewDjitMeta.reader = Zero /\ NewDjitMeta.writer = Zero
        /\ NewDjitMeta.races = {}
    BY <1>2 DEF NewDjitMeta, DjitMeta
  <1>5. RaceTypes BY <1>2, <1>3, <1>4 DEF RacesInit, RaceTypes
  <1>6. MadeIn(epochs, Zero)
    <2>1. \A u \in Thread : Len(epochs[u]) \in Nat BY <1>1 DEF EdgeIInv, CallIInv, TypeOK
    <2> QED BY <1>2, <2>1 DEF MadeIn
  <1>7. RecordedIn(epochs, Zero, Zero) /\ EpochRecordedIn(epochs, NoEpoch, Zero)
    BY <1>2, <1>3 DEF RecordedIn, EpochRecordedIn
  <1>8. RecordInv BY <1>4, <1>6, <1>7 DEF RacesInit, RecordInv
  <1>9. NoFalseReport BY <1>4 DEF RacesInit, NoFalseReport
  <1> QED BY <1>1, <1>5, <1>8, <1>9 DEF RacesIInv

\* Every step keeps the invariant.
LEMMA RacesNextInv == RwlockCounts /\ SignalHolding /\ RacesIInv /\ [RacesNext]_racesVars => RacesIInv'
  <1> SUFFICES ASSUME RwlockCounts, SignalHolding, RacesIInv, [RacesNext]_racesVars PROVE RacesIInv'
    OBVIOUS
  <1>0. EdgeIInv /\ RaceTypes /\ RecordInv /\ NoFalseReport BY DEF RacesIInv
  <1>1. ASSUME NEW t \in Thread, BeforeMemRead(t) \/ BeforeMemWrite(t) PROVE RacesIInv'
    <2>1. EdgeIInv' BY <1>0, <1>1, RacesStep, EdgeStep
    <2>2. TypeOK /\ TypeOK' BY <1>0, <2>1 DEF EdgeIInv, CallIInv
    <2>3. RaceTypes' /\ RecordInv' BY <1>0, <1>1, <2>2, ReadRecords, WriteRecords
    <2> QED BY <1>0, <1>1, <2>1, <2>3, ReportsTrue DEF RacesIInv
  <1>2. ASSUME NEW t \in Thread,
               \/ SyncRaces(t) \/ (AfterPthreadJoin(t, "pruning") /\ UNCHANGED raceVars)
               \/ PruneReaders(t)
        PROVE  RacesIInv'
    <2>1. EdgeIInv' BY <1>0, <1>2, RacesStep, EdgeStep
    <2>2. TypeOK /\ TypeOK' BY <1>0, <2>1 DEF EdgeIInv, CallIInv
    <2>3. RaceTypes' /\ RecordInv' /\ UNCHANGED <<djit, lite, ftRaces, trueRaces>>
      BY <1>0, <1>2, <2>2, OtherRecords
    <2>4. NoFalseReport' BY <1>0, <2>3 DEF NoFalseReport
    <2> QED BY <2>1, <2>3, <2>4 DEF RacesIInv
  <1>3. CASE UNCHANGED racesVars
    <2>1. UNCHANGED <<vars, raceVars>> BY <1>3 DEF racesVars
    <2>2. EdgeIInv' BY <1>0, <2>1, EdgeNext
    <2>3. UNCHANGED <<djit, lite, ftReader, ftWriter, ftReaderVc, shared, ftRaces, lostReader, trueRaces,
                      lastRead, lastWrite, lateStart, lastrld, epochs>>
      BY <2>1 DEF vars, raceVars, djitVars, ftVars, trueVars
    <2>4. RaceTypes' /\ RecordInv' BY <1>0, <2>3 DEF RaceTypes, RecordInv
    <2>5. NoFalseReport' BY <1>0, <2>3 DEF NoFalseReport
    <2> QED BY <2>2, <2>4, <2>5 DEF RacesIInv
  <1> QED BY <1>1, <1>2, <1>3 DEF RacesNext

\* With FastTrack's rwlock handlers and signals sent with the mutex held, Djit,
\* LiteRace and FastTrack report races of the execution only, each between the
\* two accesses the report names.
THEOREM NoFalseReports ==
  ASSUME RwlockCounts, SignalHolding
  PROVE  RacesSpec => []NoFalseReport
  <1>1. RacesIInv /\ [RacesNext]_racesVars => RacesIInv' BY RacesNextInv
  <1>2. RacesIInv => NoFalseReport BY DEF RacesIInv
  <1> QED BY <1>1, <1>2, RacesInitInv, PTL DEF RacesSpec

-----------------------------------------------------------------------------
(* Loft. *)

\* A thread that may have released m last has a clock past m's; before anybody
\* has, m's is empty.
LoftInv ==
  \A m \in Mutex : \A t \in lastrld[m] :
    /\ pc[t] \notin {"unborn", "starting", "reaped"} => HappensBefore(mutexVc[m], vc[t])
    /\ pc[t] \in {"unborn", "starting"} => mutexVc[m] = Zero

\* Where t itself goes: it has been created, and not joined.
LEMMA OwnPc ==
  ASSUME TypeOK, CallInv, NEW t \in Thread, Step(t)
  PROVE  /\ pc[t] \notin {"unborn", "reaped"} /\ pc'[t] \notin {"unborn", "starting", "reaped"}
  <1>1. CASE Silent(t) BY <1>1, SilentPc DEF Alive, PC, BarPC
  <1>2. CASE Callback(t)
    <2>1. pc[t] \notin {"unborn", "reaped"} /\ pc'[t] \notin {"unborn", "reaped"}
      BY <1>2, CallbackFrame
    <2>2. pc'[t] # "starting"
      <3> USE DEF TypeOK, Move, Goto
      <3>1. CASE ThreadStart(t) \/ \E there \in {"run", "pruning"} : AfterPthreadJoin(t, there)
        BY <3>1 DEF ThreadStart, AfterPthreadJoin
      <3>2. CASE AfterPthreadMutexLock(t) \/ \E m \in Mutex : BeforePthreadMutexUnlock(t, m)
        BY <3>2 DEF AfterPthreadMutexLock, BeforePthreadMutexUnlock
      <3>3. CASE AfterPthreadRwlock(t) \/ BeforePthreadRwlockUnlock(t)
        BY <3>3 DEF AfterPthreadRwlock, BeforePthreadRwlockUnlock
      <3>4. CASE BeforePthreadCondWait(t) \/ ProcessNotify(t) \/ AfterPthreadCondWait(t)
        BY <3>4 DEF BeforePthreadCondWait, ProcessNotify, AfterPthreadCondWait
      <3>5. CASE \/ BeforePthreadBarrierWait(t) \/ AfterPthreadBarrierWait(t)
                 \/ BeforeSemPost(t) \/ AfterSemWait(t)
        BY <3>5 DEF BeforePthreadBarrierWait, AfterPthreadBarrierWait, BeforeSemPost, AfterSemWait
      <3> QED BY <1>2, <3>1, <3>2, <3>3, <3>4, <3>5 DEF Callback
    <2> QED BY <2>1, <2>2
  <1> QED BY <1>1, <1>2, StepCases DEF Callback

\* The clock of a thread that has started and not been joined never shrinks, that
\* of one that has been joined may be deleted.
LEMMA VcGrows ==
  ASSUME TypeOK, CallInv, NEW t \in Thread, Step(t), NEW u \in Thread, pc[u] # "starting"
  PROVE  /\ pc[u] # "reaped" => HappensBefore(vc[u], vc'[u])
         /\ vc'[u] # Zero => vc[u] # Zero \/ pc[u] # "reaped"
         /\ vc'[u] # Zero => HappensBefore(vc[u], vc'[u])
  <1>1. CASE Silent(t)
    <2>1. vc'[u] = vc[u] BY <1>1, SilentClocks DEF clocks
    <2> QED BY <2>1, ClockOrder DEF TypeOK
  <1>2. CASE Callback(t) BY <1>2, CallbackVc
  <1> QED BY <1>1, <1>2, StepCases DEF Callback

\* No thread comes back from where it has gone.
LEMMA PcOrder ==
  ASSUME TypeOK, CallInv, NEW t \in Thread, Step(t), NEW u \in Thread
  PROVE  /\ pc'[u] \in {"unborn", "starting"} => pc[u] \in {"unborn", "starting"}
         /\ pc'[u] \notin {"unborn", "starting", "reaped"} => pc[u] \notin {"unborn", "reaped"}
         /\ pc[u] = "reaped" => pc'[u] = "reaped"
  <1>1. CASE u = t BY <1>1, OwnPc
  <1>2. CASE u # t BY <1>2, OtherPc
  <1> QED BY <1>1, <1>2

\* A mutex's clock is the clock of the thread that released it last.
LEMMA MutexVcStep ==
  ASSUME TypeOK, NEW t \in Thread, Step(t), NEW m \in Mutex
  PROVE  IF Releases(t, m) THEN mutexVc'[m] = vc[t] ELSE mutexVc'[m] = mutexVc[m]
  <1> DEFINE Goal == IF Releases(t, m) THEN mutexVc'[m] = vc[t] ELSE mutexVc'[m] = mutexVc[m]
  <1> USE DEF TypeOK, Move, Goto, lockVars
  <1>1. ASSUME NEW n \in Mutex, BeforePthreadMutexUnlock(t, n) PROVE Goal
    BY <1>1 DEF BeforePthreadMutexUnlock, Releases
  <1>2. BeforePthreadCondWait(t) => Goal
    BY CondAssumption DEF BeforePthreadCondWait, Releases
  <1>3. (UNCHANGED mutexVc /\ (pc[t] = "run" => pc'[t] \notin {"unlocking", "condEnter"})) => Goal
    BY DEF Releases
  <1>x. SUFFICES Goal OBVIOUS
  <1> HIDE DEF Goal
  <1>4. CASE \/ ThreadStart(t) \/ AfterPthreadMutexLock(t) \/ AfterPthreadRwlock(t)
             \/ BeforePthreadRwlockUnlock(t) \/ ProcessNotify(t) \/ AfterPthreadCondWait(t)
    BY <1>3, <1>4 DEF ThreadStart, AfterPthreadMutexLock, AfterPthreadRwlock,
       BeforePthreadRwlockUnlock, ProcessNotify, AfterPthreadCondWait
  <1>5. CASE \/ BeforePthreadBarrierWait(t) \/ AfterPthreadBarrierWait(t)
             \/ BeforeSemPost(t) \/ AfterSemWait(t)
    BY <1>3, <1>5 DEF BeforePthreadBarrierWait, AfterPthreadBarrierWait, BeforeSemPost, AfterSemWait
  <1>6. CASE \E there \in {"run", "pruning"} : AfterPthreadJoin(t, there)
    BY <1>3, <1>6 DEF AfterPthreadJoin
  <1>7. CASE Silent(t)
    <2>1. UNCHANGED mutexVc BY <1>7, SilentClocks DEF clocks
    <2>2. pc[t] = "run" => pc'[t] \notin {"unlocking", "condEnter"}
      <3>1. CASE \E c \in Thread : RealCreate(t, c) \/ RealJoin(t, c)
        BY <3>1 DEF RealCreate, RealJoin
      <3>2. CASE RealCondSignal(t) BY <3>2 DEF RealCondSignal
      <3>3. CASE RealBarrierWait(t) BY <3>3 DEF RealBarrierWait
      <3>4. CASE \/ \E n \in Mutex : RealMutexLock(t, n)
                 \/ ThreadExit(t) \/ Touch(t) \/ Prune(t) \/ RealMutexUnlock(t)
        BY <3>4 DEF RealMutexLock, ThreadExit, Touch, Prune, RealMutexUnlock
      <3>5. CASE \/ RealRwlockRdlock(t) \/ RealRwlockWrlock(t) \/ RealRwlockUnlock(t)
                 \/ RealSemPost(t) \/ RealSemWait(t)
                 \/ RealCondWait(t) \/ RealCondTimeout(t) \/ RealCondReturn(t)
        BY <3>5 DEF RealRwlockRdlock, RealRwlockWrlock, RealRwlockUnlock, RealSemPost, RealSemWait,
           RealCondWait, RealCondTimeout, RealCondReturn
      <3> QED BY <1>7, <3>1, <3>2, <3>3, <3>4, <3>5 DEF Silent
    <2> QED BY <1>3, <2>1, <2>2
  <1> QED BY <1>1, <1>2, <1>4, <1>5, <1>6, <1>7, StepCases

\* Every step keeps LoftInv, if lastrld follows the releases.
LEMMA LoftStep ==
  ASSUME TypeOK, TypeOK', CallInv, LoftInv, lastrld \in [Mutex -> SUBSET Thread],
         NEW t \in Thread, Step(t),
         \A m \in Mutex : lastrld'[m] = IF Releases(t, m) THEN {t} ELSE lastrld[m]
  PROVE  LoftInv'
  <1>a. /\ vc \in [Thread -> Clock] /\ vc' \in [Thread -> Clock] /\ mutexVc \in [Mutex -> Clock]
    BY DEF TypeOK
  <1>b. ASSUME NEW u \in Thread, pc[u] \notin {"starting", "reaped"} PROVE HappensBefore(vc[u], vc'[u])
    BY <1>b, VcGrows
  <1>c. ASSUME NEW u \in Thread
        PROVE  /\ pc'[u] \in {"unborn", "starting"} => pc[u] \in {"unborn", "starting"}
               /\ pc'[u] \notin {"unborn", "starting", "reaped"} => pc[u] \notin {"unborn", "reaped"}
    BY PcOrder
  <1>1. ASSUME NEW m \in Mutex, NEW u \in lastrld'[m], Releases(t, m)
        PROVE  /\ pc'[u] \notin {"unborn", "starting", "reaped"} => HappensBefore(mutexVc'[m], vc'[u])
               /\ pc'[u] \in {"unborn", "starting"} => mutexVc'[m] = Zero
    <2>1. u = t /\ mutexVc'[m] = vc[t] BY <1>1, MutexVcStep
    <2>2. pc[t] = "run" /\ pc'[t] \in {"unlocking", "condEnter"} BY <1>1 DEF Releases
    <2> QED BY <1>b, <2>1, <2>2
  <1>2. ASSUME NEW m \in Mutex, NEW u \in lastrld'[m], ~Releases(t, m)
        PROVE  /\ pc'[u] \notin {"unborn", "starting", "reaped"} => HappensBefore(mutexVc'[m], vc'[u])
               /\ pc'[u] \in {"unborn", "starting"} => mutexVc'[m] = Zero
    <2>1. u \in lastrld[m] /\ mutexVc'[m] = mutexVc[m] BY <1>2, MutexVcStep
    <2>2. u \in Thread BY <2>1
    <2>3. CASE pc'[u] \in {"unborn", "starting"}
      BY <1>c, <2>1, <2>2, <2>3 DEF LoftInv
    <2>4. CASE pc'[u] \notin {"unborn", "starting", "reaped"}
      <3>1. pc[u] \notin {"unborn", "reaped"} BY <1>c, <2>2, <2>4
      <3>2. CASE pc[u] = "starting"
        <4>1. mutexVc'[m] = Zero BY <2>1, <3>2 DEF LoftInv
        <4> QED BY <1>a, <2>2, <2>4, <4>1, ClockOrder
      <3>3. CASE pc[u] # "starting"
        <4>1. HappensBefore(mutexVc[m], vc[u]) BY <2>1, <3>1, <3>3 DEF LoftInv
        <4>2. HappensBefore(vc[u], vc'[u]) BY <1>b, <2>2, <3>1, <3>3
        <4>3. HappensBefore(mutexVc[m], vc'[u]) BY <1>a, <2>2, <4>1, <4>2, ClockOrder
        <4> QED BY <2>1, <2>4, <4>3
      <3> QED BY <3>2, <3>3
    <2> QED BY <2>3, <2>4
  <1> QED BY <1>1, <1>2 DEF LoftInv

LoftIInv == EpochIInv /\ lastrld \in [Mutex -> SUBSET Thread] /\ LoftInv

\* Before any release all clocks of mutexes are empty.
LEMMA LoftInit == RacesInit => LoftIInv
  <1> SUFFICES ASSUME RacesInit PROVE LoftIInv OBVIOUS
  <1>1. EpochIInv BY CallInit, EpochInit DEF RacesInit, EpochIInv
  <1>2. vc \in [Thread -> Clock] BY <1>1 DEF EpochIInv, CallIInv, TypeOK
  <1>3. lastrld = [m \in Mutex |-> Thread] /\ \A m \in Mutex : mutexVc[m] = Zero
    BY DEF RacesInit, Init
  <1>4. LoftInv BY <1>2, <1>3, ClockOrder DEF LoftInv
  <1> QED BY <1>1, <1>3, <1>4 DEF LoftIInv

\* Every step keeps what Loft relies on.
LEMMA LoftNext == LoftIInv /\ [RacesNext]_racesVars => LoftIInv'
  <1> SUFFICES ASSUME LoftIInv, [RacesNext]_racesVars PROVE LoftIInv' OBVIOUS
  <1>0. /\ EpochIInv /\ LoftInv /\ lastrld \in [Mutex -> SUBSET Thread]
        /\ TypeOK /\ CallInv /\ CountInv /\ EpochInv
    BY DEF LoftIInv, EpochIInv, CallIInv
  <1>1. ASSUME NEW t \in Thread, Step(t) PROVE EpochIInv' /\ TypeOK'
    <2>1. TypeOK' /\ CallInv' BY <1>0, <1>1, TypeStep, CallStep
    <2>2. CountInv' BY <1>0, <1>1, <2>1, CountStep
    <2>3. EpochInv' BY <1>0, <1>1, EpochStep
    <2> QED BY <2>1, <2>2, <2>3 DEF EpochIInv, CallIInv
  <1>2. ASSUME NEW t \in Thread, SyncRaces(t) PROVE LoftIInv'
    <2>1. Step(t) BY <1>2, RacesStep
    <2>2. lastrld' = [m \in Mutex |-> IF Releases(t, m) THEN {t} ELSE lastrld[m]]
      BY <1>2 DEF SyncRaces
    <2>3. lastrld' \in [Mutex -> SUBSET Thread] BY <1>0, <2>2
    <2>4. LoftInv' BY <1>0, <1>1, <2>1, <2>2, LoftStep
    <2> QED BY <1>1, <2>1, <2>3, <2>4 DEF LoftIInv
  <1>3. ASSUME NEW t \in Thread,
               \/ BeforeMemRead(t) \/ BeforeMemWrite(t)
               \/ (AfterPthreadJoin(t, "pruning") /\ UNCHANGED raceVars) \/ PruneReaders(t)
        PROVE  LoftIInv'
    <2>1. Step(t) BY <1>3, RacesStep
    <2>2. lastrld' = lastrld
      BY <1>3 DEF BeforeMemRead, BeforeMemWrite, PruneReaders, raceVars
    <2>3. ASSUME NEW m \in Mutex PROVE ~Releases(t, m)
      <3>1. CASE Touch(t) BY <3>1 DEF Touch, Releases
      <3>2. CASE Prune(t) BY <3>2 DEF Prune, Move, Releases
      <3>3. CASE AfterPthreadJoin(t, "pruning") BY <3>3 DEF AfterPthreadJoin, Move, Releases
      <3> QED BY <1>3, <3>1, <3>2, <3>3, RacesStep
    <2>4. LoftInv' BY <1>0, <1>1, <2>1, <2>2, <2>3, LoftStep
    <2> QED BY <1>0, <1>1, <2>1, <2>2, <2>4 DEF LoftIInv
  <1>4. CASE UNCHANGED racesVars
    <2>1. UNCHANGED vars /\ UNCHANGED <<lastrld, pc, vc, mutexVc>>
      BY <1>4 DEF racesVars, raceVars, vars, callVars, lockVars
    <2>2. EpochIInv' BY <1>0, <2>1, EpochNext
    <2>3. LoftInv' BY <1>0, <2>1 DEF LoftInv
    <2> QED BY <1>0, <2>1, <2>2, <2>3 DEF LoftIInv
  <1> QED BY <1>2, <1>3, <1>4 DEF RacesNext

\* Both of Loft's shortcuts are sound on every program: the join that is skipped
\* would add nothing, and the epoch check never skips a join of an unlock.
THEOREM LoftCorrect == RacesSpec => []LoftRules
  <1>1. LoftIInv => LoftRules
    <2> SUFFICES ASSUME LoftIInv, NEW m \in Mutex, NEW t \in Thread
                 PROVE  /\ t \in lastrld[m] /\ pc[t] \notin {"unborn", "starting", "reaped"} =>
                             HappensBefore(mutexVc[m], vc[t])
                        /\ pc[t] = "run" /\ holder[m] = t => mutexVc[m][t] < vc[t][t]
      BY DEF LoftRules
    <2>1. t \in lastrld[m] /\ pc[t] \notin {"unborn", "starting", "reaped"} =>
            HappensBefore(mutexVc[m], vc[t])
      BY DEF LoftIInv, LoftInv
    <2>2. ASSUME pc[t] = "run" PROVE mutexVc[m][t] < vc[t][t]
      <3>1. mutexVc[m][t] \in Nat /\ vc[t][t] \in Nat
        BY DEF LoftIInv, EpochIInv, CallIInv, TypeOK, Clock
      <3>2. ClocksBelow(t, vc[t][t] - 1)
        BY <2>2 DEF LoftIInv, EpochIInv, EpochInv, EpochOf, Alive, PC, BarPC
      <3> QED BY <3>1, <3>2 DEF ClocksBelow
    <2> QED BY <2>1, <2>2
  <1> QED BY <1>1, LoftInit, LoftNext, PTL DEF RacesSpec

-----------------------------------------------------------------------------
(***************************************************************************)
(* That FastTrack's epochs lose nothing against Djit's clocks, for any set *)
(* of threads and mutexes and any bound.  While neither has reported, each *)
(* access in Djit's clocks is dominated by an epoch that FastTrack keeps:  *)
(* whatever clock has that epoch has the access.  Clocks grow by joins and *)
(* a thread counts its own component up only, so no step undoes it.        *)
(***************************************************************************)

-----------------------------------------------------------------------------
(* The inductive invariant. *)

\* The clock c has the epoch e; if it does, it has the epoch n of thread u.
Has(c, e)               == e.thd \in Thread => e.clk <= c[e.thd]
DominatesIn(e, u, n, c) == Has(c, e) => n <= c[u]

\* No clock of the tool has e without it.
Dominates(e, u, n) ==
  /\ \A w \in Thread : /\ DominatesIn(e, u, n, vc[w])
                       /\ DominatesIn(e, u, n, signalTable[w])
                       /\ DominatesIn(e, u, n, waitTable[w])
  /\ \A m \in Mutex : DominatesIn(e, u, n, mutexVc[m])
  /\ DominatesIn(e, u, n, rwVc) /\ DominatesIn(e, u, n, rwWait)
  /\ DominatesIn(e, u, n, semVc) /\ DominatesIn(e, u, n, barVc)
  /\ DominatesIn(e, u, n, Zero)

\* u has come to its epoch n, unless its clock has been deleted.
Passed(u, n) ==
  /\ pc[u] \in {"unborn", "starting"} => n = 0
  /\ vc[u] # Zero \/ pc[u] # "reaped" => n <= vc[u][u]

PassedInv == \A u \in Thread : Passed(u, djit.reader[u]) /\ Passed(u, djit.writer[u])

\* The reads FastTrack remembers.
Remembered == IF shared THEN {[thd |-> u, clk |-> ftReaderVc[u]] : u \in Thread} ELSE {ftReader}

\* FastTrack's epochs are Djit's, and dominate all that Djit knows.
KeptInv ==
  /\ ftWriter.thd \in Thread => ftWriter.clk <= djit.writer[ftWriter.thd]
  /\ ftReader.thd \in Thread => /\ ftReader.clk <= djit.reader[ftReader.thd]
                                /\ ~shared => ftReader.clk = djit.reader[ftReader.thd]
  /\ HappensBefore(ftReaderVc, djit.reader)
DominatedInv ==
  /\ \A u \in Thread : Dominates(ftWriter, u, djit.writer[u])
  /\ \A u \in Thread : \E e \in {ftWriter} \cup Remembered : Dominates(e, u, djit.reader[u])

\* An access that a detector skips, because its thread made one in the same
\* epoch, would not have been reported.
FrameInv ==
  \A t \in Thread : pc[t] \in Alive =>
    /\ djit.reader[t] = vc[t][t] => HappensBefore(djit.writer, vc[t])
    /\ djit.writer[t] = vc[t][t] => ftWriter = [thd |-> t, clk |-> vc[t][t]]

AgreeInv == KeptInv /\ DominatedInv /\ FrameInv

AgreeIInv ==
  /\ EpochIInv /\ RaceTypes /\ RecordInv /\ PassedInv
  /\ FastTrackAgrees
  /\ ~lostReader /\ djit.races = {} => AgreeInv

-----------------------------------------------------------------------------
(* Clocks. *)

\* Domination is closed under the operations on clocks; an increment needs that
\* the thread has passed the epoch.
LEMMA DominatesOps ==
  ASSUME NEW e \in Epoch, NEW u \in Thread, NEW n \in Nat
  PROVE  /\ \A c, d \in Clock : DominatesIn(e, u, n, c) /\ DominatesIn(e, u, n, d) =>
                                  DominatesIn(e, u, n, Join(c, d))
         /\ \A c \in Clock, t \in Thread :
              DominatesIn(e, u, n, c) /\ (e.thd = t => e.clk <= c[t]) =>
                DominatesIn(e, u, n, Increment(c, t))
  <1>0. e.clk \in Nat BY DEF Epoch
  <1>1. ASSUME NEW c \in Clock, NEW d \in Clock, DominatesIn(e, u, n, c), DominatesIn(e, u, n, d)
        PROVE  DominatesIn(e, u, n, Join(c, d))
    <2>1. \A w \in Thread : /\ c[w] \in Nat /\ d[w] \in Nat
                            /\ c[w] <= Join(c, d)[w] /\ d[w] <= Join(c, d)[w]
                            /\ Join(c, d)[w] = c[w] \/ Join(c, d)[w] = d[w]
      BY JoinProp DEF Clock
    <2>2. Has(Join(c, d), e) => Has(c, e) \/ Has(d, e)
      BY <2>1 DEF Has
    <2>3. Join(c, d)[u] \in Nat /\ c[u] \in Nat /\ d[u] \in Nat BY <2>1
    <2> QED BY <1>1, <2>1, <2>2, <2>3 DEF DominatesIn
  <1>2. ASSUME NEW c \in Clock, NEW t \in Thread, DominatesIn(e, u, n, c), e.thd = t => e.clk <= c[t]
        PROVE  DominatesIn(e, u, n, Increment(c, t))
    <2>1. \A w \in Thread : /\ c[w] \in Nat /\ Increment(c, t)[w] \in Nat
                            /\ c[w] <= Increment(c, t)[w]
                            /\ w # t => Increment(c, t)[w] = c[w]
      BY IncrementProp DEF Clock
    <2>2. Has(Increment(c, t), e) => Has(c, e)
      BY <1>2, <2>1 DEF Has
    <2>3. c[u] \in Nat /\ Increment(c, t)[u] \in Nat /\ c[u] <= Increment(c, t)[u] BY <2>1
    <2> QED BY <1>2, <2>2, <2>3 DEF DominatesIn
  <1> QED BY <1>1, <1>2

\* Of any number of clocks as well.
LEMMA DominatesJoinAll ==
  ASSUME NEW e \in Epoch, NEW u \in Thread, NEW n \in Nat, NEW c \in Clock,
         NEW d \in [Thread -> Clock], NEW S \in SUBSET Thread,
         DominatesIn(e, u, n, c), \A w \in S : DominatesIn(e, u, n, d[w])
  PROVE  DominatesIn(e, u, n, JoinAll(c, d, S))
  <1>0. e.clk \in Nat BY DEF Epoch
  <1> DEFINE J == JoinAll(c, d, S)
  <1>1. /\ J \in Clock
        /\ \A x \in Thread : /\ c[x] <= J[x]
                             /\ \A w \in S : d[w][x] <= J[x]
                             /\ J[x] = c[x] \/ \E w \in S : J[x] = d[w][x]
    BY JoinAllProp
  <1> HIDE DEF J
  <1>2. /\ J[u] \in Nat /\ c[u] \in Nat /\ \A w \in S : d[w][u] \in Nat
    BY <1>1 DEF Clock
  <1>3. Has(J, e) => Has(c, e) \/ \E w \in S : Has(d[w], e)
    BY <1>1 DEF Has
  <1>4. ASSUME Has(J, e) PROVE n <= J[u]
    <2>1. CASE Has(c, e) BY <1>1, <1>2, <2>1 DEF DominatesIn
    <2>2. ASSUME NEW w \in S, Has(d[w], e) PROVE n <= J[u]
      <3>1. n <= d[w][u] BY <2>2 DEF DominatesIn
      <3> QED BY <1>1, <1>2, <3>1
    <2> QED BY <1>3, <1>4, <2>1, <2>2
  <1> QED BY <1>4 DEF DominatesIn, J

\* No step undoes domination by an epoch that its thread has passed.
LEMMA DominatesStep ==
  ASSUME TypeOK, CallInv, NEW t \in Thread, Step(t), NEW e \in Epoch, NEW u \in Thread, NEW n \in Nat,
         e.thd \in Thread => Passed(e.thd, e.clk), Dominates(e, u, n)
  PROVE  Dominates(e, u, n)'
  <1> DEFINE Good(c)  == c \in Clock /\ DominatesIn(e, u, n, c)
             Own(c)   == Good(c) /\ (e.thd = t => e.clk <= c[t])
             Objects  == /\ \A w \in Thread : Good(signalTable'[w]) /\ Good(waitTable'[w])
                         /\ \A m \in Mutex : Good(mutexVc'[m])
                         /\ Good(rwVc') /\ Good(rwWait') /\ Good(semVc') /\ Good(barVc')
  <1>0. e.clk \in Nat BY DEF Epoch
  <1>a. /\ \A w \in Thread : Good(signalTable[w]) /\ Good(waitTable[w]) /\ Good(vc[w])
        /\ \A m \in Mutex : Good(mutexVc[m])
        /\ Good(rwVc) /\ Good(rwWait) /\ Good(semVc) /\ Good(barVc) /\ Good(Zero)
    BY ZeroProp DEF TypeOK, Dominates
  <1>b. /\ \A c, d : Good(c) /\ Good(d) => Good(Join(c, d))
        /\ \A c, d : Own(c) /\ Good(d) => Own(Join(c, d))
        /\ \A c : Own(c) => Own(Increment(c, t)) /\ Good(c)
    <2>1. \A c, d : Good(c) /\ Good(d) => Good(Join(c, d)) BY JoinProp, DominatesOps
    <2>2. ASSUME NEW c \in Clock, NEW d \in Clock, Own(c), Good(d) PROVE Own(Join(c, d))
      <3>1. c[t] <= Join(c, d)[t] /\ c[t] \in Nat /\ Join(c, d)[t] \in Nat
        BY JoinProp DEF Clock
      <3> QED BY <1>0, <2>1, <2>2, <3>1
    <2>3. ASSUME NEW c \in Clock, Own(c) PROVE Own(Increment(c, t))
      <3>1. Increment(c, t) \in Clock /\ c[t] <= Increment(c, t)[t] /\ c[t] \in Nat
            /\ Increment(c, t)[t] \in Nat
        BY IncrementProp DEF Clock
      <3>2. DominatesIn(e, u, n, Increment(c, t)) BY <2>3, DominatesOps
      <3> QED BY <1>0, <2>3, <3>1, <3>2
    <2> QED BY <2>1, <2>2, <2>3
  <1>c. UNCHANGED <<mutexVc, rwVc, rwWait, condVars, barVc, semVc>> => Objects
    BY <1>a DEF condVars
  <1>d. ASSUME \A w \in Thread : Good(vc'[w]), Objects PROVE Dominates(e, u, n)'
    BY <1>a, <1>d DEF Dominates
  <1>f. /\ vc \in [Thread -> Clock] /\ waitTable \in [Thread -> Clock] /\ mutexVc \in [Mutex -> Clock]
        /\ signalTable \in [Thread -> Clock]
    BY DEF TypeOK
  <1>g. \A c : Good(c) /\ vc' = [vc EXCEPT ![t] = c] => \A w \in Thread : Good(vc'[w])
    BY <1>a, <1>f
  <1>h. pc[t] \notin {"unborn", "starting", "reaped"} => Own(vc[t])
    BY <1>a DEF Passed
  <1>i. \A c : Good(c) => c \in Clock /\ DominatesIn(e, u, n, c) OBVIOUS
  <1>j. \A c \in Clock : DominatesIn(e, u, n, c) => Good(c) OBVIOUS
  <1>x. SUFFICES (\A w \in Thread : Good(vc'[w])) /\ Objects BY <1>d
  <1> HIDE DEF Good, Own
  <1> USE DEF SetVc, SetVcInc, Move
  <1>1. CASE Silent(t)
    <2>1. UNCHANGED clocks BY <1>1, SilentClocks
    <2> QED BY <1>a, <1>c, <2>1 DEF clocks, condVars
  <1>2. CASE ThreadStart(t)
    <2>0. PICK p \in Thread \ {t} : p = arg[t] /\ vc[p] # Zero
      BY <1>2 DEF ThreadStart, CallInv
    <2> DEFINE c == Join(Increment(Zero, t), vc[p])
               d == Increment(vc[p], p)
    <2>1. pc[t] = "starting" /\ vc' = [vc EXCEPT ![t] = c, ![p] = d]
      BY <1>2, <2>0 DEF ThreadStart
    <2>2. e.thd = t => e.clk <= Zero[t] BY <2>1, ZeroProp DEF Passed
    <2>3. e.thd = p => e.clk <= vc[p][p] BY <2>0 DEF Passed
    <2>4. Good(Increment(Zero, t))
      <3>1. DominatesIn(e, u, n, Increment(Zero, t)) BY <1>a, <1>i, <2>2, DominatesOps
      <3> QED BY <1>j, <3>1, ZeroProp, IncrementProp
    <2>5. Good(c) BY <1>a, <1>b, <2>0, <2>4
    <2>6. Good(d)
      <3>1. DominatesIn(e, u, n, d) BY <1>a, <1>i, <2>3, DominatesOps
      <3> QED BY <1>f, <1>j, <3>1, IncrementProp
    <2> HIDE DEF c, d
    <2>7. \A w \in Thread : vc'[w] = IF w = p THEN d ELSE IF w = t THEN c ELSE vc[w]
      BY <1>f, <2>1
    <2>8. Objects BY <1>2, <1>c DEF ThreadStart, lockVars, rwVars, barVars, semVars
    <2> QED BY <1>a, <2>5, <2>6, <2>7, <2>8
  <1>3. ASSUME NEW there \in {"run", "pruning"}, AfterPthreadJoin(t, there)
        PROVE  (\A w \in Thread : Good(vc'[w])) /\ Objects
    <2> DEFINE c == Increment(Join(vc[t], vc[arg[t]]), t)
    <2>1. /\ arg[t] \in Thread \ {t} /\ pc[t] = "joined"
          /\ vc' = [vc EXCEPT ![t] = c, ![arg[t]] = Zero]
      BY <1>3 DEF AfterPthreadJoin, CallInv
    <2>2. Objects BY <1>3, <1>c DEF AfterPthreadJoin, lockVars, rwVars, barVars, semVars
    <2>3. Good(c) BY <1>a, <1>b, <1>h, <2>1
    <2> HIDE DEF c
    <2>4. \A w \in Thread : vc'[w] = IF w = arg[t] THEN Zero ELSE IF w = t THEN c ELSE vc[w]
      BY <1>f, <2>1
    <2> QED BY <1>a, <2>2, <2>3, <2>4
  <1>4. ASSUME NEW m \in Mutex, BeforePthreadMutexUnlock(t, m)
        PROVE  (\A w \in Thread : Good(vc'[w])) /\ Objects
    <2>1. Objects
      BY <1>4, <1>a, <1>f DEF BeforePthreadMutexUnlock, rwVars, condVars, barVars, semVars
    <2> QED BY <1>4, <1>b, <1>g, <1>h, <2>1 DEF BeforePthreadMutexUnlock
  <1>5. CASE AfterPthreadMutexLock(t)
    <2>1. arg[t] \in Mutex BY <1>5 DEF AfterPthreadMutexLock, CallInv
    <2>2. Objects BY <1>5, <1>c DEF AfterPthreadMutexLock, lockVars, rwVars, barVars, semVars
    <2> QED BY <1>5, <1>a, <1>b, <1>g, <2>1, <2>2 DEF AfterPthreadMutexLock
  <1>6. CASE AfterPthreadRwlock(t)
    <2>1. Objects BY <1>6, <1>c DEF AfterPthreadRwlock, lockVars, barVars, semVars
    <2> QED BY <1>6, <1>a, <1>b, <1>g, <2>1 DEF AfterPthreadRwlock
  <1>7. CASE BeforePthreadRwlockUnlock(t)
    <2>1. Good(rwVc') /\ Good(rwWait')
      BY <1>7, <1>a, <1>b DEF BeforePthreadRwlockUnlock, ReleaseCounted, ReleaseOverwritten
    <2>2. UNCHANGED <<mutexVc, waitTable, signalTable, barVc, semVc>>
      BY <1>7 DEF BeforePthreadRwlockUnlock, lockVars, condVars, barVars, semVars
    <2>3. Objects BY <1>a, <2>1, <2>2
    <2> QED BY <1>7, <1>b, <1>g, <1>h, <2>3 DEF BeforePthreadRwlockUnlock
  <1>8. CASE BeforePthreadCondWait(t)
    <2>1. Objects
      BY <1>8, <1>a, <1>b, <1>f, <1>h DEF BeforePthreadCondWait, rwVars, barVars, semVars
    <2> QED BY <1>8, <1>b, <1>g, <1>h, <2>1 DEF BeforePthreadCondWait
  <1>9. CASE ProcessNotify(t)
    <2> DEFINE c == JoinAll(vc[t], waitTable, Waiting)
    <2>1. Good(c) /\ (e.thd = t => e.clk <= c[t])
      <3>1. Waiting \in SUBSET Thread /\ vc[t] \in Clock BY <1>f DEF Waiting
      <3>2. c \in Clock /\ vc[t][t] <= c[t] BY <1>f, <3>1, JoinAllProp
      <3>3. DominatesIn(e, u, n, c) BY <1>a, <1>f, <1>i, <3>1, DominatesJoinAll
      <3>4. Own(vc[t]) BY <1>9, <1>h DEF ProcessNotify
      <3>5. vc[t][t] \in Nat /\ c[t] \in Nat BY <3>1, <3>2 DEF Clock
      <3> HIDE DEF c
      <3> QED BY <1>0, <1>j, <3>2, <3>3, <3>4, <3>5 DEF Own
    <2>2. /\ signalTable' = [w \in Thread |-> IF w \in Waiting THEN c ELSE signalTable[w]]
          /\ vc' = [vc EXCEPT ![t] = Increment(c, t)]
          /\ UNCHANGED <<mutexVc, rwVc, rwWait, waitTable, barVc, semVc>>
      BY <1>9 DEF ProcessNotify, lockVars, rwVars, barVars, semVars
    <2> HIDE DEF c
    <2>3. Objects BY <1>a, <2>1, <2>2
    <2>4. Own(c) BY <2>1 DEF Own
    <2> QED BY <1>b, <1>g, <2>2, <2>3, <2>4
  <1>10. CASE AfterPthreadCondWait(t)
    <2>1. arg[t] \in Mutex
      BY <1>10, CondAssumption DEF AfterPthreadCondWait, CallInv, CondPC
    <2>2. Objects
      BY <1>10, <1>a, <1>f DEF AfterPthreadCondWait, lockVars, rwVars, barVars, semVars
    <2> QED BY <1>10, <1>a, <1>b, <1>g, <2>1, <2>2 DEF AfterPthreadCondWait
  <1>11. CASE BeforePthreadBarrierWait(t)
    <2>1. Objects
      BY <1>11, <1>a, <1>b DEF BeforePthreadBarrierWait, lockVars, rwVars, condVars, semVars
    <2> QED BY <1>11, <1>a, <2>1 DEF BeforePthreadBarrierWait
  <1>12. CASE AfterPthreadBarrierWait(t)
    <2>1. Objects
      BY <1>12, <1>a DEF AfterPthreadBarrierWait, lockVars, rwVars, condVars, semVars
    <2> QED BY <1>12, <1>a, <1>b, <1>g, <1>h, <2>1 DEF AfterPthreadBarrierWait
  <1>13. CASE BeforeSemPost(t)
    <2>1. Objects
      BY <1>13, <1>a, <1>b DEF BeforeSemPost, lockVars, rwVars, condVars, barVars
    <2> QED BY <1>13, <1>b, <1>g, <1>h, <2>1 DEF BeforeSemPost
  <1>14. CASE AfterSemWait(t)
    <2>1. Objects BY <1>14, <1>c DEF AfterSemWait, lockVars, rwVars, barVars, semVars
    <2> QED BY <1>14, <1>a, <1>b, <1>g, <1>h, <2>1 DEF AfterSemWait
  <1> QED
    BY <1>1, <1>2, <1>3, <1>4, <1>5, <1>6, <1>7, <1>8, <1>9, <1>10, <1>11, <1>12, <1>13, <1>14, StepCases

-----------------------------------------------------------------------------
(* Steps of the program between accesses. *)

\* What a thread has passed it has passed for good.
LEMMA PassedStep ==
  ASSUME TypeOK, TypeOK', CallInv, NEW t \in Thread, Step(t), NEW u \in Thread, NEW n \in Nat,
         Passed(u, n)
  PROVE  Passed(u, n)'
  <1>0. vc[u][u] \in Nat /\ vc'[u][u] \in Nat BY DEF TypeOK, Clock
  <1>1. CASE pc[u] \in {"unborn", "starting"}
    BY <1>0, <1>1 DEF Passed
  <1>2. CASE pc[u] \notin {"unborn", "starting"}
    <2>1. pc'[u] \notin {"unborn", "starting"} BY <1>2, PcOrder
    <2>2. ASSUME vc'[u] # Zero \/ pc'[u] # "reaped" PROVE n <= vc'[u][u]
      <3>1. pc[u] = "reaped" => pc'[u] = "reaped" BY PcOrder
      <3>2. HappensBefore(vc[u], vc'[u]) /\ (vc[u] # Zero \/ pc[u] # "reaped")
        BY <1>2, <2>2, <3>1, VcGrows
      <3> QED BY <1>0, <3>2 DEF Passed, HappensBefore
    <2> QED BY <2>1, <2>2 DEF Passed
  <1> QED BY <1>1, <1>2

\* A thread that can make accesses again is in a new epoch.
LEMMA AliveAgain ==
  ASSUME TypeOK, TypeOK', CallInv, EpochInv', NEW t \in Thread, Step(t), NEW u \in Thread,
         pc'[u] \in Alive
  PROVE  \/ pc[u] \in Alive
         \/ pc[u] = "starting" /\ vc'[u][u] > 0
         \/ pc[u] \in BarPC /\ vc'[u][u] > vc[u][u]
  <1>1. CASE u # t BY <1>1, OtherPc DEF Alive, BarPC, PC
  <1>2. CASE u = t /\ Silent(t) BY <1>2, SilentPc DEF Alive, BarPC, PC
  <1>3. CASE u = t /\ ThreadStart(t)
    <2>1. pc[u] = "starting" BY <1>3 DEF ThreadStart, Move
    <2>2. rwVc'[u] \in Nat /\ vc'[u][u] \in Nat BY DEF TypeOK, Clock
    <2>3. rwVc'[u] <= vc'[u][u] - 1 BY DEF EpochInv, EpochOf, ClocksBelow
    <2> QED BY <2>1, <2>2, <2>3
  <1>4. CASE u = t /\ AfterPthreadBarrierWait(t)
    <2>1. pc[t] = "barrierOpen" /\ vc' = [vc EXCEPT ![t] = Increment(Join(vc[t], barVc), t)]
      BY <1>4 DEF AfterPthreadBarrierWait, Move, SetVc, SetVcInc
    <2>2. vc[t] \in Clock /\ barVc \in Clock /\ vc[t][t] \in Nat BY DEF TypeOK, Clock
    <2> DEFINE c == Join(vc[t], barVc)
    <2>3. c \in Clock /\ vc[t][t] <= c[t] /\ c[t] \in Nat BY <2>2, JoinProp DEF Clock
    <2> HIDE DEF c
    <2>4. Increment(c, t)[t] = c[t] + 1 BY <2>3, IncrementProp
    <2>5. vc'[t] = Increment(c, t) BY <2>1 DEF TypeOK, c
    <2> QED BY <1>4, <2>1, <2>2, <2>3, <2>4, <2>5 DEF BarPC
  <1>5. CASE /\ u = t
             /\ \/ \E there \in {"run", "pruning"} : AfterPthreadJoin(t, there)
                \/ \E m \in Mutex : BeforePthreadMutexUnlock(t, m)
                \/ AfterPthreadMutexLock(t)
                \/ AfterPthreadRwlock(t) \/ BeforePthreadRwlockUnlock(t)
                \/ BeforePthreadCondWait(t) \/ ProcessNotify(t) \/ AfterPthreadCondWait(t)
                \/ BeforePthreadBarrierWait(t) \/ BeforeSemPost(t) \/ AfterSemWait(t)
    BY <1>5 DEF AfterPthreadJoin, BeforePthreadMutexUnlock, AfterPthreadMutexLock, AfterPthreadRwlock,
       BeforePthreadRwlockUnlock, BeforePthreadCondWait, ProcessNotify, AfterPthreadCondWait,
       BeforePthreadBarrierWait, BeforeSemPost, AfterSemWait, Move, Alive, BarPC, PC
  <1> QED BY <1>1, <1>2, <1>3, <1>4, <1>5, StepCases

\* So the accesses that are skipped stay the same.
LEMMA FrameStep ==
  ASSUME TypeOK, TypeOK', CallInv, EpochInv', RaceTypes, PassedInv, FrameInv,
         NEW t \in Thread, Step(t), UNCHANGED <<djit, ftWriter>>
  PROVE  FrameInv'
  <1> SUFFICES ASSUME NEW u \in Thread, pc'[u] \in Alive
               PROVE  /\ djit.reader[u] = vc'[u][u] => HappensBefore(djit.writer, vc'[u])
                      /\ djit.writer[u] = vc'[u][u] => ftWriter = [thd |-> u, clk |-> vc'[u][u]]
    BY DEF FrameInv
  <1>a. djit.reader \in Clock /\ djit.writer \in Clock BY DEF RaceTypes, DjitMeta
  <1>b. vc[u] \in Clock /\ vc'[u] \in Clock BY DEF TypeOK
  <1>1. /\ djit.reader[u] \in Nat /\ djit.writer[u] \in Nat /\ djit.writer \in Clock
        /\ vc[u] \in Clock /\ vc'[u] \in Clock /\ vc[u][u] \in Nat /\ vc'[u][u] \in Nat
    BY <1>a, <1>b DEF Clock
  <1>2. Passed(u, djit.reader[u]) /\ Passed(u, djit.writer[u]) BY DEF PassedInv
  <1>3. CASE pc[u] \in Alive
    <2>1. djit.reader[u] <= vc[u][u] /\ djit.writer[u] <= vc[u][u]
      BY <1>2, <1>3 DEF Passed, Alive
    <2>2. HappensBefore(vc[u], vc'[u]) BY <1>3, VcGrows DEF Alive
    <2>3. vc[u][u] <= vc'[u][u] BY <2>2 DEF HappensBefore
    <2>4. /\ djit.reader[u] = vc[u][u] => HappensBefore(djit.writer, vc[u])
          /\ djit.writer[u] = vc[u][u] => ftWriter = [thd |-> u, clk |-> vc[u][u]]
      BY <1>3 DEF FrameInv
    <2>5. ASSUME djit.reader[u] = vc'[u][u] PROVE HappensBefore(djit.writer, vc'[u])
      <3>1. djit.reader[u] = vc[u][u] BY <1>1, <2>1, <2>3, <2>5
      <3> QED BY <1>1, <2>2, <2>4, <3>1, ClockOrder
    <2>6. ASSUME djit.writer[u] = vc'[u][u] PROVE ftWriter = [thd |-> u, clk |-> vc'[u][u]]
      <3>1. djit.writer[u] = vc[u][u] BY <1>1, <2>1, <2>3, <2>6
      <3> QED BY <2>4, <2>6, <3>1
    <2> QED BY <2>5, <2>6
  <1>4. CASE pc[u] = "starting" /\ vc'[u][u] > 0
    BY <1>1, <1>2, <1>4 DEF Passed
  <1>5. CASE pc[u] \in BarPC /\ vc'[u][u] > vc[u][u]
    BY <1>1, <1>2, <1>5 DEF Passed, BarPC
  <1> QED BY <1>3, <1>4, <1>5, AliveAgain

\* An epoch of FastTrack is Djit's, so its thread has passed it.
LEMMA KeptPassed ==
  ASSUME TypeOK, RaceTypes, PassedInv, KeptInv
  PROVE  /\ {ftWriter} \cup Remembered \subseteq Epoch
         /\ \A e \in {ftWriter} \cup Remembered : e.thd \in Thread => Passed(e.thd, e.clk)
  <1>1. \A u \in Thread : /\ djit.reader[u] \in Nat /\ djit.writer[u] \in Nat /\ ftReaderVc[u] \in Nat
                          /\ vc[u][u] \in Nat
    BY DEF RaceTypes, DjitMeta, TypeOK, Clock
  <1>2. ftReader \in Epoch /\ ftWriter \in Epoch /\ ftReader.clk \in Nat /\ ftWriter.clk \in Nat
    BY DEF RaceTypes, Epoch
  <1>3. \A u \in Thread : [thd |-> u, clk |-> ftReaderVc[u]] \in Epoch BY <1>1 DEF Epoch
  <1>4. {ftWriter} \cup Remembered \subseteq Epoch BY <1>2, <1>3 DEF Remembered
  <1>5. ASSUME NEW u \in Thread, NEW n \in Nat, n <= djit.reader[u] \/ n <= djit.writer[u]
        PROVE  Passed(u, n)
    <2>1. Passed(u, djit.reader[u]) /\ Passed(u, djit.writer[u]) BY DEF PassedInv
    <2> QED BY <1>1, <1>5, <2>1 DEF Passed
  <1>6. ftWriter.thd \in Thread => Passed(ftWriter.thd, ftWriter.clk)
    BY <1>2, <1>5 DEF KeptInv
  <1>7. ftReader.thd \in Thread => Passed(ftReader.thd, ftReader.clk)
    BY <1>2, <1>5 DEF KeptInv
  <1>8. \A u \in Thread : Passed(u, ftReaderVc[u])
    BY <1>1, <1>5 DEF KeptInv, HappensBefore
  <1> QED BY <1>4, <1>6, <1>7, <1>8 DEF Remembered

\* A step without an access keeps what FastTrack and Djit agree on.
LEMMA QuietAgree ==
  ASSUME TypeOK, TypeOK', CallInv, EpochInv', RaceTypes, PassedInv, AgreeInv,
         NEW t \in Thread, Step(t), UNCHANGED <<djit, ftReader, ftWriter, shared>>,
         ftReaderVc' = ftReaderVc \/ (~shared /\ HappensBefore(ftReaderVc', djit.reader))
  PROVE  AgreeInv'
  <1>0. KeptInv /\ DominatedInv /\ FrameInv BY DEF AgreeInv
  <1>1. KeptInv' BY <1>0 DEF KeptInv
  <1>2. FrameInv' BY <1>0, FrameStep
  <1>3. ASSUME NEW e \in {ftWriter} \cup Remembered, NEW u \in Thread, NEW n \in Nat, Dominates(e, u, n)
        PROVE  Dominates(e, u, n)'
    <2>1. e \in Epoch /\ (e.thd \in Thread => Passed(e.thd, e.clk)) BY <1>0, KeptPassed
    <2> QED BY <1>3, <2>1, DominatesStep
  <1>4. Remembered' = Remembered BY DEF Remembered
  <1>5. ASSUME NEW u \in Thread PROVE Dominates(ftWriter, u, djit.writer[u])'
    <2>1. PICK n \in Nat : n = djit.writer[u] BY DEF RaceTypes, DjitMeta, Clock
    <2>2. PICK e \in {ftWriter} \cup Remembered : e = ftWriter OBVIOUS
    <2>3. Dominates(e, u, n)
      BY <1>0, <2>1, <2>2 DEF DominatedInv
    <2>4. Dominates(e, u, n)' BY <1>3, <2>3
    <2>5. ftWriter' = e /\ djit'.writer[u] = n BY <2>1, <2>2
    <2> QED BY <2>4, <2>5 DEF Dominates
  <1>6. ASSUME NEW u \in Thread
        PROVE  \E e \in {ftWriter'} \cup Remembered' : Dominates(e, u, djit.reader[u])'
    <2>1. PICK n \in Nat : n = djit.reader[u] BY DEF RaceTypes, DjitMeta, Clock
    <2>2. PICK e \in {ftWriter} \cup Remembered : Dominates(e, u, djit.reader[u])
      BY <1>0 DEF DominatedInv
    <2>3. Dominates(e, u, n)' BY <1>3, <2>1, <2>2
    <2>4. djit'.reader[u] = n BY <2>1
    <2>5. Dominates(e, u, djit.reader[u])' BY <2>3, <2>4 DEF Dominates
    <2> QED BY <1>4, <2>5
  <1>7. DominatedInv' BY <1>5, <1>6 DEF DominatedInv
  <1> QED BY <1>1, <1>2, <1>7 DEF AgreeInv

-----------------------------------------------------------------------------
(* Accesses. *)

\* No other clock has the epoch that a running thread is in: it dominates what
\* the thread has heard of.
LEMMA FreshEpoch ==
  ASSUME TypeOK, EpochInv, NEW t \in Thread, pc[t] = "run", NEW u \in Thread, NEW n \in Nat,
         n <= vc[t][u]
  PROVE  Dominates([thd |-> t, clk |-> Now(t)], u, n)
  <1> DEFINE now == [thd |-> t, clk |-> Now(t)]
  <1>1. vc[t][t] \in Nat /\ \A c \in Clock : c[t] \in Nat BY DEF TypeOK, Clock
  <1>2. ClocksBelow(t, vc[t][t] - 1) BY DEF EpochInv, EpochOf, Alive, PC, BarPC
  <1>3. ASSUME NEW c \in Clock, c[t] <= vc[t][t] - 1 PROVE DominatesIn(now, u, n, c)
    BY <1>1, <1>3 DEF DominatesIn, Has, Now
  <1>4. DominatesIn(now, u, n, vc[t]) BY DEF DominatesIn
  <1> HIDE DEF now
  <1>5. /\ \A w \in Thread : vc[w] \in Clock /\ signalTable[w] \in Clock /\ waitTable[w] \in Clock
        /\ \A m \in Mutex : mutexVc[m] \in Clock
        /\ rwVc \in Clock /\ rwWait \in Clock /\ semVc \in Clock /\ barVc \in Clock
    BY DEF TypeOK
  <1>6. 0 <= vc[t][t] - 1
    <2>1. rwVc[t] \in Nat /\ rwVc[t] <= vc[t][t] - 1 BY <1>1, <1>2, <1>5 DEF ClocksBelow
    <2> QED BY <1>1, <2>1
  <1>7. DominatesIn(now, u, n, Zero) BY <1>3, <1>6, ZeroProp
  <1>8. \A w \in Thread : DominatesIn(now, u, n, vc[w])
    BY <1>2, <1>3, <1>4, <1>5 DEF ClocksBelow
  <1> QED BY <1>2, <1>3, <1>5, <1>7, <1>8 DEF Dominates, ClocksBelow, now

\* A running thread is not ahead of itself: what it asks of an epoch is whether
\* its clock has it.
LEMMA AheadHas ==
  ASSUME TypeOK, RaceTypes, PassedInv, KeptInv, NEW t \in Thread, pc[t] = "run"
  PROVE  /\ \A e \in {ftWriter} \cup Remembered : Ahead(e, t) = {} <=> Has(vc[t], e)
         /\ djit.reader[t] <= Now(t) /\ djit.writer[t] <= Now(t)
         /\ djit.reader[t] \in Nat /\ djit.writer[t] \in Nat /\ Now(t) \in Nat
  <1>1. \A u \in Thread : vc[t][u] \in Nat BY DEF TypeOK, Clock
  <1>2. ASSUME NEW e \in {ftWriter} \cup Remembered PROVE Ahead(e, t) = {} <=> Has(vc[t], e)
    <2>1. e \in Epoch /\ (e.thd \in Thread => Passed(e.thd, e.clk)) BY KeptPassed
    <2>2. e.thd = t => e.clk <= vc[t][t] BY <2>1 DEF Passed
    <2>3. e.clk \in Nat BY <2>1 DEF Epoch
    <2> QED BY <1>1, <2>2, <2>3 DEF Ahead, Has
  <1>3. djit.reader \in Clock /\ djit.writer \in Clock BY DEF RaceTypes, DjitMeta
  <1>4. Passed(t, djit.reader[t]) /\ Passed(t, djit.writer[t]) BY DEF PassedInv
  <1> QED BY <1>1, <1>2, <1>3, <1>4 DEF Passed, Now, Clock

\* A thread that has heard of the last write that FastTrack remembers has heard
\* of all that Djit does.
LEMMA WriterAgrees ==
  ASSUME TypeOK, RaceTypes, PassedInv, KeptInv, DominatedInv, NEW t \in Thread, pc[t] = "run"
  PROVE  /\ Ahead(ftWriter, t) = {} => HappensBefore(djit.writer, vc[t])
         /\ HappensBefore(djit.writer, vc[t]) <=> Concurrent(djit.writer, t) = {}
         /\ Concurrent(djit.writer, t) = {} => Ahead(ftWriter, t) = {}
  <1>1. \A u \in Thread : vc[t][u] \in Nat BY DEF TypeOK, Clock
  <1>2. \A u \in Thread : djit.writer[u] \in Nat BY DEF RaceTypes, DjitMeta, Clock
  <1>3. djit.writer[t] <= vc[t][t] BY AheadHas DEF Now
  <1>4. HappensBefore(djit.writer, vc[t]) <=> Concurrent(djit.writer, t) = {}
    BY <1>1, <1>2, <1>3 DEF HappensBefore, Concurrent
  <1>5. ASSUME Ahead(ftWriter, t) = {}, NEW u \in Thread PROVE djit.writer[u] <= vc[t][u]
    <2>1. Has(vc[t], ftWriter) BY <1>5, AheadHas
    <2>2. Dominates(ftWriter, u, djit.writer[u]) BY DEF DominatedInv
    <2> QED BY <2>1, <2>2 DEF Dominates, DominatesIn
  <1>6. ASSUME HappensBefore(djit.writer, vc[t]) PROVE Ahead(ftWriter, t) = {}
    <2>1. ftWriter.clk \in Nat BY DEF RaceTypes, Epoch
    <2>2. Has(vc[t], ftWriter) BY <1>1, <1>2, <1>6, <2>1 DEF KeptInv, HappensBefore, Has
    <2> QED BY <2>2, AheadHas
  <1> QED BY <1>4, <1>5, <1>6 DEF HappensBefore

\* The same of the reads, for a writer that has heard of the last write.
LEMMA ReaderAgrees ==
  ASSUME TypeOK, RaceTypes, PassedInv, KeptInv, DominatedInv, NEW t \in Thread, pc[t] = "run",
         NEW reading, reading = IF shared THEN Concurrent(ftReaderVc, t) ELSE Ahead(ftReader, t)
  PROVE  /\ Ahead(ftWriter, t) = {} /\ reading = {} => HappensBefore(djit.reader, vc[t])
         /\ HappensBefore(djit.reader, vc[t]) <=> Concurrent(djit.reader, t) = {}
         /\ Concurrent(djit.reader, t) = {} => reading = {}
  <1>1. \A u \in Thread : vc[t][u] \in Nat BY DEF TypeOK, Clock
  <1>2. \A u \in Thread : djit.reader[u] \in Nat BY DEF RaceTypes, DjitMeta, Clock
  <1>3. djit.reader[t] <= vc[t][t] BY AheadHas DEF Now
  <1>4. HappensBefore(djit.reader, vc[t]) <=> Concurrent(djit.reader, t) = {}
    BY <1>1, <1>2, <1>3 DEF HappensBefore, Concurrent
  <1>5. \A u \in Thread : ftReaderVc[u] \in Nat /\ ftReaderVc[u] <= djit.reader[u]
    BY DEF RaceTypes, Clock, KeptInv, HappensBefore
  <1>6. ASSUME Ahead(ftWriter, t) = {}, reading = {}, NEW u \in Thread PROVE djit.reader[u] <= vc[t][u]
    <2>1. PICK e \in {ftWriter} \cup Remembered : Dominates(e, u, djit.reader[u]) BY DEF DominatedInv
    <2>2. Has(vc[t], ftWriter) BY <1>6, AheadHas
    <2>3. CASE shared
      <3>1. \A w \in Thread \ {t} : ~(ftReaderVc[w] > vc[t][w]) BY <1>6, <2>3 DEF Concurrent
      <3>2. \A w \in Thread : ftReaderVc[w] <= vc[t][w]
        BY <1>1, <1>2, <1>3, <1>5, <3>1
      <3>3. \A f \in Remembered : Has(vc[t], f) BY <2>3, <3>2 DEF Remembered, Has
      <3> QED BY <2>1, <2>2, <3>3 DEF Dominates, DominatesIn
    <2>4. CASE ~shared
      <3>1. ftReader \in Remembered /\ Remembered = {ftReader} BY <2>4 DEF Remembered
      <3>2. Has(vc[t], ftReader) BY <1>6, <2>4, <3>1, AheadHas
      <3> QED BY <2>1, <2>2, <3>1, <3>2 DEF Dominates, DominatesIn
    <2> QED BY <2>3, <2>4
  <1>7. ASSUME HappensBefore(djit.reader, vc[t]) PROVE reading = {}
    <2>1. CASE shared BY <1>1, <1>2, <1>5, <1>7, <2>1 DEF HappensBefore, Concurrent
    <2>2. CASE ~shared
      <3>1. ftReader.clk \in Nat BY DEF RaceTypes, Epoch
      <3>2. Has(vc[t], ftReader) BY <1>1, <1>2, <1>7, <3>1 DEF KeptInv, HappensBefore, Has
      <3>3. ftReader \in Remembered BY <2>2 DEF Remembered
      <3> QED BY <2>2, <3>2, <3>3, AheadHas
    <2> QED BY <2>1, <2>2
  <1> QED BY <1>4, <1>6, <1>7 DEF HappensBefore

\* An access changes no clock.
LEMMA DominatedSame ==
  ASSUME NEW t \in Thread, Touch(t),
         \A u \in Thread : Dominates(ftWriter', u, djit'.writer[u]),
         \A u \in Thread : \E e \in {ftWriter'} \cup Remembered' : Dominates(e, u, djit'.reader[u])
  PROVE  DominatedInv'
  <1>1. UNCHANGED <<vc, signalTable, waitTable, mutexVc, rwVc, rwWait, semVc, barVc>>
    BY DEF Touch, lockVars, rwVars, condVars, barVars, semVars
  <1>2. \A u \in Thread : Dominates(ftWriter, u, djit.writer[u])' BY <1>1 DEF Dominates
  <1>3. ASSUME NEW u \in Thread
        PROVE  \E e \in {ftWriter'} \cup Remembered' : Dominates(e, u, djit.reader[u])'
    <2>1. PICK e \in {ftWriter'} \cup Remembered' : Dominates(e, u, djit'.reader[u]) OBVIOUS
    <2>2. Dominates(e, u, djit.reader[u])' BY <1>1, <2>1 DEF Dominates
    <2> QED BY <2>2
  <1> QED BY <1>2, <1>3 DEF DominatedInv

\* Of a running thread's epoch, what it has heard of is dominated.
LEMMA NowDominates ==
  ASSUME TypeOK, EpochInv, RaceTypes, NEW t \in Thread, pc[t] = "run", NEW u \in Thread, NEW n \in Nat,
         NEW e, Has(vc[t], e), Dominates(e, u, n)
  PROVE  Dominates([thd |-> t, clk |-> Now(t)], u, n)
  <1>1. n <= vc[t][u] BY DEF Dominates, DominatesIn
  <1> QED BY <1>1, FreshEpoch

\* A read without a race keeps the agreement.
LEMMA ReadKeeps ==
  ASSUME TypeOK, EpochInv, RaceTypes, PassedInv, AgreeInv, NEW t \in Thread, Touch(t), FtRead(t),
         djit' = DjitRead(djit, t), RaceTypes', HappensBefore(djit.writer, vc[t])
  PROVE  AgreeInv'
  <1> DEFINE now == [thd |-> t, clk |-> Now(t)]
  <1>0. /\ KeptInv /\ DominatedInv /\ FrameInv /\ pc[t] = "run"
        /\ UNCHANGED <<pc, vc>>
    BY DEF AgreeInv, Touch
  <1>1. /\ djit'.writer = djit.writer /\ djit'.reader = [djit.reader EXCEPT ![t] = Now(t)]
    BY DjitReadProp DEF RaceTypes, TypeOK
  <1>2. djit.reader[t] <= Now(t) /\ djit.reader[t] \in Nat /\ Now(t) \in Nat BY <1>0, AheadHas
  <1>3. djit.reader \in Clock /\ djit'.reader \in Clock /\ ftReaderVc \in Clock
        /\ ftReader \in Epoch /\ ftWriter \in Epoch /\ shared \in BOOLEAN
    BY DEF RaceTypes, DjitMeta
  <1>4. \A u \in Thread : djit'.reader[u] = IF u = t THEN Now(t) ELSE djit.reader[u]
    BY <1>1, <1>3 DEF Clock
  <1>5. \A u \in Thread : djit.reader[u] \in Nat /\ ftReaderVc[u] \in Nat
    BY <1>3 DEF Clock
  <1>6. FrameInv'
    <2>1. ASSUME NEW x \in Thread, pc[x] \in Alive
          PROVE  /\ djit'.reader[x] = vc[x][x] => HappensBefore(djit.writer, vc[x])
                 /\ djit.writer[x] = vc[x][x] => ftWriter = [thd |-> x, clk |-> vc[x][x]]
      BY <1>0, <1>4, <2>1 DEF FrameInv
    <2>2. ftWriter' = ftWriter BY FtReadProp DEF TypeOK
    <2> QED BY <1>0, <1>1, <2>1, <2>2 DEF FrameInv
  <1>7. ftWriter' = ftWriter BY FtReadProp DEF TypeOK
  <1>8. \A u \in Thread : Dominates(ftWriter', u, djit'.writer[u]) BY <1>0, <1>1, <1>7 DEF DominatedInv
  <1>9. SUFFICES /\ ftReader'.thd \in Thread =>
                      /\ ftReader'.clk <= djit'.reader[ftReader'.thd]
                      /\ ~shared' => ftReader'.clk = djit'.reader[ftReader'.thd]
                 /\ HappensBefore(ftReaderVc', djit'.reader)
                 /\ \A u \in Thread : \E e \in {ftWriter'} \cup Remembered' :
                      Dominates(e, u, djit'.reader[u])
    <2>1. KeptInv' BY <1>0, <1>1, <1>7, <1>9 DEF KeptInv
    <2>2. DominatedInv' BY <1>8, <1>9, DominatedSame
    <2> QED BY <1>6, <2>1, <2>2 DEF AgreeInv
  <1>10. CASE ftReader = now
    <2>1. UNCHANGED <<ftReader, ftWriter, ftReaderVc, shared>> BY <1>10 DEF FtRead, ftVars
    <2>2. djit.reader[t] = Now(t) BY <1>0, <1>2, <1>10 DEF KeptInv
    <2>3. djit'.reader = djit.reader BY <1>1, <1>3, <2>2 DEF Clock
    <2>4. Remembered' = Remembered BY <2>1 DEF Remembered
    <2> QED BY <1>0, <2>1, <2>3, <2>4 DEF KeptInv, DominatedInv
  <1>11. \A u \in Thread, n \in Nat : \A e : Has(vc[t], e) /\ Dominates(e, u, n) => Dominates(now, u, n)
    BY <1>0, NowDominates
  <1>12. Dominates(now, t, Now(t)) BY <1>0, <1>2, FreshEpoch DEF Now
  <1>13. Now(t) = vc[t][t] /\ now.thd = t /\ now.clk = Now(t) BY DEF Now
  <1>14. [thd |-> ftReader.thd, clk |-> ftReader.clk] = ftReader BY <1>3 DEF Epoch
  <1>15. CASE ftReader # now /\ shared
    <2>1. /\ ftReaderVc' = [ftReaderVc EXCEPT ![t] = Now(t)]
          /\ UNCHANGED <<ftReader, ftWriter, shared>>
      BY <1>15 DEF FtRead
    <2>2. \A u \in Thread : ftReaderVc'[u] = IF u = t THEN Now(t) ELSE ftReaderVc[u]
      BY <1>3, <2>1 DEF Clock
    <2>3. HappensBefore(ftReaderVc', djit'.reader) BY <1>0, <1>2, <1>4, <2>2 DEF KeptInv, HappensBefore
    <2>4. ftReader'.thd \in Thread => ftReader'.clk <= djit'.reader[ftReader'.thd]
      <3>1. ftReader.clk \in Nat BY <1>3 DEF Epoch
      <3>2. ftReader.thd \in Thread => ftReader.clk <= djit.reader[ftReader.thd] BY <1>0 DEF KeptInv
      <3> QED BY <1>2, <1>4, <1>5, <2>1, <3>1, <3>2
    <2>5. \A u \in Thread : [thd |-> u, clk |-> ftReaderVc'[u]] \in Remembered'
      BY <1>15, <2>1 DEF Remembered
    <2>6. ASSUME NEW u \in Thread, u # t
          PROVE  \E e \in {ftWriter'} \cup Remembered' : Dominates(e, u, djit'.reader[u])
      <3>1. PICK e \in {ftWriter} \cup Remembered : Dominates(e, u, djit.reader[u])
        BY <1>0 DEF DominatedInv
      <3>2. CASE e = ftWriter BY <1>4, <1>7, <2>6, <3>1, <3>2
      <3>3. ASSUME NEW w \in Thread, e = [thd |-> w, clk |-> ftReaderVc[w]], w # t
            PROVE  e \in Remembered'
        BY <2>2, <2>5, <3>3
      <3>4. CASE e = [thd |-> t, clk |-> ftReaderVc[t]]
        <4>1. ftReaderVc[t] <= vc[t][t]
          BY <1>0, <1>2, <1>5, <1>13 DEF KeptInv, HappensBefore
        <4>2. Has(vc[t], e) BY <3>4, <4>1 DEF Has
        <4>3. Dominates(now, u, djit.reader[u]) BY <1>5, <1>11, <3>1, <4>2
        <4>4. now \in Remembered' BY <2>2, <2>5
        <4> QED BY <1>4, <2>6, <4>3, <4>4
      <3> QED BY <1>4, <1>15, <2>6, <3>1, <3>2, <3>3, <3>4 DEF Remembered
    <2>7. \E e \in {ftWriter'} \cup Remembered' : Dominates(e, t, djit'.reader[t])
      <3>1. now \in Remembered' BY <2>2, <2>5
      <3> QED BY <1>4, <1>12, <3>1
    <2> QED BY <1>15, <2>1, <2>3, <2>4, <2>6, <2>7
  <1>16. CASE ftReader # now /\ ~shared /\ Ahead(ftReader, t) = {}
    <2>1. ftReader' = now /\ UNCHANGED <<ftReaderVc, shared>> BY <1>16 DEF FtRead
    <2>2. HappensBefore(ftReaderVc', djit'.reader)
      BY <1>0, <1>2, <1>4, <1>5, <2>1 DEF KeptInv, HappensBefore
    <2>3. Remembered = {ftReader} /\ Remembered' = {now} BY <1>16, <2>1 DEF Remembered
    <2>4. Has(vc[t], ftReader) BY <1>0, <1>16, <2>3, AheadHas
    <2>5. ASSUME NEW u \in Thread
          PROVE  \E e \in {ftWriter'} \cup Remembered' : Dominates(e, u, djit'.reader[u])
      <3>1. CASE u = t BY <1>4, <1>12, <2>3, <3>1
      <3>2. CASE u # t
        <4>1. PICK e \in {ftWriter} \cup Remembered : Dominates(e, u, djit.reader[u])
          BY <1>0 DEF DominatedInv
        <4>2. CASE e = ftWriter BY <1>4, <1>7, <3>2, <4>1, <4>2
        <4>3. CASE e = ftReader
          <5>1. Dominates(now, u, djit.reader[u]) BY <1>5, <1>11, <2>4, <4>1, <4>3
          <5> QED BY <1>4, <2>3, <3>2, <5>1
        <4> QED BY <2>3, <4>1, <4>2, <4>3
      <3> QED BY <3>1, <3>2
    <2>6. ftReader'.thd = t /\ ftReader'.clk = Now(t) /\ djit'.reader[t] = Now(t)
      BY <1>4, <1>13, <2>1
    <2>7. ftReader'.clk <= djit'.reader[t] BY <1>2, <2>6
    <2> QED BY <2>2, <2>5, <2>6, <2>7
  <1>17. CASE ftReader # now /\ ~shared /\ Ahead(ftReader, t) # {}
    <2>0. ftReader.thd \in Thread \ {t} BY <1>17 DEF Ahead
    <2>1. /\ ftReaderVc' = [ftReaderVc EXCEPT ![t] = Now(t), ![ftReader.thd] = ftReader.clk]
          /\ shared' = TRUE /\ ftReader' = ftReader
      BY <1>17 DEF FtRead
    <2>2. \A u \in Thread : ftReaderVc'[u] = IF u = ftReader.thd THEN ftReader.clk
                                             ELSE IF u = t THEN Now(t) ELSE ftReaderVc[u]
      BY <1>3, <2>0, <2>1 DEF Clock
    <2>3. ftReader.clk <= djit.reader[ftReader.thd] BY <1>0, <2>0 DEF KeptInv
    <2>4. HappensBefore(ftReaderVc', djit'.reader)
      BY <1>0, <1>2, <1>4, <2>0, <2>2, <2>3 DEF KeptInv, HappensBefore
    <2>5. Remembered = {ftReader} BY <1>17 DEF Remembered
    <2>6. \A u \in Thread : [thd |-> u, clk |-> ftReaderVc'[u]] \in Remembered'
      BY <2>1 DEF Remembered
    <2>7. ftReader \in Remembered' /\ now \in Remembered' BY <1>14, <2>0, <2>2, <2>6
    <2>8. ASSUME NEW u \in Thread
          PROVE  \E e \in {ftWriter'} \cup Remembered' : Dominates(e, u, djit'.reader[u])
      <3>1. CASE u = t BY <1>4, <1>12, <2>7, <3>1
      <3>2. CASE u # t
        <4>1. PICK e \in {ftWriter} \cup Remembered : Dominates(e, u, djit.reader[u])
          BY <1>0 DEF DominatedInv
        <4> QED BY <1>4, <1>7, <2>5, <2>7, <3>2, <4>1
      <3> QED BY <3>1, <3>2
    <2> QED BY <1>4, <2>0, <2>1, <2>3, <2>4, <2>8
  <1> QED BY <1>3, <1>10, <1>15, <1>16, <1>17

\* A write without a race keeps the agreement; FastTrack forgets the reads.
LEMMA WriteKeeps ==
  ASSUME TypeOK, EpochInv, RaceTypes, PassedInv, AgreeInv, NEW t \in Thread, Touch(t), FtWrite(t),
         djit' = DjitWrite(djit, t), RaceTypes',
         \/ djit.writer[t] = Now(t)
         \/ HappensBefore(djit.writer, vc[t]) /\ HappensBefore(djit.reader, vc[t])
  PROVE  AgreeInv'
  <1> DEFINE now == [thd |-> t, clk |-> Now(t)]
  <1>0. /\ KeptInv /\ DominatedInv /\ FrameInv /\ pc[t] = "run" /\ pc[t] \in Alive
        /\ UNCHANGED <<pc, vc>>
    BY DEF AgreeInv, Touch, Alive, PC, BarPC
  <1>1. /\ djit'.reader = djit.reader /\ djit'.writer = [djit.writer EXCEPT ![t] = Now(t)]
    BY DjitWriteProp DEF RaceTypes, TypeOK
  <1>2. djit.writer[t] <= Now(t) /\ djit.writer[t] \in Nat /\ Now(t) \in Nat BY <1>0, AheadHas
  <1>3. djit.reader \in Clock /\ djit.writer \in Clock /\ ftReaderVc \in Clock /\ shared \in BOOLEAN
    BY DEF RaceTypes, DjitMeta
  <1>4. \A u \in Thread : djit'.writer[u] = IF u = t THEN Now(t) ELSE djit.writer[u]
    BY <1>1, <1>3 DEF Clock
  <1>5. \A u \in Thread : djit.reader[u] \in Nat /\ djit.writer[u] \in Nat /\ ftReaderVc[u] \in Nat
    BY <1>3 DEF Clock
  <1>6. ftWriter' = now BY FtWriteProp DEF TypeOK
  <1>7. ftWriter = now <=> djit.writer[t] = Now(t)
    <2>1. ftWriter = now => djit.writer[t] = Now(t) BY <1>0, <1>2 DEF KeptInv
    <2> QED BY <1>0, <2>1 DEF FrameInv, Now
  <1>8. CASE ftWriter = now
    <2>1. UNCHANGED <<ftReader, ftWriter, ftReaderVc, shared>> BY <1>8 DEF FtWrite, ftVars
    <2>2. djit'.writer = djit.writer BY <1>1, <1>3, <1>7, <1>8 DEF Clock
    <2>3. Remembered' = Remembered BY <2>1 DEF Remembered
    <2>4. DominatedInv' BY <1>0, <1>1, <2>1, <2>2, <2>3, DominatedSame DEF DominatedInv
    <2>5. KeptInv' /\ FrameInv' BY <1>0, <1>1, <2>1, <2>2 DEF KeptInv, FrameInv
    <2> QED BY <2>4, <2>5 DEF AgreeInv
  <1>9. CASE ftWriter # now
    <2>1. HappensBefore(djit.writer, vc[t]) /\ HappensBefore(djit.reader, vc[t])
      BY <1>7, <1>9
    <2>2. /\ shared' = FALSE
          /\ IF shared THEN ftReaderVc' = Zero /\ ftReader' = NoEpoch
                       ELSE UNCHANGED <<ftReaderVc, ftReader>>
      BY <1>9 DEF FtWrite
    <2>3. KeptInv'
      <3>1. ftWriter'.thd = t /\ ftWriter'.clk <= djit'.writer[t]
        BY <1>2, <1>4, <1>6
      <3>2. /\ ftReader'.thd \in Thread => /\ ftReader'.clk <= djit'.reader[ftReader'.thd]
                                           /\ ftReader'.clk = djit'.reader[ftReader'.thd]
            /\ HappensBefore(ftReaderVc', djit'.reader)
        <4>1. CASE shared
          <5>1. ftReaderVc' = Zero /\ ftReader' = NoEpoch /\ NoEpoch.thd \notin Thread
            BY <2>2, <4>1, NullAssumption DEF NoEpoch
          <5> QED BY <1>1, <1>3, <5>1, ClockOrder
        <4>2. CASE ~shared BY <1>0, <1>1, <2>2, <4>2 DEF KeptInv
        <4> QED BY <4>1, <4>2
      <3> QED BY <3>1, <3>2 DEF KeptInv
    <2>4. \A u \in Thread : /\ djit'.writer[u] \in Nat /\ djit'.writer[u] <= vc[t][u]
                            /\ djit'.reader[u] \in Nat /\ djit'.reader[u] <= vc[t][u]
      BY <1>1, <1>2, <1>4, <1>5, <2>1 DEF HappensBefore, Now
    <2>5. DominatedInv'
      <3>1. \A u \in Thread : Dominates(now, u, djit'.writer[u]) /\ Dominates(now, u, djit'.reader[u])
        BY <1>0, <2>4, FreshEpoch
      <3> QED BY <1>6, <3>1, DominatedSame
    <2>6. FrameInv'
      <3>1. ASSUME NEW x \in Thread, pc[x] \in Alive
            PROVE  /\ djit'.reader[x] = vc[x][x] => HappensBefore(djit'.writer, vc[x])
                   /\ djit'.writer[x] = vc[x][x] => ftWriter' = [thd |-> x, clk |-> vc[x][x]]
        <4>1. CASE x = t BY <1>6, <2>4, <4>1 DEF HappensBefore, Now
        <4>2. CASE x # t
          <5>1. vc[t][x] <= vc[x][x] - 1 BY <3>1, <4>2 DEF EpochInv, EpochOf, ClocksBelow
          <5>2. vc[t][x] \in Nat /\ vc[x][x] \in Nat BY DEF TypeOK, Clock
          <5> QED BY <2>4, <5>1, <5>2
        <4> QED BY <4>1, <4>2
      <3> QED BY <1>0, <3>1 DEF FrameInv
    <2> QED BY <2>3, <2>5, <2>6 DEF AgreeInv
  <1> QED BY <1>8, <1>9

-----------------------------------------------------------------------------
(* What the two report. *)

\* There is a race with each thread of a set.
LEMMA RacesWithEmpty ==
  ASSUME NEW S, NEW t, NEW k, NEW l
  PROVE  RacesWith(S, k, t, l) = {} <=> S = {}
  BY DEF RacesWith

\* Of a read, both report races or neither does.
LEMMA ReadAgrees ==
  ASSUME TypeOK, EpochInv, RaceTypes, PassedInv, AgreeInv, NEW t \in Thread, BeforeMemRead(t),
         djit.races = {}, ftRaces = {}
  PROVE  /\ djit'.races = {} <=> ftRaces' = {}
         /\ djit'.races = {} => HappensBefore(djit.writer, vc[t])
  <1>0. KeptInv /\ DominatedInv /\ FrameInv /\ pc[t] = "run" /\ pc[t] \in Alive
    BY DEF AgreeInv, BeforeMemRead, Touch, Alive, PC, BarPC
  <1>1. djit'.races = IF djit.reader[t] = Now(t) THEN {}
                      ELSE RacesWith(Concurrent(djit.writer, t), "W", t, "R")
    <2>1. djit' = DjitRead(djit, t) /\ djit \in DjitMeta /\ vc \in [Thread -> Clock]
      BY DEF BeforeMemRead, RaceTypes, TypeOK
    <2>2. DjitRead(djit, t).races = djit.races \cup
            (IF djit.reader[t] = Now(t) THEN {} ELSE RacesWith(Concurrent(djit.writer, t), "W", t, "R"))
      BY <2>1, DjitReadProp
    <2> QED BY <2>1, <2>2
  <1>2. ftRaces' = IF ftReader = [thd |-> t, clk |-> Now(t)] THEN {}
                   ELSE RacesWith(Ahead(ftWriter, t), "W", t, "R")
    BY DEF BeforeMemRead, FtRead, ftVars
  <1>3. ftReader = [thd |-> t, clk |-> Now(t)] => djit.reader[t] = Now(t)
    BY <1>0, AheadHas DEF KeptInv
  <1>4. CASE djit.reader[t] = Now(t)
    <2>1. HappensBefore(djit.writer, vc[t]) BY <1>0, <1>4 DEF FrameInv, Now
    <2>2. Ahead(ftWriter, t) = {} BY <1>0, <2>1, WriterAgrees
    <2> QED BY <1>1, <1>2, <1>4, <2>1, <2>2, RacesWithEmpty
  <1>5. CASE djit.reader[t] # Now(t)
    BY <1>0, <1>1, <1>2, <1>3, <1>5, RacesWithEmpty, WriterAgrees
  <1> QED BY <1>4, <1>5

\* Of a write too.
LEMMA WriteAgrees ==
  ASSUME TypeOK, EpochInv, RaceTypes, PassedInv, AgreeInv, NEW t \in Thread, BeforeMemWrite(t),
         djit.races = {}, ftRaces = {}
  PROVE  /\ djit'.races = {} <=> ftRaces' = {}
         /\ djit'.races = {} =>
              \/ djit.writer[t] = Now(t)
              \/ HappensBefore(djit.writer, vc[t]) /\ HappensBefore(djit.reader, vc[t])
  <1> DEFINE now == [thd |-> t, clk |-> Now(t)]
             reading == IF shared THEN Concurrent(ftReaderVc, t) ELSE Ahead(ftReader, t)
  <1>0. KeptInv /\ DominatedInv /\ FrameInv /\ pc[t] = "run" /\ pc[t] \in Alive
    BY DEF AgreeInv, BeforeMemWrite, Touch, Alive, PC, BarPC
  <1>1. djit'.races = IF djit.writer[t] = Now(t) THEN {}
                      ELSE RacesWith(Concurrent(djit.writer, t), "W", t, "W")
                             \cup RacesWith(Concurrent(djit.reader, t), "R", t, "W")
    <2>1. djit' = DjitWrite(djit, t) /\ djit \in DjitMeta /\ vc \in [Thread -> Clock]
      BY DEF BeforeMemWrite, RaceTypes, TypeOK
    <2>2. DjitWrite(djit, t).races = djit.races \cup
            (IF djit.writer[t] = Now(t) THEN {}
             ELSE RacesWith(Concurrent(djit.writer, t), "W", t, "W")
                    \cup RacesWith(Concurrent(djit.reader, t), "R", t, "W"))
      BY <2>1, DjitWriteProp
    <2> QED BY <2>1, <2>2
  <1>2. ftRaces' = IF ftWriter = now THEN {}
                   ELSE RacesWith(Ahead(ftWriter, t), "W", t, "W") \cup RacesWith(reading, "R", t, "W")
    BY DEF BeforeMemWrite, FtWrite, ftVars
  <1>3. ftWriter = now <=> djit.writer[t] = Now(t)
    <2>1. ftWriter = now => djit.writer[t] = Now(t) BY <1>0, AheadHas DEF KeptInv
    <2> QED BY <1>0, <2>1 DEF FrameInv, Now
  <1> HIDE DEF now
  <1>4. CASE ftWriter = now BY <1>1, <1>2, <1>3, <1>4
  <1>5. CASE ftWriter # now
    <2>1. djit'.races = {} <=> Concurrent(djit.writer, t) = {} /\ Concurrent(djit.reader, t) = {}
      BY <1>1, <1>3, <1>5, RacesWithEmpty
    <2>2. ftRaces' = {} <=> Ahead(ftWriter, t) = {} /\ reading = {}
      BY <1>2, <1>5, RacesWithEmpty
    <2>3. PICK r : r = reading OBVIOUS
    <2>4. /\ Ahead(ftWriter, t) = {} /\ r = {} => HappensBefore(djit.reader, vc[t])
          /\ HappensBefore(djit.reader, vc[t]) <=> Concurrent(djit.reader, t) = {}
          /\ Concurrent(djit.reader, t) = {} => r = {}
      BY <1>0, <2>3, ReaderAgrees
    <2> HIDE DEF reading
    <2> QED BY <1>0, <2>1, <2>2, <2>3, <2>4, WriterAgrees
  <1> QED BY <1>4, <1>5

-----------------------------------------------------------------------------
(* The theorem. *)

\* Nothing has been accessed.
LEMMA AgreeInit == RacesInit => AgreeIInv
  <1> SUFFICES ASSUME RacesInit PROVE AgreeIInv OBVIOUS
  <1>1. /\ EdgeIInv /\ RaceTypes /\ RecordInv BY RacesInitInv DEF RacesIInv
  <1>2. EpochIInv BY CallInit, EpochInit DEF RacesInit, EpochIInv
  <1>3. /\ djit.reader = Zero /\ djit.writer = Zero /\ djit.races = {} /\ ftRaces = {}
        /\ ftReader = NoEpoch /\ ftWriter = NoEpoch /\ ftReaderVc = Zero /\ shared = FALSE
    BY DEF RacesInit, NewDjitMeta
  <1>4. Zero \in Clock /\ \A u \in Thread : Zero[u] = 0 BY ZeroProp
  <1>5. NoEpoch.thd \notin Thread /\ NoEpoch.clk = 0 BY NullAssumption DEF NoEpoch
  <1>6. TypeOK BY <1>2 DEF EpochIInv, CallIInv
  <1>7. /\ \A c \in Clock, u \in Thread : 0 <= c[u] /\ c[u] \in Nat
        /\ \A t \in Thread : vc[t] \in Clock
    BY <1>6 DEF TypeOK, Clock
  <1>8. PassedInv BY <1>3, <1>4, <1>7 DEF PassedInv, Passed
  <1>9. KeptInv BY <1>3, <1>4, <1>5, ClockOrder DEF KeptInv
  <1>10. \A u \in Thread : Dominates(NoEpoch, u, 0)
    <2>1. \A c \in Clock, u \in Thread : DominatesIn(NoEpoch, u, 0, c) BY <1>7 DEF DominatesIn
    <2> QED BY <1>4, <1>6, <2>1 DEF Dominates, TypeOK
  <1>11. DominatedInv BY <1>3, <1>4, <1>10 DEF DominatedInv
  <1>12. FrameInv
    <2> SUFFICES ASSUME NEW t \in Thread, pc[t] \in Alive
                 PROVE  HappensBefore(Zero, vc[t]) /\ 0 # vc[t][t]
      BY <1>3, <1>4 DEF FrameInv
    <2>1. HappensBefore(Zero, vc[t]) BY <1>7, ClockOrder
    <2>2. rwVc[t] <= vc[t][t] - 1 BY <1>2 DEF EpochIInv, EpochInv, EpochOf, ClocksBelow
    <2>3. rwVc[t] \in Nat BY <1>6 DEF TypeOK, Clock
    <2> QED BY <1>7, <2>1, <2>2, <2>3
  <1> QED BY <1>1, <1>2, <1>3, <1>8, <1>9, <1>11, <1>12 DEF AgreeIInv, AgreeInv, FastTrackAgrees

\* An access is in an epoch that its thread has come to.
LEMMA PassedNow ==
  ASSUME TypeOK, RaceTypes, PassedInv, NEW t \in Thread, BeforeMemRead(t) \/ BeforeMemWrite(t)
  PROVE  PassedInv'
  <1>1. pc[t] = "run" /\ UNCHANGED <<pc, vc>> BY DEF BeforeMemRead, BeforeMemWrite, Touch
  <1>2. Now(t) \in Nat /\ Now(t) = vc[t][t] BY DEF TypeOK, Clock, Now
  <1>3. djit \in DjitMeta /\ djit.reader \in Clock /\ djit.writer \in Clock /\ vc \in [Thread -> Clock]
    BY DEF RaceTypes, DjitMeta, TypeOK
  <1>4. \A u \in Thread : /\ djit'.reader[u] \in {djit.reader[u]} \cup (IF u = t THEN {Now(t)} ELSE {})
                          /\ djit'.writer[u] \in {djit.writer[u]} \cup (IF u = t THEN {Now(t)} ELSE {})
    <2>1. CASE BeforeMemRead(t)
      <3>1. djit' = DjitRead(djit, t) BY <2>1 DEF BeforeMemRead
      <3>2. djit'.writer = djit.writer /\ djit'.reader = [djit.reader EXCEPT ![t] = Now(t)]
        BY <1>3, <3>1, DjitReadProp
      <3> QED BY <1>3, <3>2 DEF Clock
    <2>2. CASE BeforeMemWrite(t)
      <3>1. djit' = DjitWrite(djit, t) BY <2>2 DEF BeforeMemWrite
      <3>2. djit'.reader = djit.reader /\ djit'.writer = [djit.writer EXCEPT ![t] = Now(t)]
        BY <1>3, <3>1, DjitWriteProp
      <3> QED BY <1>3, <3>2 DEF Clock
    <2> QED BY <2>1, <2>2
  <1>5. Passed(t, Now(t)) BY <1>1, <1>2 DEF Passed
  <1>6. \A u \in Thread : Passed(u, djit'.reader[u]) /\ Passed(u, djit'.writer[u])
    BY <1>4, <1>5 DEF PassedInv
  <1> QED BY <1>1, <1>6 DEF PassedInv, Passed

\* An access keeps the agreement.
LEMMA AccessAgrees ==
  ASSUME AgreeIInv, NEW t \in Thread, BeforeMemRead(t) \/ BeforeMemWrite(t), RaceTypes'
  PROVE  FastTrackAgrees' /\ (~lostReader' /\ djit'.races = {} => AgreeInv')
  <1>0. /\ TypeOK /\ EpochInv /\ RaceTypes /\ PassedInv /\ FastTrackAgrees
        /\ ~lostReader /\ djit.races = {} => AgreeInv
    BY DEF AgreeIInv, EpochIInv, CallIInv
  <1>1. djit \in DjitMeta /\ vc \in [Thread -> Clock] BY <1>0 DEF RaceTypes, TypeOK
  <1>2. djit.races \subseteq djit'.races
    <2>1. djit.races \subseteq DjitRead(djit, t).races
      <3>1. \E S : DjitRead(djit, t).races = djit.races \cup S BY <1>1, DjitReadProp
      <3> QED BY <3>1
    <2>2. djit.races \subseteq DjitWrite(djit, t).races
      <3>1. \E S : DjitWrite(djit, t).races = djit.races \cup S BY <1>1, DjitWriteProp
      <3> QED BY <3>1
    <2>3. djit' \in {DjitRead(djit, t), DjitWrite(djit, t)} BY DEF BeforeMemRead, BeforeMemWrite
    <2> QED BY <2>1, <2>2, <2>3
  <1>3. ftRaces \subseteq ftRaces' /\ lostReader' = lostReader
    <2>1. FtRead(t) => ftRaces \subseteq ftRaces' /\ lostReader' = lostReader BY DEF FtRead, ftVars
    <2>2. FtWrite(t) => ftRaces \subseteq ftRaces' /\ lostReader' = lostReader BY DEF FtWrite, ftVars
    <2> QED BY <2>1, <2>2 DEF BeforeMemRead, BeforeMemWrite
  <1>4. SUFFICES ASSUME ~lostReader
                 PROVE  /\ ftRaces' # {} <=> djit'.races # {}
                        /\ djit'.races = {} => AgreeInv'
    BY <1>3 DEF FastTrackAgrees
  <1>5. ftRaces # {} <=> djit.races # {} BY <1>0, <1>4 DEF FastTrackAgrees
  <1>6. CASE djit.races # {} BY <1>2, <1>3, <1>5, <1>6
  <1>7. CASE djit.races = {} /\ BeforeMemRead(t)
    <2>1. ftRaces = {} /\ AgreeInv BY <1>0, <1>4, <1>5, <1>7
    <2>2. /\ djit'.races = {} <=> ftRaces' = {}
          /\ djit'.races = {} => HappensBefore(djit.writer, vc[t])
      BY <1>0, <1>7, <2>1, ReadAgrees
    <2>3. Touch(t) /\ FtRead(t) /\ djit' = DjitRead(djit, t) BY <1>7 DEF BeforeMemRead
    <2>4. djit'.races = {} => AgreeInv' BY <1>0, <2>1, <2>2, <2>3, ReadKeeps
    <2> QED BY <2>2, <2>4
  <1>8. CASE djit.races = {} /\ BeforeMemWrite(t)
    <2>1. ftRaces = {} /\ AgreeInv BY <1>0, <1>4, <1>5, <1>8
    <2>2. /\ djit'.races = {} <=> ftRaces' = {}
          /\ djit'.races = {} =>
               \/ djit.writer[t] = Now(t)
               \/ HappensBefore(djit.writer, vc[t]) /\ HappensBefore(djit.reader, vc[t])
      BY <1>0, <1>8, <2>1, WriteAgrees
    <2>3. Touch(t) /\ FtWrite(t) /\ djit' = DjitWrite(djit, t) BY <1>8 DEF BeforeMemWrite
    <2>4. djit'.races = {} => AgreeInv' BY <1>0, <2>1, <2>2, <2>3, WriteKeeps
    <2> QED BY <2>2, <2>4
  <1> QED BY <1>6, <1>7, <1>8

\* What FastTrack keeps changes in an access only, but for a reader that a join
\* drops; of one that is not shared it keeps no more than Djit has.
LEMMA OtherFtVars ==
  ASSUME RaceTypes, NEW t \in Thread,
         SyncRaces(t) \/ (AfterPthreadJoin(t, "pruning") /\ UNCHANGED raceVars) \/ PruneReaders(t)
  PROVE  /\ UNCHANGED <<djit, ftReader, ftWriter, ftRaces>>
         /\ lostReader => lostReader'
         /\ ~lostReader' => /\ shared' = shared
                            /\ ftReaderVc' = ftReaderVc \/ (~shared /\ HappensBefore(ftReaderVc', ftReaderVc))
  <1>1. CASE SyncRaces(t) BY <1>1 DEF SyncRaces, djitVars, ftVars
  <1>2. CASE UNCHANGED raceVars BY <1>2 DEF raceVars, djitVars, ftVars
  <1>3. CASE PruneReaders(t)
    <2>1. /\ UNCHANGED <<djit, ftReader, ftWriter, ftRaces>>
          /\ ftReaderVc' = [ftReaderVc EXCEPT ![arg[t]] = 0]
          /\ lostReader' = (lostReader \/ (shared /\ ftReaderVc[arg[t]] # 0))
          /\ ftReaderVc[arg[t]] = 0 => shared' = shared
          /\ ~shared => shared' = shared
      BY <1>3 DEF PruneReaders, djitVars, RaceTypes
    <2>2. ftReaderVc \in Clock /\ lostReader \in BOOLEAN BY DEF RaceTypes
    <2>3. HappensBefore(ftReaderVc', ftReaderVc)
      BY <2>1, <2>2 DEF Clock, HappensBefore
    <2>4. ftReaderVc[arg[t]] = 0 => ftReaderVc' = ftReaderVc BY <2>1, <2>2 DEF Clock
    <2> QED BY <2>1, <2>2, <2>3, <2>4
  <1> QED BY <1>1, <1>2, <1>3

\* Every step keeps the invariant.
LEMMA AgreeNext == AgreeIInv /\ [RacesNext]_racesVars => AgreeIInv'
  <1> SUFFICES ASSUME AgreeIInv, [RacesNext]_racesVars PROVE AgreeIInv' OBVIOUS
  <1>0. /\ EpochIInv /\ RaceTypes /\ RecordInv /\ PassedInv /\ FastTrackAgrees
        /\ ~lostReader /\ djit.races = {} => AgreeInv
        /\ TypeOK /\ CallInv /\ CountInv /\ EpochInv
    BY DEF AgreeIInv, EpochIInv, CallIInv
  <1>1. ASSUME NEW t \in Thread, Step(t) PROVE EpochIInv' /\ TypeOK' /\ EpochInv'
    <2>1. TypeOK' /\ CallInv' BY <1>0, <1>1, TypeStep, CallStep
    <2>2. CountInv' BY <1>0, <1>1, <2>1, CountStep
    <2>3. EpochInv' BY <1>0, <1>1, EpochStep
    <2> QED BY <2>1, <2>2, <2>3 DEF EpochIInv, CallIInv
  <1>2. ASSUME NEW t \in Thread, BeforeMemRead(t) \/ BeforeMemWrite(t) PROVE AgreeIInv'
    <2>1. EpochIInv' /\ TypeOK' BY <1>1, <1>2, RacesStep
    <2>2. RaceTypes' /\ RecordInv' BY <1>0, <1>2, <2>1, ReadRecords, WriteRecords
    <2>3. PassedInv' BY <1>0, <1>2, PassedNow
    <2> QED BY <1>2, <2>1, <2>2, <2>3, AccessAgrees DEF AgreeIInv
  <1>3. ASSUME NEW t \in Thread,
               \/ SyncRaces(t) \/ (AfterPthreadJoin(t, "pruning") /\ UNCHANGED raceVars)
               \/ PruneReaders(t)
        PROVE  AgreeIInv'
    <2>0. Step(t) BY <1>3, RacesStep
    <2>1. EpochIInv' /\ TypeOK' /\ EpochInv' BY <1>1, <2>0
    <2>2. RaceTypes' /\ RecordInv' BY <1>0, <1>3, <2>1, OtherRecords
    <2>3. /\ UNCHANGED <<djit, ftReader, ftWriter, ftRaces>>
          /\ lostReader => lostReader'
          /\ ~lostReader' =>
               /\ shared' = shared
               /\ ftReaderVc' = ftReaderVc \/ (~shared /\ HappensBefore(ftReaderVc', ftReaderVc))
      BY <1>0, <1>3, OtherFtVars
    <2>4. PassedInv'
      <3>1. ASSUME NEW u \in Thread, NEW n \in Nat, Passed(u, n) PROVE Passed(u, n)'
        BY <1>0, <2>0, <2>1, <3>1, PassedStep
      <3>2. ASSUME NEW u \in Thread
            PROVE  Passed(u, djit.reader[u])' /\ Passed(u, djit.writer[u])'
        <4>1. PICK n \in Nat : n = djit.reader[u] BY <1>0 DEF RaceTypes, DjitMeta, Clock
        <4>2. PICK k \in Nat : k = djit.writer[u] BY <1>0 DEF RaceTypes, DjitMeta, Clock
        <4>3. Passed(u, n)' /\ Passed(u, k)' BY <1>0, <3>1, <4>1, <4>2 DEF PassedInv
        <4>4. djit'.reader[u] = n /\ djit'.writer[u] = k BY <2>3, <4>1, <4>2
        <4> QED BY <4>3, <4>4 DEF Passed
      <3> QED BY <3>2 DEF PassedInv
    <2>5. FastTrackAgrees' BY <1>0, <2>3 DEF FastTrackAgrees
    <2>6. ASSUME ~lostReader', djit'.races = {} PROVE AgreeInv'
      <3>1. AgreeInv BY <1>0, <2>3, <2>6
      <3>2. UNCHANGED <<djit, ftReader, ftWriter, shared>> BY <2>3, <2>6
      <3>3. ftReaderVc' = ftReaderVc \/ (~shared /\ HappensBefore(ftReaderVc', djit.reader))
        <4>1. HappensBefore(ftReaderVc, djit.reader) BY <3>1 DEF AgreeInv, KeptInv
        <4>2. ftReaderVc \in Clock /\ ftReaderVc' \in Clock /\ djit.reader \in Clock
          BY <1>0, <2>2 DEF RaceTypes, DjitMeta
        <4> QED BY <2>3, <2>6, <4>1, <4>2, ClockOrder
      <3> QED BY <1>0, <2>0, <2>1, <3>1, <3>2, <3>3, QuietAgree
    <2> QED BY <2>1, <2>2, <2>4, <2>5, <2>6 DEF AgreeIInv
  <1>4. CASE UNCHANGED racesVars
    <2>1. /\ UNCHANGED vars
          /\ UNCHANGED <<djit, lite, ftReader, ftWriter, ftReaderVc, shared, ftRaces, lostReader,
                         lastRead, lastWrite, lateStart, lastrld>>
          /\ UNCHANGED <<epochs, pc, vc, signalTable, waitTable, mutexVc, rwVc, rwWait, semVc, barVc>>
      BY <1>4 DEF racesVars, vars, callVars, lockVars, rwVars, condVars, barVars, semVars, raceVars, djitVars,
         ftVars, trueVars
    <2>2. EpochIInv' BY <1>0, <2>1, EpochNext
    <2>3. RaceTypes' /\ RecordInv' BY <1>0, <2>1 DEF RaceTypes, RecordInv
    <2>4. PassedInv' /\ FastTrackAgrees' BY <1>0, <2>1 DEF PassedInv, Passed, FastTrackAgrees
    <2>5. AgreeInv => AgreeInv'
      BY <2>1 DEF AgreeInv, KeptInv, DominatedInv, FrameInv, Remembered, Dominates
    <2> QED BY <1>0, <2>1, <2>2, <2>3, <2>4, <2>5 DEF AgreeIInv
  <1> QED BY <1>2, <1>3, <1>4 DEF RacesNext

\* On every program, FastTrack reports a race exactly when Djit has one, until a
\* join drops a reader of a shared location.
THEOREM FastTrackComplies == RacesSpec => []FastTrackAgrees
  <1>1. AgreeIInv => FastTrackAgrees BY DEF AgreeIInv
  <1> QED BY <1>1, AgreeInit, AgreeNext, PTL DEF RacesSpec

-----------------------------------------------------------------------------
(***************************************************************************)
(* That Djit misses no first race, for any set of threads and mutexes and  *)
(* any bound, of a program that synchronises by mutexes, creation and join *)
(* alone.  NoEdgeIsLost shows that the clocks contain the truth; here the  *)
(* converse: a clock contains no access but those that happen before.  So  *)
(* a race of the execution is one of the clocks, and an access that Djit   *)
(* skips would have shown none while none has been reported.               *)
(***************************************************************************)

MutexOps == {"access", "mutex", "join"}

-----------------------------------------------------------------------------
(* The inductive invariant. *)

PlainPC == {"unborn", "starting", "run", "locked", "unlocking", "joined", "pruning", "exited", "reaped"}

\* Nobody is in a call of another kind.
PlainInv == (\A t \in Thread : pc[t] \in PlainPC) /\ writer = NoThread /\ readers = {}

\* With the accesses e, what is in the clock c happens before, says h.
InTruth(e, c, h) == \A u \in Thread : \A n \in 1..Len(e[u]) : e[u][n] <= c[u] => n <= h[u]

\* The clocks are not ahead of the truth: the callbacks of acquires come after the
\* truth has moved, and what a release announces is the thread's until it is made.
TruthInv ==
  /\ \A u \in Thread : /\ hb[u][u] = Len(epochs[u]) /\ MadeIn(epochs, hb[u])
                       /\ \A n \in 1..Len(epochs[u]) : epochs[u][n] > 0
  /\ \A m \in Mutex : MadeIn(epochs, hbMutex[m])
  /\ \A t \in Thread : InTruth(epochs, vc[t], hb[t])
  /\ \A t \in Thread : pc[t] \in {"locked", "unlocking"} => InTruth(epochs, mutexVc[arg[t]], hb[t])
  /\ \A m \in Mutex : holder[m] = NoThread => InTruth(epochs, mutexVc[m], hbMutex[m])
  /\ \A t \in Thread : pc[t] = "joined" => HappensBefore(hb[arg[t]], hb[t])

\* Djit's entries are the epochs of the last accesses.
LatestIn(e, last, d) == \A u \in Thread : last[u] # 0 => e[u][last[u]] = d[u]
LatestInv == LatestIn(epochs, lastRead, djit.reader) /\ LatestIn(epochs, lastWrite, djit.writer)

\* Who has accessed in its present epoch, has heard of what it was checked against.
CheckedInv ==
  \A t \in Thread : pc[t] \in Alive =>
    /\ djit.reader[t] = vc[t][t] => HappensBefore(djit.writer, vc[t])
    /\ djit.writer[t] = vc[t][t] => /\ HappensBefore(djit.writer, vc[t])
                                    /\ HappensBefore(djit.reader, vc[t])

FirstIInv ==
  /\ EpochIInv /\ RaceTypes /\ RecordInv /\ PassedInv
  /\ PlainInv /\ LatestInv
  /\ ~lateStart => TruthInv
  /\ ~lateStart /\ djit.races = {} => trueRaces = {} /\ CheckedInv

-----------------------------------------------------------------------------
(* Clocks and truth. *)

\* InTruth is closed under joins, under an increment for a thread all of whose
\* accesses happen before, and when more comes to happen before.
LEMMA InTruthOps ==
  ASSUME NEW e \in [Thread -> Seq(Nat)], NEW h \in Clock
  PROVE  /\ \A c \in Clock, k \in Clock : InTruth(e, c, h) /\ HappensBefore(h, k) => InTruth(e, c, k)
         /\ \A c \in Clock, d \in Clock : InTruth(e, c, h) /\ InTruth(e, d, h) => InTruth(e, Join(c, d), h)
         /\ \A c \in Clock, t \in Thread :
              InTruth(e, c, h) /\ Len(e[t]) <= h[t] => InTruth(e, Increment(c, t), h)
  <1>0. \A u \in Thread : Len(e[u]) \in Nat /\ h[u] \in Nat BY DEF Clock
  <1>1. ASSUME NEW c \in Clock, NEW k \in Clock, InTruth(e, c, h), HappensBefore(h, k) PROVE InTruth(e, c, k)
    <2>1. \A u \in Thread : k[u] \in Nat /\ h[u] <= k[u] BY <1>1 DEF Clock, HappensBefore
    <2> QED BY <1>0, <1>1, <2>1 DEF InTruth
  <1>2. ASSUME NEW c \in Clock, NEW d \in Clock, InTruth(e, c, h), InTruth(e, d, h)
        PROVE  InTruth(e, Join(c, d), h)
    <2>1. \A u \in Thread : Join(c, d)[u] = c[u] \/ Join(c, d)[u] = d[u] BY JoinProp
    <2> QED BY <1>2, <2>1 DEF InTruth
  <1>3. ASSUME NEW c \in Clock, NEW t \in Thread, InTruth(e, c, h), Len(e[t]) <= h[t]
        PROVE  InTruth(e, Increment(c, t), h)
    <2>1. \A u \in Thread \ {t} : Increment(c, t)[u] = c[u] BY IncrementProp
    <2>2. \A n \in 1..Len(e[t]) : n <= h[t] BY <1>0, <1>3
    <2> QED BY <1>3, <2>1, <2>2 DEF InTruth
  <1> QED BY <1>1, <1>2, <1>3

\* The empty clock contains nothing.
LEMMA InTruthZero ==
  ASSUME NEW e \in [Thread -> Seq(Nat)], \A u \in Thread : \A n \in 1..Len(e[u]) : e[u][n] > 0, NEW h
  PROVE  InTruth(e, Zero, h)
  <1>1. \A u \in Thread : \A n \in 1..Len(e[u]) : e[u][n] \in Nat OBVIOUS
  <1> QED BY <1>1, ZeroProp DEF InTruth

-----------------------------------------------------------------------------
(* The steps of such a program. *)

Plain(t) ==
  \/ \E c \in Thread : RealCreate(t, c) \/ RealJoin(t, c)
  \/ ThreadStart(t) \/ ThreadExit(t) \/ Touch(t) \/ Prune(t)
  \/ \E there \in {"run", "pruning"} : AfterPthreadJoin(t, there)
  \/ \E m \in Mutex : RealMutexLock(t, m) \/ BeforePthreadMutexUnlock(t, m)
  \/ AfterPthreadMutexLock(t) \/ RealMutexUnlock(t)

\* It has no others, and gets into no other call.
LEMMA PlainStep ==
  ASSUME Ops \subseteq MutexOps, TypeOK, CallInv, PlainInv, NEW t \in Thread, Step(t)
  PROVE  Plain(t) /\ PlainInv'
  <1> USE DEF PlainInv, PlainPC, MutexOps, Move, Raise
  <1>1. ~Rwlocks(t)
    <2>1. ~RealRwlockRdlock(t) /\ ~RealRwlockWrlock(t) BY DEF RealRwlockRdlock, RealRwlockWrlock
    <2>2. ~AfterPthreadRwlock(t) /\ ~RealRwlockUnlock(t) BY DEF AfterPthreadRwlock, RealRwlockUnlock
    <2>3. ~BeforePthreadRwlockUnlock(t) BY NullAssumption DEF BeforePthreadRwlockUnlock
    <2> QED BY <2>1, <2>2, <2>3 DEF Rwlocks
  <1>2. ~Conds(t)
    <2>1. ~BeforePthreadCondWait(t) /\ ~ProcessNotify(t) BY DEF BeforePthreadCondWait, ProcessNotify
    <2>2. ~RealCondWait(t) /\ ~RealCondSignal(t) /\ ~RealCondTimeout(t)
      BY DEF RealCondWait, RealCondSignal, RealCondTimeout
    <2>3. ~RealCondReturn(t) /\ ~AfterPthreadCondWait(t) BY DEF RealCondReturn, AfterPthreadCondWait
    <2> QED BY <2>1, <2>2, <2>3 DEF Conds
  <1>3. ~Barriers(t)
    BY DEF Barriers, BeforePthreadBarrierWait, RealBarrierWait, AfterPthreadBarrierWait
  <1>4. ~Sems(t) BY DEF Sems, BeforeSemPost, RealSemPost, RealSemWait, AfterSemWait
  <1>5. Plain(t)
    BY <1>1, <1>2, <1>3, <1>4 DEF Step, Sync, Joins, Threads, Mutexes, Plain
  <1>6. UNCHANGED <<writer, readers>>
    BY <1>5 DEF Plain, RealCreate, RealJoin, ThreadStart, ThreadExit, Touch, Prune, AfterPthreadJoin,
       RealMutexLock, BeforePthreadMutexUnlock, AfterPthreadMutexLock, RealMutexUnlock, rwVars
  <1>7. \A u \in Thread : pc'[u] \in PlainPC
    <2> USE DEF TypeOK, Goto
    <2>1. CASE \E c \in Thread : RealCreate(t, c) \/ RealJoin(t, c)
      BY <2>1 DEF RealCreate, RealJoin
    <2>2. CASE ThreadStart(t) \/ ThreadExit(t) \/ Touch(t) \/ Prune(t)
      BY <2>2 DEF ThreadStart, ThreadExit, Touch, Prune
    <2>3. CASE \E there \in {"run", "pruning"} : AfterPthreadJoin(t, there)
      BY <2>3 DEF AfterPthreadJoin
    <2>4. CASE \/ \E m \in Mutex : RealMutexLock(t, m) \/ BeforePthreadMutexUnlock(t, m)
               \/ AfterPthreadMutexLock(t) \/ RealMutexUnlock(t)
      BY <2>4 DEF RealMutexLock, BeforePthreadMutexUnlock, AfterPthreadMutexLock, RealMutexUnlock
    <2> QED BY <1>5, <2>1, <2>2, <2>3, <2>4 DEF Plain
  <1> QED BY <1>5, <1>6, <1>7

-----------------------------------------------------------------------------
(* Every step keeps the clocks within the truth, but for a late start. *)

\* What is to be shown of a step that makes no access.
LEMMA TruthCases ==
  ASSUME TypeOK, TypeOK', TruthInv, epochs' = epochs,
         \A u \in Thread : HappensBefore(hb[u], hb'[u]) /\ MadeIn(epochs, hb'[u]),
         \A m \in Mutex : MadeIn(epochs, hbMutex'[m]),
         \A u \in Thread : InTruth(epochs, vc'[u], hb'[u]),
         \A u \in Thread : pc'[u] \in {"locked", "unlocking"} => InTruth(epochs, mutexVc'[arg'[u]], hb'[u]),
         \A m \in Mutex : holder'[m] = NoThread => InTruth(epochs, mutexVc'[m], hbMutex'[m]),
         \A u \in Thread : pc'[u] = "joined" => HappensBefore(hb'[arg'[u]], hb'[u])
  PROVE  TruthInv'
  <1>1. \A u \in Thread : hb'[u][u] = Len(epochs[u])
    <2>1. \A u \in Thread : hb[u][u] \in Nat /\ hb'[u][u] \in Nat BY DEF TypeOK, Clock
    <2>2. \A u \in Thread : hb[u][u] = Len(epochs[u]) BY DEF TruthInv
    <2>3. \A u \in Thread : hb[u][u] <= hb'[u][u] /\ hb'[u][u] <= Len(epochs[u])
      BY DEF HappensBefore, MadeIn
    <2> QED BY <2>1, <2>2, <2>3
  <1> QED BY <1>1 DEF TruthInv

LEMMA TruthStep ==
  ASSUME TypeOK, TypeOK', CallInv, TruthInv, NEW t \in Thread, Plain(t), ~Touch(t), ~StartsLate(t)
  PROVE  TruthInv'
  <1>a. /\ epochs \in [Thread -> Seq(Nat)] /\ hb \in [Thread -> Clock] /\ vc \in [Thread -> Clock]
        /\ mutexVc \in [Mutex -> Clock] /\ hbMutex \in [Mutex -> Clock]
        /\ pc \in [Thread -> PC] /\ holder \in [Mutex -> Thread \cup {NoThread}]
        /\ arg \in [Thread -> Mutex \cup Thread \cup {NoArg}]
    BY DEF TypeOK
  <1>b. /\ \A u \in Thread : /\ hb[u][u] = Len(epochs[u]) /\ MadeIn(epochs, hb[u])
                             /\ \A n \in 1..Len(epochs[u]) : epochs[u][n] > 0
        /\ \A m \in Mutex : MadeIn(epochs, hbMutex[m])
        /\ \A u \in Thread : InTruth(epochs, vc[u], hb[u])
        /\ \A u \in Thread : pc[u] \in {"locked", "unlocking"} => InTruth(epochs, mutexVc[arg[u]], hb[u])
        /\ \A m \in Mutex : holder[m] = NoThread => InTruth(epochs, mutexVc[m], hbMutex[m])
        /\ \A u \in Thread : pc[u] = "joined" => HappensBefore(hb[arg[u]], hb[u])
    BY DEF TruthInv
  <1>c. /\ \A u \in Thread : pc[u] \in {"locked", "unlocking"} => arg[u] \in Mutex /\ holder[arg[u]] = u
        /\ \A u \in Thread : pc[u] = "joined" => arg[u] \in Thread /\ pc[arg[u]] = "reaped"
        /\ \A u \in Thread : pc[u] = "starting" => arg[u] \in Thread /\ pc[arg[u]] # "starting"
    BY DEF CallInv
  <1>d. /\ \A c, h, k \in Clock : InTruth(epochs, c, h) /\ HappensBefore(h, k) => InTruth(epochs, c, k)
        /\ \A c, d, h \in Clock :
             InTruth(epochs, c, h) /\ InTruth(epochs, d, h) => InTruth(epochs, Join(c, d), h)
        /\ \A c, h \in Clock, u \in Thread :
             InTruth(epochs, c, h) /\ h[u] = Len(epochs[u]) => InTruth(epochs, Increment(c, u), h)
    <2>1. \A u \in Thread : Len(epochs[u]) \in Nat /\ Len(epochs[u]) <= Len(epochs[u]) BY <1>a
    <2> QED BY <1>a, <2>1, InTruthOps
  <1>e. \A c, d \in Clock : /\ Join(c, d) \in Clock
                            /\ HappensBefore(c, Join(c, d)) /\ HappensBefore(d, Join(c, d))
                            /\ MadeIn(epochs, c) /\ MadeIn(epochs, d) => MadeIn(epochs, Join(c, d))
    BY ClockOrder, CoversJoin
  <1>f. \A c \in Clock : HappensBefore(c, c)
        /\ \A d, k \in Clock : HappensBefore(c, d) /\ HappensBefore(d, k) => HappensBefore(c, k)
    BY ClockOrder
  <1>g. \A c \in Clock, u \in Thread : Increment(c, u) \in Clock BY ClockOrder
  <1>h. \A h : InTruth(epochs, Zero, h) BY <1>a, <1>b, InTruthZero
  <1> HIDE DEF InTruth, MadeIn, HappensBefore
  <1> USE DEF Move, Goto, Learn, SetVc, SetVcInc
  <1>1. ASSUME NEW c \in Thread, RealCreate(t, c) PROVE TruthInv'
    <2>1. /\ pc[t] = "run" /\ pc[c] = "unborn" /\ pc' = [pc EXCEPT ![c] = "starting"]
          /\ arg' = [arg EXCEPT ![c] = t] /\ hb' = [hb EXCEPT ![c] = Join(hb[c], hb[t])]
          /\ UNCHANGED <<epochs, vc, mutexVc, holder, hbMutex>>
      BY <1>1 DEF RealCreate, lockVars
    <2>2. \A u \in Thread \ {c} : pc'[u] = pc[u] /\ arg'[u] = arg[u] /\ hb'[u] = hb[u]
      BY <1>a, <2>1
    <2>3. pc'[c] = "starting" /\ hb'[c] = Join(hb[c], hb[t]) BY <1>a, <2>1
    <2>4. \A u \in Thread : HappensBefore(hb[u], hb'[u]) /\ MadeIn(epochs, hb'[u]) /\ hb'[u] \in Clock
      <3>1. HappensBefore(hb[c], hb'[c]) /\ MadeIn(epochs, hb'[c]) /\ hb'[c] \in Clock
        BY <1>a, <1>b, <1>e, <2>3
      <3>2. \A u \in Thread \ {c} : HappensBefore(hb[u], hb'[u]) /\ MadeIn(epochs, hb'[u]) /\ hb'[u] \in Clock
        BY <1>a, <1>b, <1>f, <2>2
      <3> QED BY <3>1, <3>2
    <2>5. \A u \in Thread : InTruth(epochs, vc[u], hb'[u]) BY <1>a, <1>b, <1>d, <2>4
    <2>6. \A u \in Thread : pc'[u] = "joined" => HappensBefore(hb'[arg'[u]], hb'[u])
      BY <1>b, <1>c, <2>1, <2>2, <2>3
    <2>7. \A u \in Thread : pc'[u] \in {"locked", "unlocking"} => InTruth(epochs, mutexVc[arg'[u]], hb'[u])
      BY <1>b, <2>2, <2>3
    <2> QED BY <1>b, <2>1, <2>4, <2>5, <2>6, <2>7, TruthCases
  <1>2. ASSUME NEW c \in Thread, RealJoin(t, c) PROVE TruthInv'
    <2>1. /\ pc[t] = "run" /\ pc[c] = "exited" /\ pc' = [pc EXCEPT ![t] = "joined", ![c] = "reaped"]
          /\ arg' = [arg EXCEPT ![t] = c] /\ hb' = [hb EXCEPT ![t] = Join(hb[t], hb[c])]
          /\ UNCHANGED <<epochs, vc, mutexVc, holder, hbMutex>>
      BY <1>2 DEF RealJoin, lockVars
    <2>2. \A u \in Thread \ {t} : /\ pc'[u] = pc[u] \/ pc'[u] = "reaped"
                                  /\ arg'[u] = arg[u] /\ hb'[u] = hb[u]
      BY <1>a, <2>1
    <2>3. pc'[t] = "joined" /\ arg'[t] = c /\ c # t /\ hb'[t] = Join(hb[t], hb[c]) BY <1>a, <2>1
    <2>4. \A u \in Thread : HappensBefore(hb[u], hb'[u]) /\ MadeIn(epochs, hb'[u]) /\ hb'[u] \in Clock
      BY <1>a, <1>b, <1>e, <1>f, <2>2, <2>3
    <2>5. \A u \in Thread : InTruth(epochs, vc[u], hb'[u]) BY <1>a, <1>b, <1>d, <2>4
    <2>6. \A u \in Thread : pc'[u] = "joined" => HappensBefore(hb'[arg'[u]], hb'[u])
      <3>1. HappensBefore(hb'[c], hb'[t]) BY <1>a, <1>e, <2>2, <2>3
      <3> QED BY <1>b, <1>c, <2>1, <2>2, <2>3, <3>1
    <2>7. \A u \in Thread : pc'[u] \in {"locked", "unlocking"} => InTruth(epochs, mutexVc[arg'[u]], hb'[u])
      BY <1>b, <2>2, <2>3
    <2> QED BY <1>b, <2>1, <2>4, <2>5, <2>6, <2>7, TruthCases
  <1>3. CASE ThreadStart(t)
    <2>0. PICK p \in Thread \ {t} : p = arg[t] BY <1>3, <1>c DEF ThreadStart
    <2> DEFINE c == Join(Increment(Zero, t), vc[p])
    <2>1. /\ pc[t] = "starting" /\ pc' = [pc EXCEPT ![t] = "run"] /\ arg' = [arg EXCEPT ![t] = NoArg]
          /\ vc' = [vc EXCEPT ![t] = c, ![p] = Increment(vc[p], p)]
          /\ UNCHANGED <<epochs, hb, mutexVc, holder, hbMutex>>
      BY <1>3, <2>0 DEF ThreadStart, lockVars
    <2>2. hb[p] = hb[t] BY <2>0, <2>1 DEF StartsLate
    <2>3. InTruth(epochs, c, hb[t])
      <3>1. Zero \in Clock /\ InTruth(epochs, Zero, hb[t]) BY <1>h, ZeroProp
      <3>2. InTruth(epochs, Increment(Zero, t), hb[t]) BY <1>a, <1>b, <1>d, <3>1
      <3>3. InTruth(epochs, vc[p], hb[t]) BY <1>b, <2>2
      <3> QED BY <1>a, <1>d, <1>g, <3>1, <3>2, <3>3
    <2>4. InTruth(epochs, Increment(vc[p], p), hb[p]) BY <1>a, <1>b, <1>d
    <2> HIDE DEF c
    <2>5. \A u \in Thread : vc'[u] = IF u = p THEN Increment(vc[p], p) ELSE IF u = t THEN c ELSE vc[u]
      BY <1>a, <2>1
    <2>6. \A u \in Thread : InTruth(epochs, vc'[u], hb[u]) BY <1>b, <2>3, <2>4, <2>5
    <2>7. \A u \in Thread : pc'[u] = "run" \/ (pc'[u] = pc[u] /\ arg'[u] = arg[u]) BY <1>a, <2>1
    <2>8. \A u \in Thread : HappensBefore(hb[u], hb[u]) BY <1>a, <1>f
    <2> QED BY <1>b, <2>1, <2>6, <2>7, <2>8, TruthCases
  <1>4. CASE ThreadExit(t) \/ Prune(t)
    <2>1. /\ \/ pc' = [pc EXCEPT ![t] = "exited"] /\ arg' = arg
             \/ pc' = [pc EXCEPT ![t] = "run"] /\ arg' = [arg EXCEPT ![t] = NoArg]
          /\ UNCHANGED <<epochs, hb, vc, mutexVc, holder, hbMutex>>
      BY <1>4 DEF ThreadExit, Prune, lockVars
    <2>2. \A u \in Thread : pc'[u] \in {"run", "exited"} \/ (pc'[u] = pc[u] /\ arg'[u] = arg[u])
      BY <1>a, <2>1
    <2>3. \A u \in Thread : HappensBefore(hb[u], hb[u]) BY <1>a, <1>f
    <2> QED BY <1>b, <2>1, <2>2, <2>3, TruthCases
  <1>5. ASSUME NEW there \in {"run", "pruning"}, AfterPthreadJoin(t, there) PROVE TruthInv'
    <2> DEFINE c == Increment(Join(vc[t], vc[arg[t]]), t)
    <2>1. /\ pc[t] = "joined" /\ pc' = [pc EXCEPT ![t] = there] /\ vc' = [vc EXCEPT ![t] = c, ![arg[t]] = Zero]
          /\ \A u \in Thread \ {t} : arg'[u] = arg[u]
          /\ UNCHANGED <<epochs, hb, mutexVc, holder, hbMutex>>
      BY <1>5, <1>a DEF AfterPthreadJoin, lockVars
    <2>2. arg[t] \in Thread /\ HappensBefore(hb[arg[t]], hb[t]) BY <1>b, <1>c, <2>1
    <2>3. InTruth(epochs, vc[arg[t]], hb[t]) BY <1>a, <1>b, <1>d, <2>2
    <2>4. InTruth(epochs, Join(vc[t], vc[arg[t]]), hb[t]) BY <1>a, <1>b, <1>d, <2>2, <2>3
    <2>5. InTruth(epochs, c, hb[t]) BY <1>a, <1>b, <1>d, <1>e, <2>2, <2>4
    <2> HIDE DEF c
    <2>6. \A u \in Thread : vc'[u] \in {Zero, vc[u]} \/ (u = t /\ vc'[u] = c) BY <1>a, <2>1
    <2>7. \A u \in Thread : InTruth(epochs, vc'[u], hb[u]) BY <1>b, <1>h, <2>5, <2>6
    <2>8. \A u \in Thread : pc'[u] \in {"run", "pruning"} \/ (pc'[u] = pc[u] /\ arg'[u] = arg[u])
      BY <1>a, <2>1
    <2>9. \A u \in Thread : HappensBefore(hb[u], hb[u]) BY <1>a, <1>f
    <2> QED BY <1>b, <2>1, <2>7, <2>8, <2>9, TruthCases
  <1>6. ASSUME NEW m \in Mutex, RealMutexLock(t, m) PROVE TruthInv'
    <2>1. /\ pc[t] = "run" /\ pc' = [pc EXCEPT ![t] = "locked"] /\ arg' = [arg EXCEPT ![t] = m]
          /\ holder[m] = NoThread /\ holder' = [holder EXCEPT ![m] = t]
          /\ hb' = [hb EXCEPT ![t] = Join(hb[t], hbMutex[m])]
          /\ UNCHANGED <<epochs, vc, mutexVc, hbMutex>>
      BY <1>6 DEF RealMutexLock
    <2>2. \A u \in Thread \ {t} : pc'[u] = pc[u] /\ arg'[u] = arg[u] /\ hb'[u] = hb[u]
      BY <1>a, <2>1
    <2>3. pc'[t] = "locked" /\ arg'[t] = m /\ hb'[t] = Join(hb[t], hbMutex[m]) BY <1>a, <2>1
    <2>4. \A u \in Thread : HappensBefore(hb[u], hb'[u]) /\ MadeIn(epochs, hb'[u]) /\ hb'[u] \in Clock
      <3>1. HappensBefore(hb[t], hb'[t]) /\ MadeIn(epochs, hb'[t]) /\ hb'[t] \in Clock
        BY <1>a, <1>b, <1>e, <2>3
      <3>2. \A u \in Thread \ {t} : HappensBefore(hb[u], hb'[u]) /\ MadeIn(epochs, hb'[u]) /\ hb'[u] \in Clock
        BY <1>a, <1>b, <1>f, <2>2
      <3> QED BY <3>1, <3>2
    <2>5. \A u \in Thread : InTruth(epochs, vc[u], hb'[u]) BY <1>a, <1>b, <1>d, <2>4
    <2>6. \A u \in Thread : pc'[u] = "joined" => HappensBefore(hb'[arg'[u]], hb'[u])
      BY <1>b, <1>c, <2>1, <2>2, <2>3
    <2>7. InTruth(epochs, mutexVc[m], hb'[t])
      <3>1. InTruth(epochs, mutexVc[m], hbMutex[m]) /\ HappensBefore(hbMutex[m], hb'[t])
        BY <1>a, <1>b, <1>e, <2>1, <2>3
      <3> QED BY <1>a, <1>d, <2>4, <3>1
    <2>8. \A u \in Thread : pc'[u] \in {"locked", "unlocking"} => InTruth(epochs, mutexVc[arg'[u]], hb'[u])
      BY <1>b, <2>2, <2>3, <2>7
    <2>9. \A n \in Mutex : holder'[n] = NoThread => holder[n] = NoThread
      BY <1>a, <2>1
    <2> QED BY <1>b, <2>1, <2>4, <2>5, <2>6, <2>8, <2>9, TruthCases
  <1>7. ASSUME NEW m \in Mutex, BeforePthreadMutexUnlock(t, m) PROVE TruthInv'
    <2>1. /\ pc[t] = "run" /\ pc' = [pc EXCEPT ![t] = "unlocking"] /\ arg' = [arg EXCEPT ![t] = m]
          /\ holder[m] = t /\ mutexVc' = [mutexVc EXCEPT ![m] = vc[t]]
          /\ vc' = [vc EXCEPT ![t] = Increment(vc[t], t)]
          /\ UNCHANGED <<epochs, hb, holder, hbMutex>>
      BY <1>7 DEF BeforePthreadMutexUnlock
    <2>2. \A u \in Thread \ {t} : pc'[u] = pc[u] /\ arg'[u] = arg[u] /\ vc'[u] = vc[u]
      BY <1>a, <2>1
    <2>3. /\ pc'[t] = "unlocking" /\ arg'[t] = m /\ vc'[t] = Increment(vc[t], t) /\ mutexVc'[m] = vc[t]
          /\ \A n \in Mutex \ {m} : mutexVc'[n] = mutexVc[n]
      BY <1>a, <2>1
    <2>4. \A u \in Thread : InTruth(epochs, vc'[u], hb[u]) BY <1>a, <1>b, <1>d, <2>2, <2>3
    <2>5. \A u \in Thread : pc'[u] = "joined" => HappensBefore(hb[arg'[u]], hb[u])
      BY <1>b, <2>2, <2>3
    <2>6. \A u \in Thread : pc'[u] \in {"locked", "unlocking"} => InTruth(epochs, mutexVc'[arg'[u]], hb[u])
      <3>1. \A u \in Thread \ {t} : pc[u] \in {"locked", "unlocking"} => arg[u] \in Mutex \ {m}
        BY <1>c, <2>1
      <3> QED BY <1>b, <2>2, <2>3, <3>1
    <2>7. \A n \in Mutex : holder[n] = NoThread => n # m BY <2>1, NullAssumption
    <2>8. \A u \in Thread : HappensBefore(hb[u], hb[u]) BY <1>a, <1>f
    <2> QED BY <1>b, <2>1, <2>3, <2>4, <2>5, <2>6, <2>7, <2>8, TruthCases
  <1>8. CASE AfterPthreadMutexLock(t)
    <2>1. /\ pc[t] = "locked" /\ pc' = [pc EXCEPT ![t] = "run"]
          /\ \A u \in Thread \ {t} : arg'[u] = arg[u]
          /\ vc' = [vc EXCEPT ![t] = Join(vc[t], mutexVc[arg[t]])]
          /\ UNCHANGED <<epochs, hb, mutexVc, holder, hbMutex>>
      BY <1>8, <1>a DEF AfterPthreadMutexLock, lockVars
    <2>2. arg[t] \in Mutex /\ InTruth(epochs, mutexVc[arg[t]], hb[t]) BY <1>b, <1>c, <2>1
    <2>3. InTruth(epochs, Join(vc[t], mutexVc[arg[t]]), hb[t]) BY <1>a, <1>b, <1>d, <2>2
    <2>4. \A u \in Thread : InTruth(epochs, vc'[u], hb[u])
      <3>1. \A u \in Thread : vc'[u] = vc[u] \/ (u = t /\ vc'[u] = Join(vc[t], mutexVc[arg[t]]))
        BY <1>a, <2>1
      <3> QED BY <1>b, <2>3, <3>1
    <2>5. \A u \in Thread : pc'[u] = "run" \/ (pc'[u] = pc[u] /\ arg'[u] = arg[u]) BY <1>a, <2>1
    <2>6. \A u \in Thread : HappensBefore(hb[u], hb[u]) BY <1>a, <1>f
    <2> QED BY <1>b, <2>1, <2>4, <2>5, <2>6, TruthCases
  <1>9. CASE RealMutexUnlock(t)
    <2>1. /\ pc[t] = "unlocking" /\ pc' = [pc EXCEPT ![t] = "run"]
          /\ \A u \in Thread \ {t} : arg'[u] = arg[u]
          /\ holder' = [holder EXCEPT ![arg[t]] = NoThread] /\ hbMutex' = [hbMutex EXCEPT ![arg[t]] = hb[t]]
          /\ UNCHANGED <<epochs, hb, vc, mutexVc>>
      BY <1>9, <1>a DEF RealMutexUnlock
    <2>2. arg[t] \in Mutex /\ InTruth(epochs, mutexVc[arg[t]], hb[t]) BY <1>b, <1>c, <2>1
    <2>3. \A m \in Mutex : \/ hbMutex'[m] = hbMutex[m] /\ holder'[m] = holder[m]
                           \/ m = arg[t] /\ hbMutex'[m] = hb[t]
      BY <1>a, <2>1, <2>2
    <2>4. \A m \in Mutex : /\ MadeIn(epochs, hbMutex'[m])
                           /\ holder'[m] = NoThread => InTruth(epochs, mutexVc[m], hbMutex'[m])
      BY <1>b, <2>2, <2>3
    <2>5. \A u \in Thread : pc'[u] = "run" \/ (pc'[u] = pc[u] /\ arg'[u] = arg[u]) BY <1>a, <2>1
    <2>6. \A u \in Thread : HappensBefore(hb[u], hb[u]) BY <1>a, <1>f
    <2> QED BY <1>b, <2>1, <2>4, <2>5, <2>6, TruthCases
  <1> QED BY <1>1, <1>2, <1>3, <1>4, <1>5, <1>6, <1>7, <1>8, <1>9 DEF Plain

\* An access is in an epoch that nobody has heard of.
LEMMA TruthTouch ==
  ASSUME TypeOK, TypeOK', CallInv, EpochInv, TruthInv, NEW t \in Thread, Touch(t)
  PROVE  TruthInv'
  <1>a. /\ epochs \in [Thread -> Seq(Nat)] /\ hb \in [Thread -> Clock] /\ vc \in [Thread -> Clock]
        /\ epochs' \in [Thread -> Seq(Nat)] /\ mutexVc \in [Mutex -> Clock]
        /\ hbMutex \in [Mutex -> Clock]
    BY DEF TypeOK
  <1>b. /\ \A u \in Thread : /\ hb[u][u] = Len(epochs[u]) /\ MadeIn(epochs, hb[u])
                             /\ \A n \in 1..Len(epochs[u]) : epochs[u][n] > 0
        /\ \A m \in Mutex : MadeIn(epochs, hbMutex[m])
        /\ \A u \in Thread : InTruth(epochs, vc[u], hb[u])
        /\ \A u \in Thread : pc[u] \in {"locked", "unlocking"} => InTruth(epochs, mutexVc[arg[u]], hb[u])
        /\ \A m \in Mutex : holder[m] = NoThread => InTruth(epochs, mutexVc[m], hbMutex[m])
        /\ \A u \in Thread : pc[u] = "joined" => HappensBefore(hb[arg[u]], hb[u])
    BY DEF TruthInv
  <1>c. /\ \A u \in Thread : pc[u] \in {"locked", "unlocking"} => arg[u] \in Mutex
        /\ \A u \in Thread : pc[u] = "joined" => arg[u] \in Thread /\ pc[arg[u]] = "reaped"
    BY DEF CallInv
  <1>d. /\ pc[t] = "run" /\ epochs' = [epochs EXCEPT ![t] = Append(@, vc[t][t])]
        /\ hb' = [hb EXCEPT ![t][t] = @ + 1]
        /\ UNCHANGED <<pc, arg, vc, mutexVc, holder, hbMutex>>
    BY DEF Touch, lockVars
  <1>1. /\ \A u \in Thread \ {t} : epochs'[u] = epochs[u] /\ hb'[u] = hb[u]
        /\ epochs'[t] = Append(epochs[t], vc[t][t])
        /\ hb'[t][t] = hb[t][t] + 1 /\ \A u \in Thread \ {t} : hb'[t][u] = hb[t][u]
    BY <1>a, <1>d DEF Clock
  <1>2. vc[t][t] \in Nat /\ \A u \in Thread : vc[u][t] \in Nat BY <1>a DEF Clock
  <1>3. /\ Len(epochs'[t]) = Len(epochs[t]) + 1 /\ Len(epochs[t]) \in Nat
        /\ epochs'[t][Len(epochs[t]) + 1] = vc[t][t]
        /\ \A n \in 1..Len(epochs[t]) : epochs'[t][n] = epochs[t][n]
    BY <1>a, <1>1, <1>2
  <1>4. ClocksBelow(t, vc[t][t] - 1) BY <1>d DEF EpochInv, EpochOf, Alive, PC, BarPC
  <1>5. 0 <= vc[t][t] - 1
    <2>1. rwVc[t] \in Nat /\ rwVc[t] <= vc[t][t] - 1 BY <1>4 DEF TypeOK, Clock, ClocksBelow
    <2> QED BY <1>2, <2>1
  <1>6. /\ \A h \in Clock : MadeIn(epochs, h) => MadeIn(epochs', h)
        /\ MadeIn(epochs', hb'[t])
    <2>1. \A u \in Thread : Len(epochs[u]) \in Nat BY <1>a
    <2>2. ASSUME NEW h \in Clock, MadeIn(epochs, h) PROVE MadeIn(epochs', h)
      <3>1. \A u \in Thread : h[u] \in Nat /\ h[u] <= Len(epochs[u]) BY <2>2 DEF Clock, MadeIn
      <3>2. h[t] <= Len(epochs'[t]) BY <1>3, <3>1
      <3> QED BY <1>1, <3>1, <3>2 DEF MadeIn
    <2>3. hb'[t][t] <= Len(epochs'[t]) BY <1>1, <1>3, <1>b
    <2> QED BY <1>1, <1>b, <2>2, <2>3 DEF MadeIn
  <1>7. ASSUME NEW c \in Clock, c[t] <= vc[t][t] - 1, NEW h \in Clock, InTruth(epochs, c, h)
        PROVE  InTruth(epochs', c, h)
    <2>1. c[t] \in Nat BY DEF Clock
    <2>2. ASSUME NEW n \in 1..Len(epochs'[t]), epochs'[t][n] <= c[t] PROVE n <= h[t]
      <3>1. n \in 1..Len(epochs[t]) \/ n = Len(epochs[t]) + 1 BY <1>3
      <3>2. n # Len(epochs[t]) + 1 BY <1>2, <1>3, <1>7, <2>1, <2>2
      <3> QED BY <1>3, <1>7, <2>2, <3>1, <3>2 DEF InTruth
    <2> QED BY <1>1, <1>7, <2>2 DEF InTruth
  <1>8. InTruth(epochs', vc[t], hb'[t])
    <2>0. InTruth(epochs, vc[t], hb[t]) BY <1>b
    <2>1. ASSUME NEW n \in 1..Len(epochs'[t]) PROVE n <= hb'[t][t]
      <3>1. hb'[t][t] = Len(epochs'[t]) /\ Len(epochs'[t]) \in Nat BY <1>1, <1>3, <1>b
      <3> QED BY <3>1
    <2> QED BY <1>1, <2>0, <2>1 DEF InTruth
  <1> HIDE DEF InTruth, MadeIn, HappensBefore
  <1>9. \A u \in Thread : InTruth(epochs', vc[u], hb'[u])
    <2>1. \A u \in Thread \ {t} : vc[u][t] <= vc[t][t] - 1 BY <1>4 DEF ClocksBelow
    <2> QED BY <1>a, <1>b, <1>1, <1>7, <1>8, <2>1
  <1>10. \A m \in Mutex, h \in Clock : InTruth(epochs, mutexVc[m], h) => InTruth(epochs', mutexVc[m], h)
    BY <1>a, <1>4, <1>7 DEF ClocksBelow
  <1>11. \A u \in Thread : pc[u] \in {"locked", "unlocking"} => InTruth(epochs', mutexVc[arg[u]], hb'[u])
    BY <1>a, <1>b, <1>c, <1>d, <1>1, <1>10
  <1>12. \A m \in Mutex : holder[m] = NoThread => InTruth(epochs', mutexVc[m], hbMutex[m])
    BY <1>a, <1>b, <1>10
  <1>13. \A u \in Thread : pc[u] = "joined" => HappensBefore(hb'[arg[u]], hb'[u])
    BY <1>b, <1>c, <1>d, <1>1
  <1>14. \A u \in Thread : /\ hb'[u][u] = Len(epochs'[u]) /\ MadeIn(epochs', hb'[u])
                           /\ \A n \in 1..Len(epochs'[u]) : epochs'[u][n] > 0
    <2>1. \A u \in Thread \ {t} : /\ hb'[u][u] = Len(epochs'[u]) /\ MadeIn(epochs', hb'[u])
                                  /\ \A n \in 1..Len(epochs'[u]) : epochs'[u][n] > 0
      BY <1>a, <1>b, <1>1, <1>6
    <2>2. ASSUME NEW n \in 1..Len(epochs'[t]) PROVE epochs'[t][n] > 0
      <3>1. n \in 1..Len(epochs[t]) \/ n = Len(epochs[t]) + 1 BY <1>3
      <3>2. vc[t][t] > 0 BY <1>2, <1>5
      <3> QED BY <1>b, <1>3, <3>1, <3>2
    <2>3. hb'[t][t] = Len(epochs'[t]) BY <1>b, <1>1, <1>3
    <2> QED BY <1>6, <2>1, <2>2, <2>3
  <1>15. \A m \in Mutex : MadeIn(epochs', hbMutex[m]) BY <1>a, <1>b, <1>6
  <1> QED BY <1>d, <1>9, <1>11, <1>12, <1>13, <1>14, <1>15 DEF TruthInv

-----------------------------------------------------------------------------
(* What Djit knows of the last accesses. *)

\* It follows an access.
LEMMA LatestMoves ==
  ASSUME TypeOK, TypeOK', NEW t \in Thread, Touch(t), NEW k \in Clock, NEW c \in Clock,
         MadeIn(epochs, k), LatestIn(epochs, k, c)
  PROVE  /\ LatestIn(epochs', k, c)
         /\ LatestIn(epochs', [k EXCEPT ![t] = Len(epochs'[t])], [c EXCEPT ![t] = Now(t)])
  <1>1. \A u \in Thread : k[u] \in Nat /\ k[u] <= Len(epochs[u]) BY DEF Clock, MadeIn
  <1>2. \A u \in Thread : Len(epochs[u]) \in Nat BY DEF TypeOK
  <1>3. \A u \in Thread : k[u] # 0 => epochs'[u][k[u]] = epochs[u][k[u]]
    <2>1. \A u \in Thread : k[u] # 0 => k[u] \in 1..Len(epochs[u]) BY <1>1, <1>2
    <2> QED BY <2>1, TouchEpochs DEF Extends
  <1>4. LatestIn(epochs', k, c) BY <1>3 DEF LatestIn
  <1>5. epochs'[t][Len(epochs'[t])] = Now(t) BY TouchEpochs
  <1> DEFINE l == [k EXCEPT ![t] = Len(epochs'[t])]
             d == [c EXCEPT ![t] = Now(t)]
  <1>6. /\ l[t] = Len(epochs'[t]) /\ d[t] = Now(t)
        /\ \A u \in Thread \ {t} : l[u] = k[u] /\ d[u] = c[u]
    BY DEF Clock
  <1> HIDE DEF l, d
  <1>7. LatestIn(epochs', l, d) BY <1>4, <1>5, <1>6 DEF LatestIn
  <1> QED BY <1>4, <1>7 DEF l, d

\* A thread whose clock has all the entries races with none of the accesses.
LEMMA HeardIsTrue ==
  ASSUME TypeOK, NEW t \in Thread, InTruth(epochs, vc[t], hb[t]), NEW last \in Clock, NEW d \in Clock,
         MadeIn(epochs, last), LatestIn(epochs, last, d), HappensBefore(d, vc[t])
  PROVE  HbConcurrent(last, t) = {}
  <1> SUFFICES ASSUME NEW u \in Thread, last[u] > hb[t][u] PROVE FALSE BY DEF HbConcurrent
  <1>1. last[u] \in Nat /\ hb[t][u] \in Nat /\ Len(epochs[u]) \in Nat BY DEF TypeOK, Clock
  <1>2. last[u] \in 1..Len(epochs[u]) /\ last[u] # 0 BY <1>1 DEF MadeIn
  <1>3. epochs[u][last[u]] = d[u] /\ d[u] <= vc[t][u] BY <1>2 DEF LatestIn, HappensBefore
  <1>4. last[u] <= hb[t][u] BY <1>2, <1>3 DEF InTruth
  <1> QED BY <1>1, <1>4

\* No entry of another is ahead of a running thread's clock: the clock has them all.
LEMMA NoneConcurrent ==
  ASSUME TypeOK, RaceTypes, PassedInv, NEW t \in Thread, pc[t] = "run"
  PROVE  /\ Concurrent(djit.writer, t) = {} => HappensBefore(djit.writer, vc[t])
         /\ Concurrent(djit.reader, t) = {} => HappensBefore(djit.reader, vc[t])
  <1>1. \A u \in Thread : vc[t][u] \in Nat BY DEF TypeOK, Clock
  <1>2. \A u \in Thread : djit.writer[u] \in Nat /\ djit.reader[u] \in Nat BY DEF RaceTypes, DjitMeta, Clock
  <1>3. djit.writer[t] <= vc[t][t] /\ djit.reader[t] <= vc[t][t] BY DEF PassedInv, Passed
  <1> QED BY <1>1, <1>2, <1>3 DEF HappensBefore, Concurrent

\* A running thread has not heard of the epoch that another is in.
LEMMA NotHeard ==
  ASSUME TypeOK, EpochInv, NEW t \in Thread, NEW x \in Thread \ {t}, pc[x] \in Alive, NEW d \in Clock,
         HappensBefore(d, vc[t])
  PROVE  d[x] # vc[x][x]
  <1>1. d[x] \in Nat /\ vc[t][x] \in Nat /\ vc[x][x] \in Nat BY DEF TypeOK, Clock
  <1>2. vc[t][x] <= vc[x][x] - 1 BY DEF EpochInv, EpochOf, ClocksBelow
  <1>3. d[x] <= vc[t][x] BY DEF HappensBefore
  <1> QED BY <1>1, <1>2, <1>3

-----------------------------------------------------------------------------
(* Accesses: while Djit reports nothing there is nothing to report. *)

LEMMA ReadFinds ==
  ASSUME TypeOK, EpochInv, RaceTypes, RecordInv, PassedInv, LatestInv, TruthInv, CheckedInv,
         NEW t \in Thread, BeforeMemRead(t), djit.races = {}, djit'.races = {}, trueRaces = {}
  PROVE  trueRaces' = {} /\ CheckedInv'
  <1>0. /\ pc[t] = "run" /\ pc[t] \in Alive /\ UNCHANGED <<pc, vc>> /\ djit' = DjitRead(djit, t)
        /\ trueRaces' = RacesWith(HbConcurrent(lastWrite, t), "W", t, "R")
    BY DEF BeforeMemRead, Touch, TrueRead, Alive, PC, BarPC
  <1>1. /\ vc \in [Thread -> Clock] /\ djit \in DjitMeta /\ lastWrite \in Clock
        /\ djit.reader \in Clock /\ djit.writer \in Clock
    BY DEF TypeOK, RaceTypes, DjitMeta
  <1>2. /\ djit'.writer = djit.writer /\ djit'.reader = [djit.reader EXCEPT ![t] = Now(t)]
        /\ djit'.races = {} \cup (IF djit.reader[t] = Now(t) THEN {}
                                  ELSE RacesWith(Concurrent(djit.writer, t), "W", t, "R"))
    BY <1>0, <1>1, DjitReadProp
  <1>3. HappensBefore(djit.writer, vc[t])
    <2>1. CASE djit.reader[t] = Now(t) BY <1>0, <2>1 DEF CheckedInv, Now
    <2>2. CASE djit.reader[t] # Now(t)
      <3>1. Concurrent(djit.writer, t) = {} BY <1>2, <2>2, RacesWithEmpty
      <3> QED BY <1>0, <3>1, NoneConcurrent
    <2> QED BY <2>1, <2>2
  <1>4. trueRaces' = {}
    <2>1. HbConcurrent(lastWrite, t) = {}
      BY <1>1, <1>3, HeardIsTrue DEF LatestInv, RecordInv, TruthInv
    <2> QED BY <1>0, <2>1, RacesWithEmpty
  <1>5. ASSUME NEW x \in Thread, pc[x] \in Alive
        PROVE  /\ djit'.reader[x] = vc[x][x] => HappensBefore(djit.writer, vc[x])
               /\ djit.writer[x] = vc[x][x] => /\ HappensBefore(djit.writer, vc[x])
                                               /\ HappensBefore(djit'.reader, vc[x])
    <2>1. /\ djit.reader[x] = vc[x][x] => HappensBefore(djit.writer, vc[x])
          /\ djit.writer[x] = vc[x][x] => /\ HappensBefore(djit.writer, vc[x])
                                          /\ HappensBefore(djit.reader, vc[x])
      BY <1>5 DEF CheckedInv
    <2>2. CASE x # t
      <3>1. djit.writer[x] # vc[x][x] BY <1>1, <1>3, <1>5, <2>2, NotHeard
      <3>2. djit'.reader[x] = djit.reader[x] BY <1>1, <1>2, <2>2 DEF Clock
      <3> QED BY <2>1, <3>1, <3>2
    <2>3. CASE x = t
      <3>1. \A u \in Thread : djit'.reader[u] \in {djit.reader[u], vc[t][u]}
        BY <1>1, <1>2 DEF Clock, Now
      <3>2. \A u \in Thread : vc[t][u] \in Nat BY <1>1 DEF Clock
      <3>3. HappensBefore(djit.reader, vc[t]) => HappensBefore(djit'.reader, vc[t])
        BY <3>1, <3>2 DEF HappensBefore
      <3> QED BY <1>3, <2>1, <2>3, <3>3
    <2> QED BY <2>2, <2>3
  <1>6. CheckedInv' BY <1>0, <1>2, <1>5 DEF CheckedInv
  <1> QED BY <1>4, <1>6

LEMMA WriteFinds ==
  ASSUME TypeOK, EpochInv, RaceTypes, RecordInv, PassedInv, LatestInv, TruthInv, CheckedInv,
         NEW t \in Thread, BeforeMemWrite(t), djit.races = {}, djit'.races = {}, trueRaces = {}
  PROVE  trueRaces' = {} /\ CheckedInv'
  <1>0. /\ pc[t] = "run" /\ pc[t] \in Alive /\ UNCHANGED <<pc, vc>> /\ djit' = DjitWrite(djit, t)
        /\ trueRaces' = RacesWith(HbConcurrent(lastWrite, t), "W", t, "W")
                          \cup RacesWith(HbConcurrent(lastRead, t), "R", t, "W")
    BY DEF BeforeMemWrite, Touch, TrueWrite, Alive, PC, BarPC
  <1>1. /\ vc \in [Thread -> Clock] /\ djit \in DjitMeta /\ lastWrite \in Clock /\ lastRead \in Clock
        /\ djit.reader \in Clock /\ djit.writer \in Clock
    BY DEF TypeOK, RaceTypes, DjitMeta
  <1>2. /\ djit'.reader = djit.reader /\ djit'.writer = [djit.writer EXCEPT ![t] = Now(t)]
        /\ djit'.races = {} \cup (IF djit.writer[t] = Now(t) THEN {}
                                  ELSE RacesWith(Concurrent(djit.writer, t), "W", t, "W")
                                         \cup RacesWith(Concurrent(djit.reader, t), "R", t, "W"))
    BY <1>0, <1>1, DjitWriteProp
  <1>3. HappensBefore(djit.writer, vc[t]) /\ HappensBefore(djit.reader, vc[t])
    <2>1. CASE djit.writer[t] = Now(t) BY <1>0, <2>1 DEF CheckedInv, Now
    <2>2. CASE djit.writer[t] # Now(t)
      <3>1. Concurrent(djit.writer, t) = {} /\ Concurrent(djit.reader, t) = {}
        BY <1>2, <2>2, RacesWithEmpty
      <3> QED BY <1>0, <3>1, NoneConcurrent
    <2> QED BY <2>1, <2>2
  <1>4. trueRaces' = {}
    <2>1. HbConcurrent(lastWrite, t) = {} /\ HbConcurrent(lastRead, t) = {}
      BY <1>1, <1>3, HeardIsTrue DEF LatestInv, RecordInv, TruthInv
    <2>2. RacesWith(HbConcurrent(lastWrite, t), "W", t, "W") = {} BY <2>1, RacesWithEmpty
    <2>3. RacesWith(HbConcurrent(lastRead, t), "R", t, "W") = {} BY <2>1, RacesWithEmpty
    <2> QED BY <1>0, <2>2, <2>3
  <1>5. ASSUME NEW x \in Thread, pc[x] \in Alive
        PROVE  /\ djit.reader[x] = vc[x][x] => HappensBefore(djit'.writer, vc[x])
               /\ djit'.writer[x] = vc[x][x] => /\ HappensBefore(djit'.writer, vc[x])
                                                /\ HappensBefore(djit.reader, vc[x])
    <2>2. CASE x # t
      <3>1. djit.writer[x] # vc[x][x] /\ djit.reader[x] # vc[x][x] BY <1>1, <1>3, <1>5, <2>2, NotHeard
      <3>2. djit'.writer[x] = djit.writer[x] BY <1>1, <1>2, <2>2 DEF Clock
      <3> QED BY <3>1, <3>2
    <2>3. CASE x = t
      <3>1. \A u \in Thread : djit'.writer[u] \in {djit.writer[u], vc[t][u]}
        BY <1>1, <1>2 DEF Clock, Now
      <3>2. \A u \in Thread : vc[t][u] \in Nat BY <1>1 DEF Clock
      <3>3. HappensBefore(djit'.writer, vc[t])
        BY <1>3, <3>1, <3>2 DEF HappensBefore
      <3> QED BY <1>3, <2>3, <3>3
    <2> QED BY <2>2, <2>3
  <1>6. CheckedInv' BY <1>0, <1>2, <1>5 DEF CheckedInv
  <1> QED BY <1>4, <1>6

\* The steps between accesses: a thread in a new epoch has made none in it.
LEMMA CheckedStep ==
  ASSUME TypeOK, TypeOK', CallInv, EpochInv', RaceTypes, PassedInv, CheckedInv,
         NEW t \in Thread, Step(t), UNCHANGED djit
  PROVE  CheckedInv'
  <1> SUFFICES ASSUME NEW u \in Thread, pc'[u] \in Alive
               PROVE  /\ djit.reader[u] = vc'[u][u] => HappensBefore(djit.writer, vc'[u])
                      /\ djit.writer[u] = vc'[u][u] => /\ HappensBefore(djit.writer, vc'[u])
                                                       /\ HappensBefore(djit.reader, vc'[u])
    BY DEF CheckedInv
  <1>a. djit.reader \in Clock /\ djit.writer \in Clock BY DEF RaceTypes, DjitMeta
  <1>b. vc[u] \in Clock /\ vc'[u] \in Clock BY DEF TypeOK
  <1>1. /\ djit.reader[u] \in Nat /\ djit.writer[u] \in Nat
        /\ vc[u][u] \in Nat /\ vc'[u][u] \in Nat
    BY <1>a, <1>b DEF Clock
  <1>2. Passed(u, djit.reader[u]) /\ Passed(u, djit.writer[u]) BY DEF PassedInv
  <1>3. CASE pc[u] \in Alive
    <2>1. djit.reader[u] <= vc[u][u] /\ djit.writer[u] <= vc[u][u]
      BY <1>2, <1>3 DEF Passed, Alive
    <2>2. HappensBefore(vc[u], vc'[u]) BY <1>3, VcGrows DEF Alive
    <2>3. vc[u][u] <= vc'[u][u] BY <2>2 DEF HappensBefore
    <2>4. \A d \in Clock : HappensBefore(d, vc[u]) => HappensBefore(d, vc'[u])
      BY <1>b, <2>2, ClockOrder
    <2>5. /\ djit.reader[u] = vc'[u][u] => djit.reader[u] = vc[u][u]
          /\ djit.writer[u] = vc'[u][u] => djit.writer[u] = vc[u][u]
      BY <1>1, <2>1, <2>3
    <2>6. /\ djit.reader[u] = vc[u][u] => HappensBefore(djit.writer, vc[u])
          /\ djit.writer[u] = vc[u][u] => /\ HappensBefore(djit.writer, vc[u])
                                          /\ HappensBefore(djit.reader, vc[u])
      BY <1>3 DEF CheckedInv
    <2> QED BY <1>a, <2>4, <2>5, <2>6
  <1>4. CASE pc[u] = "starting" /\ vc'[u][u] > 0
    BY <1>1, <1>2, <1>4 DEF Passed
  <1>5. CASE pc[u] \in BarPC /\ vc'[u][u] > vc[u][u]
    BY <1>1, <1>2, <1>5 DEF Passed, BarPC
  <1> QED BY <1>3, <1>4, <1>5, AliveAgain

-----------------------------------------------------------------------------
(* The theorem. *)

\* Nothing has happened.
LEMMA FirstInit == RacesInit => FirstIInv
  <1> SUFFICES ASSUME RacesInit PROVE FirstIInv OBVIOUS
  <1>1. AgreeIInv BY AgreeInit
  <1>2. TypeOK BY <1>1 DEF AgreeIInv, EpochIInv, CallIInv
  <1>3. Zero \in Clock /\ \A u \in Thread : Zero[u] = 0 BY ZeroProp
  <1>4. /\ djit.reader = Zero /\ djit.writer = Zero /\ djit.races = {} /\ trueRaces = {}
        /\ lastRead = Zero /\ lastWrite = Zero
    BY DEF RacesInit, NewDjitMeta
  <1>5. /\ pc = [t \in Thread |-> IF t = Main THEN "run" ELSE "unborn"]
        /\ writer = NoThread /\ readers = {}
        /\ epochs = [t \in Thread |-> << >>] /\ hb = [t \in Thread |-> Zero]
        /\ hbMutex = [m \in Mutex |-> Zero]
    BY DEF RacesInit, Init
  <1>6. PlainInv BY <1>5 DEF PlainInv, PlainPC
  <1>7. LatestInv BY <1>3, <1>4 DEF LatestInv, LatestIn
  <1>8. TruthInv
    <2>1. \A u \in Thread : Len(epochs[u]) = 0 BY <1>5
    <2>2. \A c, h : InTruth(epochs, c, h) BY <2>1 DEF InTruth
    <2>3. MadeIn(epochs, Zero) BY <1>3, <2>1 DEF MadeIn
    <2>4. \A u \in Thread : pc[u] # "joined" BY <1>5
    <2>5. \A u \in Thread : hb[u] = Zero /\ hb[u][u] = 0 BY <1>3, <1>5
    <2>6. \A m \in Mutex : hbMutex[m] = Zero BY <1>5
    <2> HIDE DEF InTruth, MadeIn
    <2> QED BY <2>1, <2>2, <2>3, <2>4, <2>5, <2>6 DEF TruthInv
  <1>9. CheckedInv
    <2> SUFFICES ASSUME NEW t \in Thread, pc[t] \in Alive PROVE HappensBefore(Zero, vc[t])
      BY <1>4 DEF CheckedInv
    <2> QED BY <1>2, ClockOrder DEF TypeOK
  <1> QED BY <1>1, <1>4, <1>6, <1>7, <1>8, <1>9 DEF FirstIInv, AgreeIInv

\* Every step keeps the invariant.
LEMMA FirstNext ==
  ASSUME Ops \subseteq MutexOps
  PROVE  FirstIInv /\ [RacesNext]_racesVars => FirstIInv'
  <1> SUFFICES ASSUME FirstIInv, [RacesNext]_racesVars PROVE FirstIInv' OBVIOUS
  <1>0. /\ EpochIInv /\ RaceTypes /\ RecordInv /\ PassedInv /\ PlainInv /\ LatestInv
        /\ ~lateStart => TruthInv
        /\ ~lateStart /\ djit.races = {} => trueRaces = {} /\ CheckedInv
        /\ TypeOK /\ CallInv /\ CountInv /\ EpochInv
    BY DEF FirstIInv, EpochIInv, CallIInv
  <1>1. ASSUME NEW t \in Thread, Step(t)
        PROVE  /\ EpochIInv' /\ TypeOK' /\ EpochInv' /\ PlainInv'
               /\ ~lateStart /\ ~StartsLate(t) => TruthInv'
    <2>1. TypeOK' /\ CallInv' BY <1>0, <1>1, TypeStep, CallStep
    <2>2. CountInv' BY <1>0, <1>1, <2>1, CountStep
    <2>3. EpochInv' BY <1>0, <1>1, EpochStep
    <2>4. PlainInv' /\ Plain(t) BY <1>0, <1>1, PlainStep
    <2>5. ~lateStart /\ ~StartsLate(t) => TruthInv' BY <1>0, <2>1, <2>4, TruthStep, TruthTouch
    <2> QED BY <2>1, <2>2, <2>3, <2>4, <2>5 DEF EpochIInv, CallIInv
  <1>2. ASSUME NEW t \in Thread, BeforeMemRead(t) \/ BeforeMemWrite(t) PROVE FirstIInv'
    <2>1. Touch(t) /\ Step(t) BY <1>2, RacesStep
    <2>2. EpochIInv' /\ TypeOK' /\ PlainInv' BY <1>1, <2>1
    <2>3. RaceTypes' /\ RecordInv' /\ PassedInv'
      BY <1>0, <1>2, <2>2, ReadRecords, WriteRecords, PassedNow
    <2>4. lateStart' = lateStart
      BY <1>2 DEF BeforeMemRead, BeforeMemWrite, TrueRead, TrueWrite
    <2>5. ~lateStart => TruthInv'
      <3>1. ~StartsLate(t) BY <2>1 DEF Touch, StartsLate
      <3> QED BY <1>1, <2>1, <3>1
    <2>6. /\ vc \in [Thread -> Clock] /\ djit \in DjitMeta /\ lastRead \in Clock /\ lastWrite \in Clock
          /\ djit.reader \in Clock /\ djit.writer \in Clock
      BY <1>0 DEF TypeOK, RaceTypes, DjitMeta
    <2>7. LatestInv'
      <3>1. MadeIn(epochs, lastRead) /\ MadeIn(epochs, lastWrite) BY <1>0 DEF RecordInv
      <3>2. LatestIn(epochs, lastRead, djit.reader) /\ LatestIn(epochs, lastWrite, djit.writer)
        BY <1>0 DEF LatestInv
      <3>3. /\ LatestIn(epochs', lastRead, djit.reader)
            /\ LatestIn(epochs', [lastRead EXCEPT ![t] = Len(epochs'[t])], [djit.reader EXCEPT ![t] = Now(t)])
            /\ LatestIn(epochs', lastWrite, djit.writer)
            /\ LatestIn(epochs', [lastWrite EXCEPT ![t] = Len(epochs'[t])], [djit.writer EXCEPT ![t] = Now(t)])
        BY <1>0, <2>1, <2>2, <2>6, <3>1, <3>2, LatestMoves
      <3>4. CASE BeforeMemRead(t)
        <4>1. /\ djit' = DjitRead(djit, t) /\ lastWrite' = lastWrite
              /\ lastRead' = [lastRead EXCEPT ![t] = Len(epochs'[t])]
          BY <3>4 DEF BeforeMemRead, TrueRead
        <4>2. djit'.writer = djit.writer /\ djit'.reader = [djit.reader EXCEPT ![t] = Now(t)]
          BY <2>6, <4>1, DjitReadProp
        <4> QED BY <3>3, <4>1, <4>2 DEF LatestInv
      <3>5. CASE BeforeMemWrite(t)
        <4>1. /\ djit' = DjitWrite(djit, t) /\ lastRead' = lastRead
              /\ lastWrite' = [lastWrite EXCEPT ![t] = Len(epochs'[t])]
          BY <3>5 DEF BeforeMemWrite, TrueWrite
        <4>2. djit'.reader = djit.reader /\ djit'.writer = [djit.writer EXCEPT ![t] = Now(t)]
          BY <2>6, <4>1, DjitWriteProp
        <4> QED BY <3>3, <4>1, <4>2 DEF LatestInv
      <3> QED BY <1>2, <3>4, <3>5
    <2>8. djit.races \subseteq djit'.races
      <3>1. djit.races \subseteq DjitRead(djit, t).races BY ZenonT(20), <2>6, DjitReadProp
      <3>2. djit.races \subseteq DjitWrite(djit, t).races
        <4>1. \E S : DjitWrite(djit, t).races = djit.races \cup S BY <2>6, DjitWriteProp
        <4> QED BY <4>1
      <3>3. djit' \in {DjitRead(djit, t), DjitWrite(djit, t)} BY <1>2 DEF BeforeMemRead, BeforeMemWrite
      <3> QED BY <3>1, <3>2, <3>3
    <2>9. ~lateStart' /\ djit'.races = {} => trueRaces' = {} /\ CheckedInv'
      <3> SUFFICES ASSUME ~lateStart', djit'.races = {} PROVE trueRaces' = {} /\ CheckedInv' OBVIOUS
      <3>1. ~lateStart /\ djit.races = {} BY <2>4, <2>8
      <3>2. TruthInv /\ trueRaces = {} /\ CheckedInv BY <1>0, <3>1
      <3> QED BY <1>0, <1>2, <3>1, <3>2, ReadFinds, WriteFinds
    <2> QED BY <2>2, <2>3, <2>4, <2>5, <2>7, <2>9 DEF FirstIInv
  <1>3. ASSUME NEW t \in Thread,
               \/ SyncRaces(t) \/ (AfterPthreadJoin(t, "pruning") /\ UNCHANGED raceVars)
               \/ PruneReaders(t)
        PROVE  FirstIInv'
    <2>0. Step(t) BY <1>3, RacesStep
    <2>1. EpochIInv' /\ TypeOK' /\ EpochInv' /\ PlainInv' BY <1>1, <2>0
    <2>2. RaceTypes' /\ RecordInv' /\ UNCHANGED <<djit, trueRaces>> BY <1>0, <1>3, <2>1, OtherRecords
    <2>3. UNCHANGED <<epochs, lastRead, lastWrite>>
      <3>1. CASE SyncRaces(t) BY <3>1, SyncEpochs DEF SyncRaces
      <3>2. CASE AfterPthreadJoin(t, "pruning") /\ UNCHANGED raceVars
        BY <3>2 DEF AfterPthreadJoin, raceVars, trueVars
      <3>3. CASE PruneReaders(t) BY <3>3 DEF PruneReaders, trueVars
      <3> QED BY <1>3, <3>1, <3>2, <3>3
    <2>4. ~lateStart' => ~lateStart /\ ~StartsLate(t)
      <3>1. CASE SyncRaces(t) BY <1>0, <3>1 DEF SyncRaces, RaceTypes
      <3>2. CASE AfterPthreadJoin(t, "pruning") /\ UNCHANGED raceVars
        BY <3>2 DEF AfterPthreadJoin, raceVars, trueVars, Move, StartsLate
      <3>3. CASE PruneReaders(t) BY <3>3 DEF PruneReaders, trueVars, Move, StartsLate
      <3> QED BY <1>3, <3>1, <3>2, <3>3
    <2>5. PassedInv'
      <3>1. ASSUME NEW u \in Thread
            PROVE  Passed(u, djit.reader[u])' /\ Passed(u, djit.writer[u])'
        <4>1. PICK n \in Nat : n = djit.reader[u] BY <1>0 DEF RaceTypes, DjitMeta, Clock
        <4>2. PICK k \in Nat : k = djit.writer[u] BY <1>0 DEF RaceTypes, DjitMeta, Clock
        <4>3. Passed(u, n) /\ Passed(u, k) BY <1>0, <4>1, <4>2 DEF PassedInv
        <4>4. Passed(u, n)' /\ Passed(u, k)' BY <1>0, <2>0, <2>1, <4>3, PassedStep
        <4>5. djit'.reader[u] = n /\ djit'.writer[u] = k BY <2>2, <4>1, <4>2
        <4> QED BY <4>4, <4>5 DEF Passed
      <3> QED BY <3>1 DEF PassedInv
    <2>6. LatestInv' BY <1>0, <2>2, <2>3 DEF LatestInv
    <2>7. ~lateStart' => TruthInv' BY <1>1, <2>0, <2>4
    <2>8. ~lateStart' /\ djit'.races = {} => trueRaces' = {} /\ CheckedInv'
      BY <1>0, <2>0, <2>1, <2>2, <2>4, CheckedStep
    <2> QED BY <2>1, <2>2, <2>5, <2>6, <2>7, <2>8 DEF FirstIInv
  <1>4. CASE UNCHANGED racesVars
    <2>1. UNCHANGED vars
          /\ UNCHANGED <<djit, lite, ftReader, ftWriter, ftReaderVc, shared, lostReader, trueRaces,
                         lastRead, lastWrite, lateStart, lastrld>>
          /\ UNCHANGED <<epochs, hb, hbMutex, pc, arg, vc, mutexVc, holder, writer, readers>>
      BY <1>4 DEF racesVars, vars, callVars, lockVars, rwVars, raceVars, djitVars, ftVars, trueVars
    <2>2. EpochIInv' BY <1>0, <2>1, EpochNext
    <2>3. RaceTypes' /\ RecordInv' BY <1>0, <2>1 DEF RaceTypes, RecordInv
    <2>4. PassedInv' /\ PlainInv' /\ LatestInv'
      BY <1>0, <2>1 DEF PassedInv, Passed, PlainInv, LatestInv
    <2>5. TruthInv => TruthInv' BY <2>1 DEF TruthInv
    <2>6. CheckedInv => CheckedInv' BY <2>1 DEF CheckedInv
    <2> QED BY <1>0, <2>1, <2>2, <2>3, <2>4, <2>5, <2>6 DEF FirstIInv
  <1> QED BY <1>2, <1>3, <1>4 DEF RacesNext

\* In a program that synchronises by mutexes, creation and join alone, Djit has
\* reported a race once the execution has one, unless a child started late.
THEOREM FirstRacesFound ==
  ASSUME Ops \subseteq MutexOps
  PROVE  RacesSpec => []FirstRaceFound
  <1>1. FirstIInv => FirstRaceFound BY DEF FirstIInv, FirstRaceFound
  <1>2. FirstIInv /\ [RacesNext]_racesVars => FirstIInv' BY FirstNext
  <1> QED BY <1>1, <1>2, FirstInit, PTL DEF RacesSpec
=============================================================================
