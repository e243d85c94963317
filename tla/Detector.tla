------------------------------- MODULE Detector -------------------------------
(***************************************************************************)
(* The happens-before core every dynamic detector inherits from            *)
(* (src/src/race/detector.cc): one vector clock per thread and one or more *)
(* per synchronisation object, updated by the callbacks before a release   *)
(* and after an acquire.  FastTrack replaces the rwlock handlers; Loft     *)
(* skips clock operations it takes to be redundant.                        *)
(*                                                                         *)
(* A callback runs under internal_lock_ and is one action; the pthread     *)
(* call it brackets is an action of its own, so a release and the callback *)
(* that announces it, an acquire and the callback that records it, are two *)
(* steps that others can come between.                                     *)
(*                                                                         *)
(* Beside the clocks runs the truth they approximate.  epochs[t] is the    *)
(* sequence of t's memory accesses, each with t's own clock at the time;   *)
(* hb[t][u] is the number of u's accesses that happen before what t does   *)
(* now, as POSIX orders the calls.  It changes in the pthread steps only,  *)
(* never in a callback.                                                    *)
(***************************************************************************)
EXTENDS Integers, FiniteSets, Sequences

CONSTANTS
  Thread, Main,  \* application threads; the one that exists at the start
  Mutex,         \* pthread mutexes; the program has one object of each other kind
  CondMutex,     \* the mutex its condition variable is used with
  NoThread,      \* thread id 0
  NoArg,         \* the argument of a thread that is in no call
  Ops,           \* the kinds of event this program raises
  MaxOps,        \* bound: events the program raises in all
  BarrierCount,  \* the count of the program's barrier
  RwlockCounts,  \* FastTrack's rwlock handlers (else those of Detector)
  SignalHolding  \* the program signals only while it holds the waiters' mutex

Kinds == {"access", "mutex", "join", "barrier", "cond", "sem", "rwlock"}

ASSUME MainAssumption    == Main \in Thread
ASSUME FiniteAssumption  == IsFiniteSet(Thread)
ASSUME NullAssumption    == NoThread \notin Thread
ASSUME ArgAssumption     == NoArg \notin Mutex \cup Thread
ASSUME CondAssumption    == CondMutex \in Mutex
ASSUME OpsAssumption     == Ops \subseteq Kinds
ASSUME BoundAssumption   == MaxOps \in Nat
ASSUME BarrierAssumption == BarrierCount \in Nat \ {0}
ASSUME RwlockAssumption  == RwlockCounts \in BOOLEAN
ASSUME SignalAssumption  == SignalHolding \in BOOLEAN

VARIABLES
  pc, arg,       \* where each thread is, and the mutex, child or parent of its call
  left,          \* events the program may still raise (bounded by MaxOps)
  vc,            \* curr_vc_map_
  mutexVc,       \* MutexMeta::vc
  rwVc, rwWait, rwRef,       \* the rwlock's vc, wait_vc, ref_count
  waitTable, signalTable,    \* CondMeta; the empty clock stands for no entry
  barVc, waiter,             \* BarrierMeta::wait_vc, waiter
  semVc,                     \* SemMeta::vc
  holder, writer, readers, arrived, semValue,   \* pthread: who holds, waits
  epochs, hb,                \* the accesses made, and which happen before
  hbMutex, hbWriter, hbReaders, hbSem           \* what a release hands on

callVars == <<pc, arg, left>>
lockVars == <<mutexVc, holder, hbMutex>>
rwVars   == <<rwVc, rwWait, rwRef, writer, readers, hbWriter, hbReaders>>
condVars == <<waitTable, signalTable>>
barVars  == <<barVc, waiter, arrived>>
semVars  == <<semVc, semValue, hbSem>>
vars     == <<callVars, vc, lockVars, rwVars, condVars, barVars, semVars, epochs, hb>>

BarPC == {"barEnter", "barrier", "barrierOpen"}
PC    == {"unborn", "starting", "run", "locked", "unlocking", "rdLocked", "wrLocked", "rwUnlocking",
          "condEnter", "condWait", "condWoken", "condLocked", "signalling", "semPosting",
          "semTaken", "joined", "pruning", "exited", "reaped"} \cup BarPC

-----------------------------------------------------------------------------
(* Vector clocks: a thread that is not in the map has clock 0. *)

Clock == [Thread -> Nat]
Zero  == [u \in Thread |-> 0]

Join(c, d)       == [u \in Thread |-> IF c[u] < d[u] THEN d[u] ELSE c[u]]
Increment(c, t)  == [c EXCEPT ![t] = @ + 1]
HappensBefore(c, d) == \A u \in Thread : c[u] <= d[u]

\* The join of the clocks d[u], u in S, with c.
JoinAll(c, d, S) ==
  [u \in Thread |-> CHOOSE n \in {c[u]} \cup {d[w][u] : w \in S} :
                      \A k \in {c[u]} \cup {d[w][u] : w \in S} : k <= n]

\* The epoch t is in.
Now(t) == vc[t][t]

\* Who did what to which access of whom.
Race == Thread \X {"R", "W"} \X Thread \X {"R", "W"}

RacesWith(S, kind, t, mine) == {<<u, kind, t, mine>> : u \in S}

-----------------------------------------------------------------------------
TypeOK ==
  /\ pc \in [Thread -> PC]
  /\ arg \in [Thread -> Mutex \cup Thread \cup {NoArg}]
  /\ left \in 0..MaxOps
  /\ vc \in [Thread -> Clock]
  /\ mutexVc \in [Mutex -> Clock]
  /\ rwVc \in Clock /\ rwWait \in Clock /\ rwRef \in Nat
  /\ waitTable \in [Thread -> Clock] /\ signalTable \in [Thread -> Clock]
  /\ barVc \in Clock /\ waiter \in Nat
  /\ semVc \in Clock
  /\ holder \in [Mutex -> Thread \cup {NoThread}]
  /\ writer \in Thread \cup {NoThread} /\ readers \subseteq Thread
  /\ arrived \subseteq Thread /\ semValue \in Nat
  /\ epochs \in [Thread -> Seq(Nat)]
  /\ hb \in [Thread -> Clock]
  /\ hbMutex \in [Mutex -> Clock]
  /\ hbWriter \in Clock /\ hbReaders \in Clock /\ hbSem \in Clock

Init ==
  /\ pc = [t \in Thread |-> IF t = Main THEN "run" ELSE "unborn"]
  /\ arg = [t \in Thread |-> NoArg]
  /\ left = MaxOps
  /\ vc = [t \in Thread |-> IF t = Main THEN Increment(Zero, t) ELSE Zero]
  /\ mutexVc = [m \in Mutex |-> Zero]
  /\ rwVc = Zero /\ rwWait = Zero /\ rwRef = 0
  /\ waitTable = [t \in Thread |-> Zero] /\ signalTable = [t \in Thread |-> Zero]
  /\ barVc = Zero /\ waiter = 0
  /\ semVc = Zero
  /\ holder = [m \in Mutex |-> NoThread]
  /\ writer = NoThread /\ readers = {}
  /\ arrived = {} /\ semValue = 0
  /\ epochs = [t \in Thread |-> << >>]
  /\ hb = [t \in Thread |-> Zero]
  /\ hbMutex = [m \in Mutex |-> Zero]
  /\ hbWriter = Zero /\ hbReaders = Zero /\ hbSem = Zero

-----------------------------------------------------------------------------
(* Helpers. *)

Goto(t, there)       == pc' = [pc EXCEPT ![t] = there]
Move(t, here, there) == pc[t] = here /\ Goto(t, there)

\* The program raises one more event, of a kind it has.
Raise(kind) == kind \in Ops /\ left > 0 /\ left' = left - 1

\* t's clock becomes c; t's clock becomes c and t enters a new epoch.
SetVc(t, c)    == vc' = [vc EXCEPT ![t] = c]
SetVcInc(t, c) == SetVc(t, Increment(c, t))

\* What h says happens before, now happens before t.
Learn(t, h) == hb' = [hb EXCEPT ![t] = Join(@, h)]

-----------------------------------------------------------------------------
(* Threads.  pthread_create returns once Pin has announced the child; the    *)
(* child's ThreadStart callback may come much later.                        *)

RealCreate(t, c) ==
  /\ pc[t] = "run"
  /\ Move(c, "unborn", "starting")
  /\ arg' = [arg EXCEPT ![c] = t]
  /\ Learn(c, hb[t])
  /\ UNCHANGED <<left, vc, lockVars, rwVars, condVars, barVars, semVars, epochs>>

\* The child starts from the clock its parent has by now.  GetParent looks the
\* parent up before the detector's handler runs: a parent that exits in between
\* still has a clock until it is joined.  One that was gone at the lookup, or is
\* joined by now, has none: the tool dereferences null, and there is no step.
ThreadStart(c) ==
  LET parent == arg[c] IN
  /\ Move(c, "starting", "run")
  /\ vc[parent] # Zero
  /\ vc' = [vc EXCEPT ![c] = Join(Increment(Zero, c), vc[parent]),
                      ![parent] = Increment(@, parent)]
  /\ arg' = [arg EXCEPT ![c] = NoArg]
  /\ UNCHANGED <<left, lockVars, rwVars, condVars, barVars, semVars, epochs, hb>>

ThreadExit(t) ==
  /\ Move(t, "run", "exited")
  /\ Raise("join")
  /\ \A m \in Mutex : holder[m] # t
  /\ writer # t /\ t \notin readers
  /\ UNCHANGED <<arg, vc, lockVars, rwVars, condVars, barVars, semVars, epochs, hb>>

RealJoin(t, c) ==
  /\ pc[t] = "run" /\ pc[c] = "exited"
  /\ Raise("join")
  /\ pc' = [pc EXCEPT ![t] = "joined", ![c] = "reaped"]
  /\ arg' = [arg EXCEPT ![t] = c]
  /\ Learn(t, hb[c])
  /\ UNCHANGED <<vc, lockVars, rwVars, condVars, barVars, semVars, epochs>>

\* The child's clock is deleted.
AfterPthreadJoin(t, there) ==
  /\ Move(t, "joined", there)
  /\ vc' = [vc EXCEPT ![t] = Increment(Join(@, vc[arg[t]]), t), ![arg[t]] = Zero]
  /\ arg' = IF there = "run" THEN [arg EXCEPT ![t] = NoArg] ELSE arg
  /\ UNCHANGED <<left, lockVars, rwVars, condVars, barVars, semVars, epochs, hb>>

\* A memory access, as far as the order of events is concerned.
Touch(t) ==
  /\ pc[t] = "run"
  /\ Raise("access")
  /\ epochs' = [epochs EXCEPT ![t] = Append(@, vc[t][t])]
  /\ hb' = [hb EXCEPT ![t][t] = @ + 1]
  /\ UNCHANGED <<pc, arg, vc, lockVars, rwVars, condVars, barVars, semVars>>

-----------------------------------------------------------------------------
(* Mutexes. *)

RealMutexLock(t, m) ==
  /\ Move(t, "run", "locked")
  /\ Raise("mutex")
  /\ holder[m] = NoThread
  /\ holder' = [holder EXCEPT ![m] = t]
  /\ arg' = [arg EXCEPT ![t] = m]
  /\ Learn(t, hbMutex[m])
  /\ UNCHANGED <<vc, mutexVc, hbMutex, rwVars, condVars, barVars, semVars, epochs>>

AfterPthreadMutexLock(t) ==
  /\ Move(t, "locked", "run")
  /\ SetVc(t, Join(vc[t], mutexVc[arg[t]]))
  /\ arg' = [arg EXCEPT ![t] = NoArg]
  /\ UNCHANGED <<left, lockVars, rwVars, condVars, barVars, semVars, epochs, hb>>

\* Mutant: the thread stays in the epoch it has just published.
UnlockSameEpoch(t, m) ==
  /\ Move(t, "run", "unlocking")
  /\ holder[m] = t
  /\ mutexVc' = [mutexVc EXCEPT ![m] = vc[t]]
  /\ arg' = [arg EXCEPT ![t] = m]
  /\ UNCHANGED <<left, vc, holder, hbMutex, rwVars, condVars, barVars, semVars, epochs, hb>>

\* ProcessUnlock: the mutex's clock is overwritten, not joined.
BeforePthreadMutexUnlock(t, m) ==
  /\ Move(t, "run", "unlocking")
  /\ holder[m] = t
  /\ mutexVc' = [mutexVc EXCEPT ![m] = vc[t]]
  /\ SetVcInc(t, vc[t])
  /\ arg' = [arg EXCEPT ![t] = m]
  /\ UNCHANGED <<left, holder, hbMutex, rwVars, condVars, barVars, semVars, epochs, hb>>

RealMutexUnlock(t) ==
  /\ Move(t, "unlocking", "run")
  /\ holder' = [holder EXCEPT ![arg[t]] = NoThread]
  /\ hbMutex' = [hbMutex EXCEPT ![arg[t]] = hb[t]]
  /\ arg' = [arg EXCEPT ![t] = NoArg]
  /\ UNCHANGED <<left, vc, mutexVc, rwVars, condVars, barVars, semVars, epochs, hb>>

-----------------------------------------------------------------------------
(* The rwlock.  A reader's release is ordered before a later writer, never  *)
(* before another reader.                                                   *)

RealRwlockRdlock(t) ==
  /\ Move(t, "run", "rdLocked")
  /\ Raise("rwlock")
  /\ writer = NoThread /\ t \notin readers
  /\ readers' = readers \cup {t}
  /\ Learn(t, hbWriter)
  /\ UNCHANGED <<arg, vc, rwVc, rwWait, rwRef, writer, hbWriter, hbReaders, lockVars,
                 condVars, barVars, semVars, epochs>>

RealRwlockWrlock(t) ==
  /\ Move(t, "run", "wrLocked")
  /\ Raise("rwlock")
  /\ writer = NoThread /\ readers = {}
  /\ writer' = t
  /\ Learn(t, Join(hbWriter, hbReaders))
  /\ UNCHANGED <<arg, vc, rwVc, rwWait, rwRef, readers, hbWriter, hbReaders, lockVars,
                 condVars, barVars, semVars, epochs>>

\* Mutant: a holder is not counted.
AfterRwlockUncounted(t) ==
  /\ Move(t, "rdLocked", "run") \/ Move(t, "wrLocked", "run")
  /\ SetVc(t, Join(vc[t], rwVc))
  /\ UNCHANGED <<arg, left, rwVc, rwWait, rwRef, writer, readers, hbWriter, hbReaders,
                 lockVars, condVars, barVars, semVars, epochs, hb>>

\* AfterPthreadRwlockRdlock and AfterPthreadRwlockWrlock.
AfterPthreadRwlock(t) ==
  /\ Move(t, "rdLocked", "run") \/ Move(t, "wrLocked", "run")
  /\ SetVc(t, Join(vc[t], rwVc))
  /\ rwRef' = IF RwlockCounts THEN rwRef + 1 ELSE rwRef
  /\ UNCHANGED <<arg, left, rwVc, rwWait, writer, readers, hbWriter, hbReaders, lockVars,
                 condVars, barVars, semVars, epochs, hb>>

\* Mutant: the clock of the last holder alone is published.
ReleaseLastHolder(t) ==
  /\ rwRef' = rwRef - 1
  /\ rwVc' = IF rwRef' = 0 THEN vc[t] ELSE rwVc
  /\ UNCHANGED rwWait

\* FastTrack collects the clocks of overlapping holders and publishes them
\* when the last one leaves.
ReleaseCounted(t) ==
  LET wait == Join(rwWait, vc[t]) IN
  /\ rwRef' = rwRef - 1
  /\ rwVc' = IF rwRef' = 0 THEN wait ELSE rwVc
  /\ rwWait' = IF rwRef' = 0 THEN Zero ELSE wait

\* Detector publishes the clock of the releasing thread alone.
ReleaseOverwritten(t) == rwVc' = vc[t] /\ UNCHANGED <<rwWait, rwRef>>

BeforePthreadRwlockUnlock(t) ==
  /\ Move(t, "run", "rwUnlocking")
  /\ writer = t \/ t \in readers
  /\ IF RwlockCounts THEN ReleaseCounted(t) ELSE ReleaseOverwritten(t)
  /\ SetVcInc(t, vc[t])
  /\ UNCHANGED <<arg, left, writer, readers, hbWriter, hbReaders, lockVars, condVars,
                 barVars, semVars, epochs, hb>>

RealRwlockUnlock(t) ==
  /\ Move(t, "rwUnlocking", "run")
  /\ IF writer = t
     THEN writer' = NoThread /\ hbWriter' = hb[t] /\ UNCHANGED <<readers, hbReaders>>
     ELSE /\ readers' = readers \ {t}
          /\ hbReaders' = Join(hbReaders, hb[t])
          /\ UNCHANGED <<writer, hbWriter>>
  /\ UNCHANGED <<arg, left, vc, rwVc, rwWait, rwRef, lockVars, condVars, barVars, semVars,
                 epochs, hb>>

-----------------------------------------------------------------------------
(* The condition variable.  A signal that finds no waiter is lost; a wait   *)
(* may also end by itself.                                                  *)

BeforePthreadCondWait(t) ==
  /\ Move(t, "run", "condEnter")
  /\ Raise("cond")
  /\ holder[CondMutex] = t
  /\ mutexVc' = [mutexVc EXCEPT ![CondMutex] = vc[t]]
  /\ waitTable' = [waitTable EXCEPT ![t] = Increment(vc[t], t)]
  /\ SetVcInc(t, Increment(vc[t], t))
  /\ arg' = [arg EXCEPT ![t] = CondMutex]
  /\ UNCHANGED <<holder, hbMutex, signalTable, rwVars, barVars, semVars, epochs, hb>>

RealCondWait(t) ==
  /\ Move(t, "condEnter", "condWait")
  /\ holder' = [holder EXCEPT ![arg[t]] = NoThread]
  /\ hbMutex' = [hbMutex EXCEPT ![arg[t]] = hb[t]]
  /\ UNCHANGED <<arg, left, vc, mutexVc, rwVars, condVars, barVars, semVars,
                 epochs, hb>>

Waiting == {u \in Thread : waitTable[u] # Zero}

MaySignal(t) == SignalHolding => holder[CondMutex] = t

\* BeforePthreadCondSignal and Broadcast: the signaller learns of every waiter
\* and leaves its clock for each of them.
ProcessNotify(t) ==
  LET c == JoinAll(vc[t], waitTable, Waiting) IN
  /\ Move(t, "run", "signalling")
  /\ Raise("cond")
  /\ MaySignal(t)
  /\ signalTable' = [u \in Thread |-> IF u \in Waiting THEN c ELSE signalTable[u]]
  /\ SetVcInc(t, c)
  /\ UNCHANGED <<arg, waitTable, lockVars, rwVars, barVars, semVars, epochs, hb>>

RealCondSignal(t) ==
  LET waiters == {u \in Thread : pc[u] = "condWait"} IN
  /\ pc[t] = "signalling"
  /\ \E woken \in SUBSET waiters :
       /\ waiters # {} => woken = waiters \/ Cardinality(woken) = 1
       /\ pc' = [u \in Thread |-> IF u = t THEN "run"
                                  ELSE IF u \in woken THEN "condWoken" ELSE pc[u]]
       /\ hb' = [u \in Thread |-> IF u \in woken THEN Join(hb[u], hb[t]) ELSE hb[u]]
  /\ UNCHANGED <<arg, left, vc, lockVars, rwVars, condVars, barVars, semVars, epochs>>

RealCondTimeout(t) ==
  /\ Move(t, "condWait", "condWoken")
  /\ UNCHANGED <<arg, left, vc, lockVars, rwVars, condVars, barVars, semVars, epochs, hb>>

RealCondReturn(t) ==
  /\ Move(t, "condWoken", "condLocked")
  /\ holder[arg[t]] = NoThread
  /\ holder' = [holder EXCEPT ![arg[t]] = t]
  /\ Learn(t, hbMutex[arg[t]])
  /\ UNCHANGED <<arg, left, vc, mutexVc, hbMutex, rwVars, condVars, barVars,
                 semVars, epochs>>

AfterPthreadCondWait(t) ==
  /\ Move(t, "condLocked", "run")
  /\ SetVc(t, Join(Join(vc[t], signalTable[t]), mutexVc[arg[t]]))
  /\ waitTable' = [waitTable EXCEPT ![t] = Zero]
  /\ signalTable' = [signalTable EXCEPT ![t] = Zero]
  /\ arg' = [arg EXCEPT ![t] = NoArg]
  /\ UNCHANGED <<left, lockVars, rwVars, barVars, semVars, epochs, hb>>

-----------------------------------------------------------------------------
(* The barrier. *)

BeforePthreadBarrierWait(t) ==
  /\ Move(t, "run", "barEnter")
  /\ Raise("barrier")
  /\ barVc' = Join(barVc, vc[t])
  /\ waiter' = waiter + 1
  /\ UNCHANGED <<arg, vc, arrived, lockVars, rwVars, condVars, semVars, epochs, hb>>

\* The last of BarrierCount threads to arrive lets all of them go.
RealBarrierWait(t) ==
  LET all == arrived \cup {t} IN
  /\ pc[t] = "barEnter"
  /\ IF Cardinality(all) = BarrierCount
     THEN /\ pc' = [u \in Thread |-> IF u \in all THEN "barrierOpen" ELSE pc[u]]
          /\ hb' = [u \in Thread |-> IF u \in all THEN JoinAll(hb[u], hb, all) ELSE hb[u]]
          /\ arrived' = {}
     ELSE Goto(t, "barrier") /\ arrived' = all /\ UNCHANGED hb
  /\ UNCHANGED <<arg, left, vc, barVc, waiter, lockVars, rwVars, condVars, semVars, epochs>>

\* The last thread out clears the clock.
AfterPthreadBarrierWait(t) ==
  /\ Move(t, "barrierOpen", "run")
  /\ SetVcInc(t, Join(vc[t], barVc))
  /\ waiter' = waiter - 1
  /\ barVc' = IF waiter' = 0 THEN Zero ELSE barVc
  /\ UNCHANGED <<arg, left, arrived, lockVars, rwVars, condVars, semVars, epochs, hb>>

-----------------------------------------------------------------------------
(* The semaphore. *)

BeforeSemPost(t) ==
  /\ Move(t, "run", "semPosting")
  /\ Raise("sem")
  /\ semVc' = Join(semVc, vc[t])
  /\ SetVcInc(t, vc[t])
  /\ UNCHANGED <<arg, semValue, hbSem, lockVars, rwVars, condVars, barVars, epochs, hb>>

RealSemPost(t) ==
  /\ Move(t, "semPosting", "run")
  /\ semValue' = semValue + 1
  /\ hbSem' = Join(hbSem, hb[t])
  /\ UNCHANGED <<arg, left, vc, semVc, lockVars, rwVars, condVars, barVars, epochs, hb>>

RealSemWait(t) ==
  /\ Move(t, "run", "semTaken")
  /\ Raise("sem")
  /\ semValue > 0
  /\ semValue' = semValue - 1
  /\ Learn(t, hbSem)
  /\ UNCHANGED <<arg, vc, semVc, hbSem, lockVars, rwVars, condVars, barVars, epochs>>

AfterSemWait(t) ==
  /\ Move(t, "semTaken", "run")
  /\ SetVcInc(t, Join(vc[t], semVc))
  /\ UNCHANGED <<arg, left, lockVars, rwVars, condVars, barVars, semVars, epochs, hb>>

-----------------------------------------------------------------------------
Threads(t) ==
  \/ \E c \in Thread : RealCreate(t, c) \/ RealJoin(t, c)
  \/ ThreadStart(t) \/ ThreadExit(t)

Mutexes(t) ==
  \/ \E m \in Mutex : RealMutexLock(t, m) \/ BeforePthreadMutexUnlock(t, m)
  \/ AfterPthreadMutexLock(t) \/ RealMutexUnlock(t)

Rwlocks(t) ==
  \/ RealRwlockRdlock(t) \/ RealRwlockWrlock(t) \/ AfterPthreadRwlock(t)
  \/ BeforePthreadRwlockUnlock(t) \/ RealRwlockUnlock(t)

Conds(t) ==
  \/ BeforePthreadCondWait(t) \/ RealCondWait(t) \/ ProcessNotify(t) \/ RealCondSignal(t) \/ RealCondTimeout(t)
  \/ RealCondReturn(t) \/ AfterPthreadCondWait(t)

Barriers(t) == BeforePthreadBarrierWait(t) \/ RealBarrierWait(t) \/ AfterPthreadBarrierWait(t)

Sems(t) == BeforeSemPost(t) \/ RealSemPost(t) \/ RealSemWait(t) \/ AfterSemWait(t)

\* Every step but the memory accesses and the end of a join, which a detector
\* extends.
Sync(t) == Threads(t) \/ Mutexes(t) \/ Rwlocks(t) \/ Conds(t) \/ Barriers(t) \/ Sems(t)

Next == \E t \in Thread : Sync(t) \/ Touch(t) \/ AfterPthreadJoin(t, "run")

Spec == Init /\ [][Next]_vars

-----------------------------------------------------------------------------
(* Properties. *)

\* The clock c contains the accesses that h says have happened.
Covers(c, h) == \A u \in Thread : \A n \in 1..h[u] : epochs[u][n] <= c[u]

\* No edge is lost: of a thread that is between two calls, every access that
\* happens before it, through any chain of releases and acquires, is in its
\* clock.  A detector that reports u's access as concurrent is then right.
NoEdgeLost ==
  \A t \in Thread : pc[t] \in {"run", "exited"} => Covers(vc[t], hb[t])

\* The epoch a thread is in is its own: no clock anywhere holds it, so that an
\* access made in it can be told from those already handed on.  (In a barrier
\* the epoch is handed on before it ends, but no access is made there.)
EpochUnpublished ==
  \A t \in Thread : pc[t] = "run" =>
    /\ \A u \in Thread \ {t} : vc[u][t] < vc[t][t] /\ signalTable[u][t] < vc[t][t]
    /\ \A m \in Mutex : mutexVc[m][t] < vc[t][t]
    /\ rwVc[t] < vc[t][t] /\ rwWait[t] < vc[t][t] /\ semVc[t] < vc[t][t]
    /\ barVc[t] < vc[t][t]

\* FastTrack's ref_count counts the holders between their two callbacks, and
\* the assertion of the writer's callback holds: a writer that gets in sees no
\* holder.
RwlockRefInv ==
  RwlockCounts =>
    /\ rwRef = Cardinality({t \in Thread : /\ t \in readers \/ writer = t
                                           /\ pc[t] \notin {"rdLocked", "wrLocked",
                                                            "rwUnlocking"}})
    /\ \A t \in Thread : pc[t] = "wrLocked" => rwRef = 0 /\ rwWait = Zero
=============================================================================
