---------------------------- MODULE VerifierSched ----------------------------
(***************************************************************************)
(* The scheduler of the race verifier (src/src/race/verifier.cpp).          *)
(*                                                                         *)
(* The verifier runs inside the application's own threads: every callback  *)
(* below is executed by the thread that raised the event.  On a potential  *)
(* racy access it postpones the thread on a private semaphore, so that a   *)
(* second thread has the time to run into the other half of the pair.      *)
(* The state is the three thread sets (available, postponed, blocked), the *)
(* semaphores, the verify lock, and what the verifier believes of the      *)
(* application's mutexes, rwlocks, barriers and semaphores; beside it, in  *)
(* the variables whose name starts with "real", what pthread itself knows. *)
(*                                                                         *)
(* Every callback but the ones of a memory access runs under               *)
(* internal_lock_ from its first to its last line and never blocks inside  *)
(* it: it is one action.  A memory access holds verify_lock_ and takes     *)
(* internal_lock_ only inside PostponeThread, so it is split at every      *)
(* point where another thread can interfere.  What a verification finds    *)
(* (which postponed threads race, which statements are done) is a free     *)
(* choice here; vector clocks and locksets are not part of this module.    *)
(***************************************************************************)
EXTENDS Integers, FiniteSets

CONSTANTS
  Thread,        \* application threads
  Main,          \* the thread that exists at the start
  Mutex,         \* pthread mutexes
  NoThread,      \* thread id 0: nobody owns the lock, nobody holds it
  NoArg,         \* the argument of a thread that is in no call
  Ops,           \* the kinds of event this program raises
  MaxOps,        \* bound: events the program raises in all
  BarrierCount   \* the count the program's barrier was initialised with

Kinds == {"access", "mutex", "trylock", "rwlock", "join", "barrier", "cond", "sem"}

ASSUME MainAssumption    == Main \in Thread
ASSUME FiniteAssumption  == IsFiniteSet(Thread)
ASSUME NullAssumption    == NoThread \notin Thread
ASSUME ArgAssumption     == NoArg \notin Mutex \cup Thread
ASSUME OpsAssumption     == Ops \subseteq Kinds
ASSUME BoundAssumption   == MaxOps \in Nat
ASSUME BarrierAssumption == BarrierCount \in Nat \ {0}

VARIABLES
  pc,            \* where each thread is, relative to the callbacks
  arg,           \* the mutex or the child of the call a thread is in
  left,          \* events the program may still raise (bounded by MaxOps)
  wake,          \* HandleRace: threads whose semaphore is still to be posted
  next,          \* HandleRace: what the thread does after the posts
  verify_lock_,  \* holder of verify_lock_
  avail, pp, blk,\* avail_thd_set_, pp_thd_set_, blk_thd_set_
  smp,           \* the keys of thd_smp_map_
  permits,       \* the value of each thread's semaphore
  ppmetas,       \* threads with an entry in thd_ppmetas_map_
  owner,         \* MutexMeta::thd_id
  wrOwner, rdOwners,         \* RwlockMeta::wrlock_thd_id, rdlock_thd_set
  barrierRef,                \* BarrierMeta::ref
  semCount,                  \* SemMeta::count
  realHolder,                \* pthread: who holds each mutex
  realWriter, realReaders,   \* pthread: who holds the rwlock
  realArrived,               \* pthread: threads waiting in the barrier
  realSem,                   \* sem_t: the value of the program's semaphore
  crashed        \* a null semaphore was dereferenced

(* What each group of variables is for; an action names the groups it       *)
(* leaves alone.                                                            *)
setVars   == <<avail, pp, blk>>
smpVars   == <<smp, permits>>
raceVars  == <<wake, next, verify_lock_>>
lockVars  == <<owner, realHolder>>
rwVars    == <<wrOwner, rdOwners, realWriter, realReaders>>
barVars   == <<barrierRef, realArrived>>
semVars   == <<semCount, realSem>>
syncVars  == <<lockVars, rwVars, barVars, semVars>>
vars      == <<pc, arg, left, raceVars, setVars, smpVars, ppmetas, syncVars, crashed>>

-----------------------------------------------------------------------------
(* Where a thread can be.  The names in AvailPC are those at which the      *)
(* thread counts as available to the verifier, in BlkPC as blocked in a     *)
(* pthread call, in PpPC as postponed; nobody can see a thread "stopping"   *)
(* but in ParallelVerifier.                                                 *)
RegionPC == {"region", "wakeall", "keepup", "postpone"}
AvailPC  == {"run", "choose", "unlocking", "rwUnlocking", "semPosting"} \cup RegionPC
PpPC     == {"stopping", "wait", "woken"}
BlkPC    == {"locking", "locked", "tryFailed", "rdLocking", "rdLocked", "wrLocking",
             "wrLocked", "trying", "rdTrying", "wrTrying", "joining", "joined",
             "barEnter", "barrier", "barrierOpen", "condEnter", "condWait",
             "condWoken", "condLocked", "semWaiting", "semTaken"}
GonePC   == {"unborn", "starting", "exited", "reaped"}
PC       == AvailPC \cup PpPC \cup BlkPC \cup GonePC

TypeOK ==
  /\ pc \in [Thread -> PC]
  /\ arg \in [Thread -> Mutex \cup Thread \cup {NoArg}]
  /\ left \in 0..MaxOps
  /\ wake \in [Thread -> SUBSET Thread]
  /\ next \in [Thread -> {"keepup", "postpone"}]
  /\ verify_lock_ \in Thread \cup {NoThread}
  /\ avail \subseteq Thread /\ pp \subseteq Thread /\ blk \subseteq Thread
  /\ smp \subseteq Thread
  /\ permits \in [Thread -> Nat]
  /\ ppmetas \subseteq Thread
  /\ owner \in [Mutex -> Thread \cup {NoThread}]
  /\ wrOwner \in Thread \cup {NoThread} /\ rdOwners \subseteq Thread
  /\ barrierRef \in Nat /\ semCount \in Int
  /\ realHolder \in [Mutex -> Thread \cup {NoThread}]
  /\ realWriter \in Thread \cup {NoThread} /\ realReaders \subseteq Thread
  /\ realArrived \subseteq Thread /\ realSem \in Nat
  /\ crashed \in BOOLEAN

Init ==
  /\ pc = [t \in Thread |-> IF t = Main THEN "starting" ELSE "unborn"]
  /\ arg = [t \in Thread |-> NoArg]
  /\ left = MaxOps
  /\ wake = [t \in Thread |-> {}]
  /\ next = [t \in Thread |-> "keepup"]
  /\ verify_lock_ = NoThread
  /\ avail = {} /\ pp = {} /\ blk = {}
  /\ smp = {}
  /\ permits = [t \in Thread |-> 0]
  /\ ppmetas = {}
  /\ owner = [m \in Mutex |-> NoThread]
  /\ wrOwner = NoThread /\ rdOwners = {}
  /\ barrierRef = 0 /\ semCount = 0
  /\ realHolder = [m \in Mutex |-> NoThread]
  /\ realWriter = NoThread /\ realReaders = {}
  /\ realArrived = {} /\ realSem = 0
  /\ crashed = FALSE

-----------------------------------------------------------------------------
(* Helpers. *)

Goto(t, there) == pc' = [pc EXCEPT ![t] = there]

Move(t, here, there) == pc[t] = here /\ Goto(t, there)

\* The program raises one more event, of a kind it has.
Raise(kind) ==
  /\ kind \in Ops
  /\ left > 0
  /\ left' = left - 1

WakeUpPostponeThread(u) == permits' = [permits EXCEPT ![u] = @ + 1]

\* Mutant: nobody is woken.
ChooseNobody(postponed) == UNCHANGED permits

ChooseRandomThreadAfterAllUnavailable(postponed) ==
  IF postponed = {} THEN UNCHANGED permits
                    ELSE \E u \in postponed : WakeUpPostponeThread(u)

BlockThread(t)   == blk' = blk \cup {t} /\ avail' = avail \ {t}
UnblockThread(t) == blk' = blk \ {t} /\ avail' = avail \cup {t}

\* Before a call that may block: wake a postponed thread if that leaves nobody
\* available and the call is one that will not return by itself.
BlockAndChoose(t, mayBlock) ==
  /\ BlockThread(t)
  /\ UNCHANGED <<pp, smp>>
  /\ IF mayBlock /\ avail \ {t} = {} THEN ChooseRandomThreadAfterAllUnavailable(pp)
                                     ELSE UNCHANGED permits

\* Before taking a lock that u owns: only u can be worth waking, and only if
\* u is postponed and nobody else is available.
BlockAndWakeOwner(t, u) ==
  /\ BlockThread(t)
  /\ UNCHANGED <<pp, smp>>
  /\ IF u # NoThread /\ avail \ {t} = {} /\ u \in pp THEN WakeUpPostponeThread(u)
                                                     ELSE UNCHANGED permits

\* Mutant: the metas stay.
KeepPostponedThreadMetas(t) == UNCHANGED ppmetas

\* The postponed accesses of t become history (which this module leaves out).
ClearPostponedThreadMetas(t) == ppmetas' = ppmetas \ {t}

-----------------------------------------------------------------------------
(* Thread creation, start, exit and join. *)

\* pthread_create: Pin announces the child before the verifier's ThreadStart.
Create(t, c) ==
  /\ pc[t] = "run" /\ pc[c] = "unborn"
  /\ Goto(c, "starting")
  /\ UNCHANGED <<arg, left, raceVars, setVars, smpVars, ppmetas, syncVars, crashed>>

ThreadStart(t) ==
  /\ Move(t, "starting", "run")
  /\ smp' = smp \cup {t}
  /\ permits' = [permits EXCEPT ![t] = 0]
  /\ avail' = avail \cup {t}
  /\ UNCHANGED <<arg, left, pp, blk, raceVars, ppmetas, syncVars, crashed>>

\* A thread exits only when it holds no lock and is in no call.
ThreadExit(t) ==
  /\ Move(t, "run", "exited")
  /\ \A m \in Mutex : realHolder[m] # t
  /\ realWriter # t /\ t \notin realReaders
  /\ smp' = smp \ {t}
  /\ avail' = avail \ {t}
  /\ pp' = pp \ {t}
  /\ IF avail \ {t} = {} THEN ChooseRandomThreadAfterAllUnavailable(pp \ {t})
                         ELSE UNCHANGED permits
  /\ UNCHANGED <<arg, left, blk, raceVars, ppmetas, syncVars, crashed>>

BeforePthreadJoin(t, c) ==
  /\ Move(t, "run", "joining")
  /\ Raise("join")
  /\ c # t /\ pc[c] \notin {"unborn", "reaped"}
  /\ \A u \in Thread : arg[u] # c          \* a thread is joined once at a time
  /\ arg' = [arg EXCEPT ![t] = c]
  /\ BlockAndChoose(t, TRUE)
  /\ UNCHANGED <<raceVars, ppmetas, syncVars, crashed>>

RealJoin(t) ==
  /\ pc[t] = "joining" /\ pc[arg[t]] = "exited"
  /\ pc' = [pc EXCEPT ![t] = "joined", ![arg[t]] = "reaped"]
  /\ UNCHANGED <<arg, left, raceVars, setVars, smpVars, ppmetas, syncVars, crashed>>

AfterPthreadJoin(t) ==
  /\ Move(t, "joined", "run")
  /\ arg' = [arg EXCEPT ![t] = NoArg]
  /\ UnblockThread(t)
  /\ UNCHANGED <<left, pp, smpVars, raceVars, ppmetas, syncVars, crashed>>

-----------------------------------------------------------------------------
(* A memory access. *)

\* BeforeMemRead, BeforeMemWrite: the access is not filtered out.
BeforeMem(t) ==
  /\ Move(t, "run", "choose")
  /\ Raise("access")
  /\ UNCHANGED <<arg, raceVars, setVars, smpVars, ppmetas, syncVars, crashed>>

\* One successful turn of the loop: verify_lock_ is free and the random member
\* of avail_thd_set_ is the caller.  A turn that picks another thread changes
\* nothing.
ChooseRandomThreadBeforeProcess(t) ==
  /\ Move(t, "choose", "region")
  /\ verify_lock_ = NoThread
  /\ t \in avail
  /\ verify_lock_' = t
  /\ UNCHANGED <<arg, left, wake, next, setVars, smpVars, ppmetas, syncVars, crashed>>

\* The statement is in no potential race, or the access is redundant: a
\* thd_ppmetas_map_ entry made on the way is deleted again.
LeaveRegion(t) ==
  /\ Move(t, "region", "run")
  /\ verify_lock_' = NoThread
  /\ ppmetas' = ppmetas \ {t}
  /\ UNCHANGED <<arg, left, wake, next, setVars, smpVars, syncVars, crashed>>

\* The first statement of a pair, or the second one with nothing to show for
\* it (HandleNoRace): its metas are recorded and the thread is postponed.
RecordAndPostpone(t) ==
  /\ Move(t, "region", "postpone")
  /\ ppmetas' = ppmetas \cup {t}
  /\ UNCHANGED <<arg, left, raceVars, setVars, smpVars, syncVars, crashed>>

\* The second statement shares no meta with the first (KeepupThread).
RecordAndKeepup(t) ==
  /\ Move(t, "region", "keepup")
  /\ ppmetas' = ppmetas \cup {t}
  /\ UNCHANGED <<arg, left, raceVars, setVars, smpVars, syncVars, crashed>>

\* WaitVerificationAndHistoryDetection leaves a nonempty pp_thd_map and
\* HandleRace decides.  done are the raced postponed threads whose statement
\* is fully verified, harmful the threads of a harmful race, selfDone tells
\* whether the caller's own statement is fully verified; coin is RandomBool.
HandleRace(t) ==
  /\ pc[t] = "region"
  /\ ppmetas' = ppmetas \cup {t}
  /\ \E raced \in (SUBSET {u \in pp : u \in ppmetas}) \ {{}},
        selfDone, coin \in BOOLEAN :
       \E done \in SUBSET raced, harmful \in SUBSET (raced \cup {t}) :
         /\ done # {} \/ harmful # {} \/ selfDone
         /\ wake' = [wake EXCEPT ![t] = done \ harmful]
         /\ next' = [next EXCEPT ![t] =
              IF t \in harmful THEN "postpone"
              ELSE IF coin \/ selfDone THEN "keepup"
              ELSE "postpone"]
  /\ Goto(t, "wakeall")
  /\ UNCHANGED <<arg, left, verify_lock_, setVars, smpVars, syncVars, crashed>>

\* WakeUpPostponeThreadSet, one post at a time and without internal_lock_: the
\* thread may have timed out, and even exited, since it was seen postponed.
\* thd_smp_map_[u] of an exited thread is a null pointer.
WakeUpOne(t) ==
  /\ pc[t] = "wakeall"
  /\ \E u \in wake[t] :
       /\ wake' = [wake EXCEPT ![t] = @ \ {u}]
       /\ IF u \in smp THEN WakeUpPostponeThread(u) /\ UNCHANGED crashed
                       ELSE crashed' = TRUE /\ UNCHANGED permits
  /\ UNCHANGED <<pc, arg, left, next, verify_lock_, setVars, smp, ppmetas, syncVars>>

WakeUpDone(t) ==
  /\ pc[t] = "wakeall" /\ wake[t] = {}
  /\ Goto(t, next[t])
  /\ UNCHANGED <<arg, left, raceVars, setVars, smpVars, ppmetas, syncVars, crashed>>

\* Mutant: a branch that does not free verify_lock_.
KeepupThreadLocked(t) ==
  /\ Move(t, "keepup", "run")
  /\ ClearPostponedThreadMetas(t)
  /\ UNCHANGED <<arg, left, raceVars, setVars, smpVars, syncVars, crashed>>

KeepupThread(t) ==
  /\ Move(t, "keepup", "run")
  /\ ClearPostponedThreadMetas(t)
  /\ verify_lock_' = NoThread
  /\ UNCHANGED <<arg, left, wake, next, setVars, smpVars, syncVars, crashed>>

\* The part of PostponeThread under internal_lock_.
PostponeThread(t) ==
  /\ pc[t] = "postpone"
  /\ verify_lock_' = NoThread
  /\ IF Cardinality(avail) = 1 /\ pp = {}
     THEN /\ Goto(t, "run")
          /\ ClearPostponedThreadMetas(t)
          /\ UNCHANGED <<setVars, smpVars>>
     ELSE /\ Goto(t, "wait")
          /\ pp' = pp \cup {t}
          /\ avail' = avail \ {t}
          /\ IF avail \ {t} = {} THEN ChooseRandomThreadAfterAllUnavailable(pp \cup {t})
                                 ELSE UNCHANGED permits
          /\ UNCHANGED <<blk, smp, ppmetas>>
  /\ UNCHANGED <<arg, left, wake, next, syncVars, crashed>>

\* Mutant: a permit is consumed that was never posted.
TakePermitUnposted(t) ==
  /\ Move(t, "wait", "woken")
  /\ permits' = [permits EXCEPT ![t] = @ - 1]
  /\ UNCHANGED <<arg, left, smp, raceVars, setVars, ppmetas, syncVars, crashed>>

\* TimedWait returns because the semaphore was posted ...
TakePermit(t) ==
  /\ Move(t, "wait", "woken")
  /\ permits[t] > 0
  /\ permits' = [permits EXCEPT ![t] = @ - 1]
  /\ UNCHANGED <<arg, left, smp, raceVars, setVars, ppmetas, syncVars, crashed>>

\* ... or because two seconds have passed; the post may still come.
TimeOut(t) ==
  /\ Move(t, "wait", "woken")
  /\ permits[t] = 0
  /\ UNCHANGED <<arg, left, raceVars, setVars, smpVars, ppmetas, syncVars, crashed>>

\* Mutant: the thread leaves pp_thd_set_ and is not made available again.
AfterWaitUnavailable(t) ==
  /\ Move(t, "woken", "run")
  /\ pp' = pp \ {t}
  /\ ClearPostponedThreadMetas(t)
  /\ UNCHANGED <<arg, left, avail, blk, smpVars, raceVars, syncVars, crashed>>

\* The rest of PostponeThread, again under internal_lock_ but without
\* verify_lock_.
AfterWait(t) ==
  /\ Move(t, "woken", "run")
  /\ pp' = pp \ {t}
  /\ avail' = avail \cup {t}
  /\ ClearPostponedThreadMetas(t)
  /\ UNCHANGED <<arg, left, blk, smpVars, raceVars, syncVars, crashed>>

-----------------------------------------------------------------------------
(* Mutexes.  ProcessPreMutexUnlock touches clocks and locksets only, so the *)
(* unlock starts with pthread's own release.                                *)

BeforePthreadMutexLock(t, m) ==
  /\ Move(t, "run", "locking")
  /\ Raise("mutex")
  /\ realHolder[m] # t
  /\ arg' = [arg EXCEPT ![t] = m]
  /\ BlockAndWakeOwner(t, owner[m])
  /\ UNCHANGED <<raceVars, ppmetas, syncVars, crashed>>

RealMutexLock(t) ==
  /\ Move(t, "locking", "locked")
  /\ realHolder[arg[t]] = NoThread
  /\ realHolder' = [realHolder EXCEPT ![arg[t]] = t]
  /\ UNCHANGED <<arg, left, owner, raceVars, setVars, smpVars, ppmetas, rwVars,
                 barVars, semVars, crashed>>

AfterPthreadMutexLock(t) ==
  /\ Move(t, "locked", "run")
  /\ owner' = [owner EXCEPT ![arg[t]] = t]
  /\ UnblockThread(t)
  /\ arg' = [arg EXCEPT ![t] = NoArg]
  /\ UNCHANGED <<left, pp, realHolder, raceVars, smpVars, ppmetas, rwVars, barVars,
                 semVars, crashed>>

RealMutexUnlock(t, m) ==
  /\ Move(t, "run", "unlocking")
  /\ realHolder[m] = t
  /\ realHolder' = [realHolder EXCEPT ![m] = NoThread]
  /\ arg' = [arg EXCEPT ![t] = m]
  /\ UNCHANGED <<left, owner, raceVars, setVars, smpVars, ppmetas, rwVars, barVars,
                 semVars, crashed>>

\* The owner is cleared after the release: another thread may be the owner by
\* now.
AfterPthreadMutexUnlock(t) ==
  /\ Move(t, "unlocking", "run")
  /\ owner' = [owner EXCEPT ![arg[t]] = NoThread]
  /\ arg' = [arg EXCEPT ![t] = NoArg]
  /\ UNCHANGED <<left, realHolder, raceVars, setVars, smpVars, ppmetas, rwVars,
                 barVars, semVars, crashed>>

BeforePthreadMutexTryLock(t, m) ==
  /\ Move(t, "run", "trying")
  /\ Raise("trylock")
  /\ realHolder[m] # t
  /\ arg' = [arg EXCEPT ![t] = m]
  /\ BlockAndWakeOwner(t, owner[m])
  /\ UNCHANGED <<raceVars, ppmetas, syncVars, crashed>>

RealMutexTryLock(t) ==
  /\ pc[t] = "trying"
  /\ IF realHolder[arg[t]] = NoThread
     THEN Goto(t, "locked") /\ realHolder' = [realHolder EXCEPT ![arg[t]] = t]
     ELSE Goto(t, "tryFailed") /\ UNCHANGED realHolder
  /\ UNCHANGED <<arg, left, owner, raceVars, setVars, smpVars, ppmetas, rwVars,
                 barVars, semVars, crashed>>

\* AfterPthreadMutexTryLock and the two rwlock variants with a nonzero result.
AfterTryFailed(t) ==
  /\ Move(t, "tryFailed", "run")
  /\ UnblockThread(t)
  /\ arg' = [arg EXCEPT ![t] = NoArg]
  /\ UNCHANGED <<left, pp, raceVars, smpVars, ppmetas, syncVars, crashed>>

-----------------------------------------------------------------------------
(* The rwlock. *)

BeforePthreadRwlockRdlock(t, there) ==
  /\ Move(t, "run", there)
  /\ Raise("rwlock")
  /\ realWriter # t /\ t \notin realReaders
  /\ BlockAndWakeOwner(t, wrOwner)
  /\ UNCHANGED <<arg, raceVars, ppmetas, syncVars, crashed>>

RealRwlockRdlock(t) ==
  /\ \/ Move(t, "rdLocking", "rdLocked") \/ Move(t, "rdTrying", "rdLocked")
  /\ realWriter = NoThread
  /\ realReaders' = realReaders \cup {t}
  /\ UNCHANGED <<arg, left, wrOwner, rdOwners, realWriter, lockVars, barVars, semVars,
                 raceVars, setVars, smpVars, ppmetas, crashed>>

AfterPthreadRwlockRdlock(t) ==
  /\ Move(t, "rdLocked", "run")
  /\ UnblockThread(t)
  /\ rdOwners' = rdOwners \cup {t}
  /\ UNCHANGED <<arg, left, pp, wrOwner, realWriter, realReaders, lockVars, barVars,
                 semVars, raceVars, smpVars, ppmetas, crashed>>

\* Every reader is posted, postponed or not; a writer is not looked for.
BeforePthreadRwlockWrlock(t, there) ==
  /\ Move(t, "run", there)
  /\ Raise("rwlock")
  /\ realWriter # t /\ t \notin realReaders
  /\ BlockThread(t)
  /\ permits' = IF avail \ {t} = {}
                THEN [u \in Thread |-> permits[u] + (IF u \in rdOwners THEN 1 ELSE 0)]
                ELSE permits
  /\ UNCHANGED <<arg, pp, smp, raceVars, ppmetas, syncVars, crashed>>

RealRwlockWrlock(t) ==
  /\ \/ Move(t, "wrLocking", "wrLocked") \/ Move(t, "wrTrying", "wrLocked")
  /\ realWriter = NoThread /\ realReaders = {}
  /\ realWriter' = t
  /\ UNCHANGED <<arg, left, wrOwner, rdOwners, realReaders, lockVars, barVars, semVars,
                 raceVars, setVars, smpVars, ppmetas, crashed>>

AfterPthreadRwlockWrlock(t) ==
  /\ Move(t, "wrLocked", "run")
  /\ UnblockThread(t)
  /\ wrOwner' = t
  /\ UNCHANGED <<arg, left, pp, rdOwners, realWriter, realReaders, lockVars, barVars,
                 semVars, raceVars, smpVars, ppmetas, crashed>>

RealRwlockTryFail(t) ==
  /\ \/ Move(t, "rdTrying", "tryFailed") /\ realWriter # NoThread
     \/ /\ Move(t, "wrTrying", "tryFailed")
        /\ realWriter # NoThread \/ realReaders # {}
  /\ UNCHANGED <<arg, left, raceVars, setVars, smpVars, ppmetas, syncVars, crashed>>

RealRwlockUnlock(t) ==
  /\ Move(t, "run", "rwUnlocking")
  /\ realWriter = t \/ t \in realReaders
  /\ realWriter' = IF realWriter = t THEN NoThread ELSE realWriter
  /\ realReaders' = realReaders \ {t}
  /\ UNCHANGED <<arg, left, wrOwner, rdOwners, lockVars, barVars, semVars, raceVars,
                 setVars, smpVars, ppmetas, crashed>>

\* Mutant: the reader is not removed.
AfterRwlockUnlockKeepsReader(t) ==
  /\ Move(t, "rwUnlocking", "run")
  /\ wrOwner' = NoThread
  /\ UNCHANGED <<arg, left, rdOwners, realWriter, realReaders, lockVars, barVars, semVars,
                 raceVars, setVars, smpVars, ppmetas, crashed>>

\* The unlocker does not know which lock it held: it clears both.
AfterPthreadRwlockUnlock(t) ==
  /\ Move(t, "rwUnlocking", "run")
  /\ wrOwner' = NoThread
  /\ rdOwners' = rdOwners \ {t}
  /\ UNCHANGED <<arg, left, realWriter, realReaders, lockVars, barVars, semVars, raceVars,
                 setVars, smpVars, ppmetas, crashed>>

-----------------------------------------------------------------------------
(* The barrier; BarrierMeta::ref and count are 8 bits wide. *)

BeforePthreadBarrierWait(t) ==
  /\ Move(t, "run", "barEnter")
  /\ Raise("barrier")
  /\ barrierRef' = (barrierRef + 1) % 256
  /\ BlockAndChoose(t, barrierRef' # BarrierCount % 256)
  /\ UNCHANGED <<arg, realArrived, lockVars, rwVars, semVars, raceVars, ppmetas, crashed>>

\* The last of BarrierCount threads to arrive lets all of them go.
RealBarrierWait(t) ==
  LET arrived == realArrived \cup {t} IN
  /\ pc[t] = "barEnter"
  /\ IF Cardinality(arrived) = BarrierCount
     THEN /\ pc' = [u \in Thread |-> IF u \in arrived THEN "barrierOpen" ELSE pc[u]]
          /\ realArrived' = {}
     ELSE Goto(t, "barrier") /\ realArrived' = arrived
  /\ UNCHANGED <<arg, left, barrierRef, lockVars, rwVars, semVars, raceVars, setVars,
                 smpVars, ppmetas, crashed>>

\* Mutant: the reference is not given back.
AfterBarrierWaitKeepsRef(t) ==
  /\ Move(t, "barrierOpen", "run")
  /\ UnblockThread(t)
  /\ UNCHANGED <<arg, left, pp, barVars, lockVars, rwVars, semVars, raceVars, smpVars,
                 ppmetas, crashed>>

AfterPthreadBarrierWait(t) ==
  /\ Move(t, "barrierOpen", "run")
  /\ UnblockThread(t)
  /\ barrierRef' = (barrierRef + 255) % 256
  /\ UNCHANGED <<arg, left, pp, realArrived, lockVars, rwVars, semVars, raceVars, smpVars,
                 ppmetas, crashed>>

-----------------------------------------------------------------------------
(* The condition variable.  ProcessSignal touches clocks only.              *)

\* Mutant: the owner stays.
BeforeCondWaitKeepsOwner(t, m) ==
  /\ Move(t, "run", "condEnter")
  /\ Raise("cond")
  /\ realHolder[m] = t
  /\ arg' = [arg EXCEPT ![t] = m]
  /\ BlockAndChoose(t, TRUE)
  /\ UNCHANGED <<lockVars, rwVars, barVars, semVars, raceVars, ppmetas, crashed>>

\* The owner is cleared before pthread_cond_wait releases the mutex.
BeforePthreadCondWait(t, m) ==
  /\ Move(t, "run", "condEnter")
  /\ Raise("cond")
  /\ realHolder[m] = t
  /\ arg' = [arg EXCEPT ![t] = m]
  /\ owner' = [owner EXCEPT ![m] = NoThread]
  /\ BlockAndChoose(t, TRUE)
  /\ UNCHANGED <<realHolder, rwVars, barVars, semVars, raceVars, ppmetas, crashed>>

RealCondWait(t) ==
  /\ Move(t, "condEnter", "condWait")
  /\ realHolder' = [realHolder EXCEPT ![arg[t]] = NoThread]
  /\ UNCHANGED <<arg, left, owner, rwVars, barVars, semVars, raceVars, setVars, smpVars,
                 ppmetas, crashed>>

\* pthread_cond_signal wakes one waiter, pthread_cond_broadcast all of them.
RealCondSignal(t) ==
  /\ pc[t] = "run"
  /\ Raise("cond")
  /\ LET waiters == {u \in Thread : pc[u] = "condWait"} IN
     \E woken \in SUBSET waiters :
       /\ waiters # {} => woken = waiters \/ Cardinality(woken) = 1
       /\ pc' = [u \in Thread |-> IF u \in woken THEN "condWoken" ELSE pc[u]]
  /\ UNCHANGED <<arg, raceVars, setVars, smpVars, ppmetas, syncVars, crashed>>

\* The waiter was woken, or its timed wait has run out.
RealCondReturn(t) ==
  /\ pc[t] \in {"condWait", "condWoken"}
  /\ Goto(t, "condLocked")
  /\ realHolder[arg[t]] = NoThread
  /\ realHolder' = [realHolder EXCEPT ![arg[t]] = t]
  /\ UNCHANGED <<arg, left, owner, rwVars, barVars, semVars, raceVars, setVars, smpVars,
                 ppmetas, crashed>>

\* Unblock, then the two halves of a mutex lock.
AfterPthreadCondWait(t) ==
  LET o == owner[arg[t]] IN
  /\ Move(t, "condLocked", "run")
  /\ IF o # NoThread /\ avail \ {t} = {} /\ o \in pp THEN WakeUpPostponeThread(o)
                                                    ELSE UNCHANGED permits
  /\ owner' = [owner EXCEPT ![arg[t]] = t]
  /\ UnblockThread(t)
  /\ arg' = [arg EXCEPT ![t] = NoArg]
  /\ UNCHANGED <<left, pp, smp, realHolder, rwVars, barVars, semVars, raceVars, ppmetas,
                 crashed>>

-----------------------------------------------------------------------------
(* The counting semaphore; SemMeta::count is a signed byte.                 *)

Int8(n) == ((n + 128) % 256) - 128

\* The count goes up before sem_post.
BeforeSemPost(t) ==
  /\ Move(t, "run", "semPosting")
  /\ Raise("sem")
  /\ semCount' = Int8(semCount + 1)
  /\ UNCHANGED <<arg, realSem, lockVars, rwVars, barVars, raceVars, setVars, smpVars,
                 ppmetas, crashed>>

RealSemPost(t) ==
  /\ Move(t, "semPosting", "run")
  /\ realSem' = realSem + 1
  /\ UNCHANGED <<arg, left, semCount, lockVars, rwVars, barVars, raceVars, setVars,
                 smpVars, ppmetas, crashed>>

BeforeSemWait(t) ==
  /\ Move(t, "run", "semWaiting")
  /\ Raise("sem")
  /\ semCount' = Int8(semCount - 1)
  /\ BlockAndChoose(t, semCount' < 0)
  /\ UNCHANGED <<arg, realSem, lockVars, rwVars, barVars, raceVars, ppmetas, crashed>>

RealSemWait(t) ==
  /\ Move(t, "semWaiting", "semTaken")
  /\ realSem > 0
  /\ realSem' = realSem - 1
  /\ UNCHANGED <<arg, left, semCount, lockVars, rwVars, barVars, raceVars, setVars,
                 smpVars, ppmetas, crashed>>

AfterSemWait(t) ==
  /\ Move(t, "semTaken", "run")
  /\ UnblockThread(t)
  /\ UNCHANGED <<arg, left, pp, smpVars, raceVars, ppmetas, syncVars, crashed>>

-----------------------------------------------------------------------------
Access(t) ==
  \/ BeforeMem(t) \/ ChooseRandomThreadBeforeProcess(t) \/ LeaveRegion(t)
  \/ RecordAndPostpone(t) \/ RecordAndKeepup(t) \/ HandleRace(t)
  \/ WakeUpOne(t) \/ WakeUpDone(t) \/ KeepupThread(t) \/ PostponeThread(t)
  \/ TakePermit(t) \/ TimeOut(t) \/ AfterWait(t)

Threads(t) ==
  \/ \E c \in Thread : Create(t, c) \/ BeforePthreadJoin(t, c)
  \/ ThreadStart(t) \/ ThreadExit(t) \/ RealJoin(t) \/ AfterPthreadJoin(t)

Mutexes(t) ==
  \/ \E m \in Mutex : \/ BeforePthreadMutexLock(t, m) \/ RealMutexUnlock(t, m)
                     \/ BeforePthreadMutexTryLock(t, m)
  \/ RealMutexLock(t) \/ AfterPthreadMutexLock(t) \/ AfterPthreadMutexUnlock(t)
  \/ RealMutexTryLock(t) \/ AfterTryFailed(t)

Rwlocks(t) ==
  \/ \E there \in {"rdLocking", "rdTrying"} : BeforePthreadRwlockRdlock(t, there)
  \/ \E there \in {"wrLocking", "wrTrying"} : BeforePthreadRwlockWrlock(t, there)
  \/ RealRwlockRdlock(t) \/ AfterPthreadRwlockRdlock(t)
  \/ RealRwlockWrlock(t) \/ AfterPthreadRwlockWrlock(t)
  \/ RealRwlockTryFail(t) \/ RealRwlockUnlock(t) \/ AfterPthreadRwlockUnlock(t)

Barriers(t) == BeforePthreadBarrierWait(t) \/ RealBarrierWait(t) \/ AfterPthreadBarrierWait(t)

Conds(t) ==
  \/ \E m \in Mutex : BeforePthreadCondWait(t, m)
  \/ RealCondWait(t) \/ RealCondSignal(t) \/ RealCondReturn(t) \/ AfterPthreadCondWait(t)

Sems(t) ==
  \/ BeforeSemPost(t) \/ RealSemPost(t)
  \/ BeforeSemWait(t) \/ RealSemWait(t) \/ AfterSemWait(t)

Step(t) == Access(t) \/ Threads(t) \/ Mutexes(t) \/ Rwlocks(t) \/ Barriers(t) \/ Conds(t)
             \/ Sems(t)

\* The program is over, or the tool has died under it.
Over == crashed \/ \A t \in Thread : pc[t] \in {"unborn", "exited", "reaped"}

Next ==
  \/ ~crashed /\ \E t \in Thread : Step(t)
  \/ Over /\ UNCHANGED vars

Spec == Init /\ [][Next]_vars

-----------------------------------------------------------------------------
(* Fairness.  A thread inside a callback, or inside a pthread call that can  *)
(* return, keeps running; the program may stop raising events at any time.  *)
(* rand() picks each available thread again and again, so the loop that     *)
(* waits to be picked is strongly fair.  TimedWait's two seconds do pass.   *)

Running(t) ==
  \/ ThreadStart(t) \/ RealJoin(t) \/ AfterPthreadJoin(t)
  \/ LeaveRegion(t) \/ RecordAndPostpone(t) \/ RecordAndKeepup(t) \/ HandleRace(t)
  \/ WakeUpOne(t) \/ WakeUpDone(t) \/ KeepupThread(t) \/ PostponeThread(t)
  \/ TakePermit(t) \/ AfterWait(t)
  \/ RealMutexLock(t) \/ AfterPthreadMutexLock(t) \/ AfterPthreadMutexUnlock(t)
  \/ RealMutexTryLock(t) \/ AfterTryFailed(t)

\* Without the two-second timeout.
PromptSpec ==
  /\ Spec
  /\ \A t \in Thread : /\ WF_vars(~crashed /\ Running(t))
                       /\ SF_vars(~crashed /\ ChooseRandomThreadBeforeProcess(t))

TimeOutsExpire == \A t \in Thread : WF_vars(~crashed /\ TimeOut(t))

-----------------------------------------------------------------------------
(* Properties. *)

\* The three thread sets and the semaphore table say where each thread really
\* is: whoever spins in ChooseRandomThreadBeforeProcess is in avail_thd_set_
\* (else its loop would never pick it), a thread is in pp_thd_set_ exactly
\* while it waits in PostponeThread, in blk_thd_set_ exactly between the
\* Before and the After callback of a blocking call, and the thread that
\* ChooseRandomThreadAfterAllUnavailable wakes has a semaphore.
ThreadSets ==
  /\ avail = {t \in Thread : pc[t] \in AvailPC}
  /\ pp = {t \in Thread : pc[t] \in PpPC}
  /\ blk = {t \in Thread : pc[t] \in BlkPC}
  /\ smp = {t \in Thread : pc[t] \notin GonePC}

\* verify_lock_ is held by exactly the thread that is between
\* ChooseRandomThreadBeforeProcess and the end of its branch of
\* ProcessReadOrWrite: every branch frees it, and there is one thread at most
\* in the region.
VerifyLockInv ==
  \A t \in Thread : verify_lock_ = t <=> pc[t] \in RegionPC

\* A thread's postponed metas do not outlive the access: only a thread in the
\* region or postponed has a thd_ppmetas_map_ entry, so a verification never
\* charges a race to a thread that has moved on.
PostponedMetas ==
  \A t \in ppmetas : pc[t] \in RegionPC \cup PpPC

\* The owner a mutex meta names is not a fiction: it holds the mutex, or it
\* has released it and its After callback is still to come.
OwnerSound ==
  \A m \in Mutex, t \in Thread :
    owner[m] = t => realHolder[m] = t \/ (pc[t] = "unlocking" /\ arg[t] = m)

\* The same of the rwlock's writer and readers.
RwOwnersSound ==
  /\ wrOwner # NoThread => realWriter = wrOwner \/ pc[wrOwner] = "rwUnlocking"
  /\ \A t \in rdOwners : t \in realReaders \/ pc[t] = "rwUnlocking"

\* A thread inside a blocking call whose way back does not depend on another
\* thread.
Returning(t) ==
  \/ pc[t] \in {"locked", "tryFailed", "rdLocked", "wrLocked", "trying", "rdTrying",
               "wrTrying", "joined", "barrierOpen", "condLocked", "semTaken", "condEnter"}
  \/ pc[t] \in {"locking", "condWoken"} /\ realHolder[arg[t]] = NoThread
  \/ pc[t] = "rdLocking" /\ realWriter = NoThread
  \/ pc[t] = "wrLocking" /\ realWriter = NoThread /\ realReaders = {}
  \/ pc[t] = "joining" /\ pc[arg[t]] = "exited"
  \/ pc[t] = "barEnter" /\ Cardinality({u \in Thread : pc[u] \in {"barEnter", "barrier"}})
                              >= BarrierCount
  \/ pc[t] = "semWaiting" /\ realSem > 0

\* A thread blocked on a lock for which the code wakes nobody: the holder is
\* itself blocked, or is not the owner the meta names; for a writer, any
\* writer before it.
Unhelped(t) ==
  \/ /\ pc[t] = "locking"
     /\ realHolder[arg[t]] \in blk \/ owner[arg[t]] # realHolder[arg[t]]
  \/ pc[t] = "rdLocking" /\ (realWriter \in blk \/ wrOwner # realWriter)
  \/ /\ pc[t] = "wrLocking"
     /\ realWriter # NoThread \/ ~ realReaders \subseteq rdOwners \ blk

\* When postponed threads are all that is left, one of them has been released
\* (or a blocked thread is on its way back, or one is still starting): the
\* program does not stand still until a two-second timeout.  The exception is
\* a thread blocked on a lock whose holder the code does not find.
SomeoneReleased ==
  avail = {} /\ pp # {} =>
    \/ \E t \in pp : permits[t] > 0 \/ pc[t] = "woken"
    \/ \E t \in blk : Returning(t) \/ Unhelped(t)
    \/ \E t \in Thread : pc[t] = "starting"

\* BarrierMeta::ref counts the threads between their Before and After
\* callbacks, also when a fast thread re-enters before a slow one has left.
BarrierRefInv ==
  barrierRef = Cardinality({t \in Thread : pc[t] \in {"barEnter", "barrier", "barrierOpen"}}) % 256

\* SemMeta::count is the value of the real semaphore, less the threads still
\* to take it, plus the posts announced and not yet made.
SemCountInv ==
  semCount = Int8(realSem + Cardinality({t \in Thread : pc[t] = "semPosting"})
                          - Cardinality({t \in Thread : pc[t] = "semWaiting"}))

\* The verifier's counts of a barrier and a semaphore say what pthread does.
CountsSound == BarrierRefInv /\ SemCountInv

\* Postponing never leaves the program without a runnable thread for the
\* length of a timeout: whenever only postponed threads are left, one of them
\* becomes available, even if no timeout ever expires.
SomeoneResumes == (avail = {} /\ pp # {}) ~> (avail # {} \/ crashed)

\* Once timeouts do expire, every access that reaches the verifier gets through
\* it: the thread is picked, and if postponed, it comes back.
AccessReturns ==
  TimeOutsExpire => \A t \in Thread : pc[t] = "choose" ~> (pc[t] = "run" \/ crashed)

\* What the comment on ProcessReadOrWrite calls a single-threaded region: while
\* a thread is in it, no other thread changes the tables it reads.
SingleThreadedRegion ==
  [][\A t \in Thread : verify_lock_ = t /\ verify_lock_' = t =>
        ppmetas' \ {t} = ppmetas \ {t}]_vars

\* Every thread that is woken has a semaphore.
EveryWokenHasSemaphore == ~crashed
=============================================================================
