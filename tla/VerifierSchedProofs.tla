------------------------- MODULE VerifierSchedProofs -------------------------
(***************************************************************************)
(* Proofs about the verifier's scheduler, for any set of threads and       *)
(* mutexes and any bound.  The inductive invariant joins the properties of *)
(* VerifierSched with CallInv, which says what a thread in the middle of a *)
(* lock call owns according to pthread.                                    *)
(***************************************************************************)
EXTENDS VerifierSched, FiniteSetTheorems, TLAPS

USE DEF setVars, smpVars, raceVars, lockVars, rwVars, barVars, semVars, syncVars,
        Goto, Move, Raise, WakeUpPostponeThread, ChooseRandomThreadAfterAllUnavailable,
        BlockThread, UnblockThread, BlockAndChoose, BlockAndWakeOwner,
        ClearPostponedThreadMetas

\* What the callbacks between two pthread calls rely on: the argument of the
\* call is still there, the lock just taken is held, and a thread about to wait
\* on a condition has already given up the ownership it had; the threads
\* pthread counts in the barrier are waiting in it.
CallInv ==
  /\ \A t \in realArrived : pc[t] = "barrier"
  /\ \A t \in Thread :
    /\ pc[t] \in {"locking", "locked", "trying", "unlocking", "condEnter", "condWait",
                  "condWoken", "condLocked"} => arg[t] \in Mutex
    /\ pc[t] \in {"joining", "joined"} => arg[t] \in Thread
    /\ pc[t] \in {"locked", "condEnter", "condLocked"} => realHolder[arg[t]] = t
    /\ pc[t] = "condEnter" => owner[arg[t]] # t
    /\ pc[t] = "wrLocked" => realWriter = t
    /\ pc[t] = "rdLocked" => t \in realReaders

\* What holds of the scheduler of any verifier: all but how it keeps its own
\* region and the metas of postponed threads.
ThreadInv ==
  /\ TypeOK
  /\ ThreadSets
  /\ OwnerSound
  /\ RwOwnersSound
  /\ CallInv

IInv ==
  /\ TypeOK
  /\ ThreadSets
  /\ VerifyLockInv
  /\ PostponedMetas
  /\ OwnerSound
  /\ RwOwnersSound
  /\ CallInv

-----------------------------------------------------------------------------
(* Frames: what the steps of a memory access, and of the semaphore, leave   *)
(* alone.                                                                   *)

\* The places of a thread that is in no pthread call.
NoCall == {"run", "choose"} \cup RegionPC \cup PpPC

\* A memory access stays outside every pthread call and touches nothing the
\* verifier or pthread know of locks, barriers and semaphores.
LEMMA AccessFrame ==
  ASSUME TypeOK, NEW t \in Thread, Access(t)
  PROVE  /\ UNCHANGED <<arg, syncVars>>
         /\ pc[t] \in NoCall
         /\ \E there \in NoCall : Goto(t, there)
  <1>1. pc \in [Thread -> PC] BY DEF TypeOK
  <1>2. CASE BeforeMem(t) BY <1>1, <1>2 DEF BeforeMem, NoCall, RegionPC, PpPC
  <1>3. CASE ChooseRandomThreadBeforeProcess(t) BY <1>1, <1>3 DEF
        ChooseRandomThreadBeforeProcess, NoCall, RegionPC, PpPC
  <1>4. CASE LeaveRegion(t) BY <1>1, <1>4 DEF LeaveRegion, NoCall, RegionPC, PpPC
  <1>5. CASE RecordAndPostpone(t) BY <1>1, <1>5 DEF RecordAndPostpone, NoCall,
        RegionPC, PpPC
  <1>6. CASE RecordAndKeepup(t) BY <1>1, <1>6 DEF RecordAndKeepup, NoCall, RegionPC,
        PpPC
  <1>7. CASE HandleRace(t) BY <1>1, <1>7 DEF HandleRace, NoCall, RegionPC, PpPC
  <1>8. CASE WakeUpOne(t) BY <1>1, <1>8 DEF WakeUpOne, NoCall, RegionPC, PpPC
  <1>9. CASE WakeUpDone(t) BY <1>1, <1>9 DEF WakeUpDone, NoCall, RegionPC, PpPC,
        TypeOK
  <1>10. CASE KeepupThread(t) BY <1>1, <1>10 DEF KeepupThread, NoCall, RegionPC,
         PpPC
  <1>11. CASE PostponeThread(t) BY <1>1, <1>11 DEF PostponeThread, NoCall, RegionPC,
         PpPC
  <1>12. CASE TakePermit(t) BY <1>1, <1>12 DEF TakePermit, NoCall, RegionPC, PpPC
  <1>13. CASE TimeOut(t) BY <1>1, <1>13 DEF TimeOut, NoCall, RegionPC, PpPC
  <1>14. CASE AfterWait(t) BY <1>1, <1>14 DEF AfterWait, NoCall, RegionPC, PpPC
  <1> QED BY <1>2, <1>3, <1>4, <1>5, <1>6, <1>7, <1>8, <1>9, <1>10, <1>11, <1>12,
      <1>13, <1>14 DEF Access

\* The program's semaphore has nothing to do with its locks.
LEMMA SemsFrame ==
  ASSUME NEW t \in Thread, Sems(t)
  PROVE  /\ UNCHANGED <<arg, lockVars, rwVars, realArrived>>
         /\ pc[t] \in {"run", "semPosting", "semWaiting", "semTaken"}
         /\ \E there \in {"run", "semPosting", "semWaiting", "semTaken"} : Goto(t, there)
  BY DEF Sems, BeforeSemPost, RealSemPost, BeforeSemWait, RealSemWait, AfterSemWait

-----------------------------------------------------------------------------
(* One lemma per conjunct, one step per group of actions, or per action.    *)

\* A step keeps every variable in its type.
LEMMA TypeOKStep ==
  ASSUME TypeOK, CallInv, NEW t \in Thread, Step(t)
  PROVE  TypeOK'
  <1> USE NullAssumption, ArgAssumption, BoundAssumption
  <1>1. pc \in [Thread -> PC] /\ ppmetas \subseteq Thread /\ realArrived \subseteq Thread BY DEF TypeOK
  <1>2. CASE Access(t)
    <2>1. CASE BeforeMem(t) BY <2>1, <1>1 DEF BeforeMem, TypeOK, PC, AvailPC,
          RegionPC, PpPC, BlkPC, GonePC
    <2>2. CASE ChooseRandomThreadBeforeProcess(t) BY <2>2, <1>1 DEF
          ChooseRandomThreadBeforeProcess, TypeOK, PC, AvailPC, RegionPC, PpPC,
          BlkPC, GonePC
    <2>3. CASE LeaveRegion(t) BY <2>3, <1>1 DEF LeaveRegion, TypeOK, PC, AvailPC,
          RegionPC, PpPC, BlkPC, GonePC
    <2>4. CASE RecordAndPostpone(t) BY <2>4, <1>1 DEF RecordAndPostpone, TypeOK, PC,
          AvailPC, RegionPC, PpPC, BlkPC, GonePC
    <2>5. CASE RecordAndKeepup(t) BY <2>5, <1>1 DEF RecordAndKeepup, TypeOK, PC,
          AvailPC, RegionPC, PpPC, BlkPC, GonePC
    <2>6. CASE HandleRace(t) BY <2>6, <1>1 DEF HandleRace, TypeOK, PC, AvailPC,
          RegionPC, PpPC, BlkPC, GonePC
    <2>7. CASE WakeUpOne(t)
      <3>1. PICK u \in wake[t] :
                   /\ wake' = [wake EXCEPT ![t] = @ \ {u}]
                   /\ \/ permits' = [permits EXCEPT ![u] = @ + 1] /\ crashed' = crashed
                      \/ permits' = permits /\ crashed' = TRUE
        BY <2>7 DEF WakeUpOne
      <3>2. u \in Thread BY <3>1 DEF TypeOK
      <3>3. permits' \in [Thread -> Nat] BY <3>1, <3>2 DEF TypeOK
      <3>4. wake' \in [Thread -> SUBSET Thread] /\ crashed' \in BOOLEAN
        BY <3>1 DEF TypeOK
      <3> QED BY <2>7, <3>3, <3>4 DEF WakeUpOne, TypeOK
    <2>8. CASE WakeUpDone(t) BY <2>8, <1>1 DEF WakeUpDone, TypeOK, PC, AvailPC,
          RegionPC, PpPC, BlkPC, GonePC
    <2>9. CASE KeepupThread(t) BY <2>9, <1>1 DEF KeepupThread, TypeOK, PC, AvailPC,
          RegionPC, PpPC, BlkPC, GonePC
    <2>10. CASE PostponeThread(t) BY <2>10, <1>1 DEF PostponeThread, TypeOK, PC,
           AvailPC, RegionPC, PpPC, BlkPC, GonePC
    <2>11. CASE TakePermit(t) BY <2>11, <1>1 DEF TakePermit, TypeOK, PC, AvailPC,
           RegionPC, PpPC, BlkPC, GonePC
    <2>12. CASE TimeOut(t) BY <2>12, <1>1 DEF TimeOut, TypeOK, PC, AvailPC,
           RegionPC, PpPC, BlkPC, GonePC
    <2>13. CASE AfterWait(t) BY <2>13, <1>1 DEF AfterWait, TypeOK, PC, AvailPC,
           RegionPC, PpPC, BlkPC, GonePC
    <2> QED BY <1>2, <2>1, <2>2, <2>3, <2>4, <2>5, <2>6, <2>7, <2>8, <2>9, <2>10,
        <2>11, <2>12, <2>13 DEF Access
  <1>3. CASE Threads(t) BY <1>3, <1>1 DEF Threads, Create, ThreadStart, ThreadExit,
        BeforePthreadJoin, RealJoin, AfterPthreadJoin, CallInv, TypeOK, PC, AvailPC,
        RegionPC, PpPC, BlkPC, GonePC
  <1>4. CASE Mutexes(t) BY <1>4, <1>1 DEF Mutexes, BeforePthreadMutexLock,
        RealMutexLock, AfterPthreadMutexLock, RealMutexUnlock,
        AfterPthreadMutexUnlock, BeforePthreadMutexTryLock, RealMutexTryLock,
        AfterTryFailed, CallInv, TypeOK, PC, AvailPC, RegionPC, PpPC, BlkPC, GonePC
  <1>5. CASE Rwlocks(t) BY <1>5, <1>1 DEF Rwlocks, BeforePthreadRwlockRdlock,
        RealRwlockRdlock, AfterPthreadRwlockRdlock, BeforePthreadRwlockWrlock,
        RealRwlockWrlock, AfterPthreadRwlockWrlock, RealRwlockTryFail,
        RealRwlockUnlock, AfterPthreadRwlockUnlock, TypeOK, PC, AvailPC, RegionPC,
        PpPC, BlkPC, GonePC
  <1>6. CASE Barriers(t)
    <2>1. CASE BeforePthreadBarrierWait(t) BY <2>1, <1>1 DEF
          BeforePthreadBarrierWait, CallInv, TypeOK, PC, AvailPC, RegionPC, PpPC,
          BlkPC, GonePC
    <2>2. CASE RealBarrierWait(t) BY <2>2, <1>1 DEF RealBarrierWait, CallInv,
          TypeOK, PC, AvailPC, RegionPC, PpPC, BlkPC, GonePC
    <2>3. CASE AfterPthreadBarrierWait(t) BY <2>3, <1>1 DEF AfterPthreadBarrierWait,
          CallInv, TypeOK, PC, AvailPC, RegionPC, PpPC, BlkPC, GonePC
    <2> QED BY <1>6, <2>1, <2>2, <2>3 DEF Barriers
  <1>7. CASE Conds(t) BY <1>7, <1>1 DEF Conds, BeforePthreadCondWait, RealCondWait,
        RealCondSignal, RealCondReturn, AfterPthreadCondWait, CallInv, TypeOK, PC,
        AvailPC, RegionPC, PpPC, BlkPC, GonePC
  <1>8. CASE Sems(t) BY <1>8, <1>1 DEF Sems, BeforeSemPost, RealSemPost,
        BeforeSemWait, RealSemWait, AfterSemWait, Int8, TypeOK, PC, AvailPC,
        RegionPC, PpPC, BlkPC, GonePC
  <1> QED BY <1>2, <1>3, <1>4, <1>5, <1>6, <1>7, <1>8 DEF Step

\* A step moves a thread between the sets as it moves it between places.
LEMMA ThreadSetsStep ==
  ASSUME TypeOK, ThreadSets, CallInv, NEW t \in Thread, Step(t)
  PROVE  ThreadSets'
  <1>1. pc \in [Thread -> PC] /\ ppmetas \subseteq Thread /\ realArrived \subseteq Thread BY DEF TypeOK
  <1>2. CASE Access(t)
    <2>1. CASE BeforeMem(t) BY <2>1, <1>1 DEF BeforeMem, ThreadSets, AvailPC,
          RegionPC, PpPC, BlkPC, GonePC
    <2>2. CASE ChooseRandomThreadBeforeProcess(t) BY <2>2, <1>1 DEF
          ChooseRandomThreadBeforeProcess, ThreadSets, AvailPC, RegionPC, PpPC,
          BlkPC, GonePC
    <2>3. CASE LeaveRegion(t) BY <2>3, <1>1 DEF LeaveRegion, ThreadSets, AvailPC,
          RegionPC, PpPC, BlkPC, GonePC
    <2>4. CASE RecordAndPostpone(t) BY <2>4, <1>1 DEF RecordAndPostpone, ThreadSets,
          AvailPC, RegionPC, PpPC, BlkPC, GonePC
    <2>5. CASE RecordAndKeepup(t) BY <2>5, <1>1 DEF RecordAndKeepup, ThreadSets,
          AvailPC, RegionPC, PpPC, BlkPC, GonePC
    <2>6. CASE HandleRace(t) BY <2>6, <1>1 DEF HandleRace, ThreadSets, AvailPC,
          RegionPC, PpPC, BlkPC, GonePC
    <2>7. CASE WakeUpOne(t) BY <2>7, <1>1 DEF WakeUpOne, ThreadSets, AvailPC,
          RegionPC, PpPC, BlkPC, GonePC
    <2>8. CASE WakeUpDone(t) BY <2>8, <1>1 DEF WakeUpDone, TypeOK, ThreadSets,
          AvailPC, RegionPC, PpPC, BlkPC, GonePC
    <2>9. CASE KeepupThread(t) BY <2>9, <1>1 DEF KeepupThread, ThreadSets, AvailPC,
          RegionPC, PpPC, BlkPC, GonePC
    <2>10. CASE PostponeThread(t) BY <2>10, <1>1 DEF PostponeThread, ThreadSets,
           AvailPC, RegionPC, PpPC, BlkPC, GonePC
    <2>11. CASE TakePermit(t) BY <2>11, <1>1 DEF TakePermit, ThreadSets, AvailPC,
           RegionPC, PpPC, BlkPC, GonePC
    <2>12. CASE TimeOut(t) BY <2>12, <1>1 DEF TimeOut, ThreadSets, AvailPC,
           RegionPC, PpPC, BlkPC, GonePC
    <2>13. CASE AfterWait(t) BY <2>13, <1>1 DEF AfterWait, ThreadSets, AvailPC,
           RegionPC, PpPC, BlkPC, GonePC
    <2> QED BY <1>2, <2>1, <2>2, <2>3, <2>4, <2>5, <2>6, <2>7, <2>8, <2>9, <2>10,
        <2>11, <2>12, <2>13 DEF Access
  <1>3. CASE Threads(t) BY <1>3, <1>1 DEF Threads, Create, ThreadStart, ThreadExit,
        BeforePthreadJoin, RealJoin, AfterPthreadJoin, CallInv, ThreadSets, AvailPC,
        RegionPC, PpPC, BlkPC, GonePC
  <1>4. CASE Mutexes(t) BY <1>4, <1>1 DEF Mutexes, BeforePthreadMutexLock,
        RealMutexLock, AfterPthreadMutexLock, RealMutexUnlock,
        AfterPthreadMutexUnlock, BeforePthreadMutexTryLock, RealMutexTryLock,
        AfterTryFailed, CallInv, ThreadSets, AvailPC, RegionPC, PpPC, BlkPC, GonePC
  <1>5. CASE Rwlocks(t) BY <1>5, <1>1 DEF Rwlocks, BeforePthreadRwlockRdlock,
        RealRwlockRdlock, AfterPthreadRwlockRdlock, BeforePthreadRwlockWrlock,
        RealRwlockWrlock, AfterPthreadRwlockWrlock, RealRwlockTryFail,
        RealRwlockUnlock, AfterPthreadRwlockUnlock, CallInv, ThreadSets, AvailPC,
        RegionPC, PpPC, BlkPC, GonePC
  <1>6. CASE Barriers(t)
    <2>1. CASE BeforePthreadBarrierWait(t) BY <2>1, <1>1 DEF
          BeforePthreadBarrierWait, CallInv, TypeOK, ThreadSets, AvailPC, RegionPC,
          PpPC, BlkPC, GonePC
    <2>2. CASE RealBarrierWait(t) BY <2>2, <1>1 DEF RealBarrierWait, CallInv,
          TypeOK, ThreadSets, AvailPC, RegionPC, PpPC, BlkPC, GonePC
    <2>3. CASE AfterPthreadBarrierWait(t) BY <2>3, <1>1 DEF AfterPthreadBarrierWait,
          CallInv, TypeOK, ThreadSets, AvailPC, RegionPC, PpPC, BlkPC, GonePC
    <2> QED BY <1>6, <2>1, <2>2, <2>3 DEF Barriers
  <1>7. CASE Conds(t) BY <1>7, <1>1 DEF Conds, BeforePthreadCondWait, RealCondWait,
        RealCondSignal, RealCondReturn, AfterPthreadCondWait, CallInv, ThreadSets,
        AvailPC, RegionPC, PpPC, BlkPC, GonePC
  <1>8. CASE Sems(t) BY <1>8, <1>1 DEF Sems, BeforeSemPost, RealSemPost,
        BeforeSemWait, RealSemWait, AfterSemWait, CallInv, ThreadSets, AvailPC,
        RegionPC, PpPC, BlkPC, GonePC
  <1> QED BY <1>2, <1>3, <1>4, <1>5, <1>6, <1>7, <1>8 DEF Step

\* A step takes verify_lock_ on entering the region and frees it on leaving.
LEMMA VerifyLockInvStep ==
  ASSUME TypeOK, VerifyLockInv, CallInv, NEW t \in Thread, Step(t)
  PROVE  VerifyLockInv'
  <1> USE NullAssumption
  <1>1. pc \in [Thread -> PC] /\ ppmetas \subseteq Thread /\ realArrived \subseteq Thread BY DEF TypeOK
  <1>2. CASE Access(t)
    <2>1. CASE BeforeMem(t) BY <2>1, <1>1 DEF BeforeMem, VerifyLockInv, RegionPC
    <2>2. CASE ChooseRandomThreadBeforeProcess(t) BY <2>2, <1>1 DEF
          ChooseRandomThreadBeforeProcess, VerifyLockInv, RegionPC
    <2>3. CASE LeaveRegion(t) BY <2>3, <1>1 DEF LeaveRegion, VerifyLockInv, RegionPC
    <2>4. CASE RecordAndPostpone(t) BY <2>4, <1>1 DEF RecordAndPostpone,
          VerifyLockInv, RegionPC
    <2>5. CASE RecordAndKeepup(t) BY <2>5, <1>1 DEF RecordAndKeepup, VerifyLockInv,
          RegionPC
    <2>6. CASE HandleRace(t) BY <2>6, <1>1 DEF HandleRace, VerifyLockInv, RegionPC
    <2>7. CASE WakeUpOne(t) BY <2>7, <1>1 DEF WakeUpOne, VerifyLockInv, RegionPC
    <2>8. CASE WakeUpDone(t) BY <2>8, <1>1 DEF WakeUpDone, TypeOK, VerifyLockInv,
          RegionPC
    <2>9. CASE KeepupThread(t) BY <2>9, <1>1 DEF KeepupThread, VerifyLockInv,
          RegionPC
    <2>10. CASE PostponeThread(t) BY <2>10, <1>1 DEF PostponeThread, VerifyLockInv,
           RegionPC
    <2>11. CASE TakePermit(t) BY <2>11, <1>1 DEF TakePermit, VerifyLockInv, RegionPC
    <2>12. CASE TimeOut(t) BY <2>12, <1>1 DEF TimeOut, VerifyLockInv, RegionPC
    <2>13. CASE AfterWait(t) BY <2>13, <1>1 DEF AfterWait, VerifyLockInv, RegionPC
    <2> QED BY <1>2, <2>1, <2>2, <2>3, <2>4, <2>5, <2>6, <2>7, <2>8, <2>9, <2>10,
        <2>11, <2>12, <2>13 DEF Access
  <1>3. CASE Threads(t) BY <1>3, <1>1 DEF Threads, Create, ThreadStart, ThreadExit,
        BeforePthreadJoin, RealJoin, AfterPthreadJoin, CallInv, VerifyLockInv,
        RegionPC
  <1>4. CASE Mutexes(t) BY <1>4, <1>1 DEF Mutexes, BeforePthreadMutexLock,
        RealMutexLock, AfterPthreadMutexLock, RealMutexUnlock,
        AfterPthreadMutexUnlock, BeforePthreadMutexTryLock, RealMutexTryLock,
        AfterTryFailed, CallInv, VerifyLockInv, RegionPC
  <1>5. CASE Rwlocks(t) BY <1>5, <1>1 DEF Rwlocks, BeforePthreadRwlockRdlock,
        RealRwlockRdlock, AfterPthreadRwlockRdlock, BeforePthreadRwlockWrlock,
        RealRwlockWrlock, AfterPthreadRwlockWrlock, RealRwlockTryFail,
        RealRwlockUnlock, AfterPthreadRwlockUnlock, CallInv, VerifyLockInv, RegionPC
  <1>6. CASE Barriers(t)
    <2>1. CASE BeforePthreadBarrierWait(t) BY <2>1, <1>1 DEF
          BeforePthreadBarrierWait, CallInv, TypeOK, VerifyLockInv, RegionPC
    <2>2. CASE RealBarrierWait(t) BY <2>2, <1>1 DEF RealBarrierWait, CallInv,
          TypeOK, VerifyLockInv, RegionPC
    <2>3. CASE AfterPthreadBarrierWait(t) BY <2>3, <1>1 DEF AfterPthreadBarrierWait,
          CallInv, TypeOK, VerifyLockInv, RegionPC
    <2> QED BY <1>6, <2>1, <2>2, <2>3 DEF Barriers
  <1>7. CASE Conds(t) BY <1>7, <1>1 DEF Conds, BeforePthreadCondWait, RealCondWait,
        RealCondSignal, RealCondReturn, AfterPthreadCondWait, CallInv,
        VerifyLockInv, RegionPC
  <1>8. CASE Sems(t) BY <1>8, <1>1 DEF Sems, BeforeSemPost, RealSemPost,
        BeforeSemWait, RealSemWait, AfterSemWait, CallInv, VerifyLockInv, RegionPC
  <1> QED BY <1>2, <1>3, <1>4, <1>5, <1>6, <1>7, <1>8 DEF Step

\* A step that leaves the region or the wait clears the postponed metas.
LEMMA PostponedMetasStep ==
  ASSUME TypeOK, PostponedMetas, CallInv, NEW t \in Thread, Step(t)
  PROVE  PostponedMetas'
  <1>1. pc \in [Thread -> PC] /\ ppmetas \subseteq Thread /\ realArrived \subseteq Thread BY DEF TypeOK
  <1>2. CASE Access(t)
    <2>1. CASE BeforeMem(t) BY <2>1, <1>1 DEF BeforeMem, PostponedMetas, RegionPC,
          PpPC
    <2>2. CASE ChooseRandomThreadBeforeProcess(t) BY <2>2, <1>1 DEF
          ChooseRandomThreadBeforeProcess, PostponedMetas, RegionPC, PpPC
    <2>3. CASE LeaveRegion(t) BY <2>3, <1>1 DEF LeaveRegion, PostponedMetas,
          RegionPC, PpPC
    <2>4. CASE RecordAndPostpone(t) BY <2>4, <1>1 DEF RecordAndPostpone,
          PostponedMetas, RegionPC, PpPC
    <2>5. CASE RecordAndKeepup(t) BY <2>5, <1>1 DEF RecordAndKeepup, PostponedMetas,
          RegionPC, PpPC
    <2>6. CASE HandleRace(t) BY <2>6, <1>1 DEF HandleRace, PostponedMetas, RegionPC,
          PpPC
    <2>7. CASE WakeUpOne(t) BY <2>7, <1>1 DEF WakeUpOne, PostponedMetas, RegionPC,
          PpPC
    <2>8. CASE WakeUpDone(t) BY <2>8, <1>1 DEF WakeUpDone, TypeOK, PostponedMetas,
          RegionPC, PpPC
    <2>9. CASE KeepupThread(t) BY <2>9, <1>1 DEF KeepupThread, PostponedMetas,
          RegionPC, PpPC
    <2>10. CASE PostponeThread(t) BY <2>10, <1>1 DEF PostponeThread, PostponedMetas,
           RegionPC, PpPC
    <2>11. CASE TakePermit(t) BY <2>11, <1>1 DEF TakePermit, PostponedMetas,
           RegionPC, PpPC
    <2>12. CASE TimeOut(t) BY <2>12, <1>1 DEF TimeOut, PostponedMetas, RegionPC,
           PpPC
    <2>13. CASE AfterWait(t) BY <2>13, <1>1 DEF AfterWait, PostponedMetas, RegionPC,
           PpPC
    <2> QED BY <1>2, <2>1, <2>2, <2>3, <2>4, <2>5, <2>6, <2>7, <2>8, <2>9, <2>10,
        <2>11, <2>12, <2>13 DEF Access
  <1>3. CASE Threads(t) BY <1>3, <1>1 DEF Threads, Create, ThreadStart, ThreadExit,
        BeforePthreadJoin, RealJoin, AfterPthreadJoin, CallInv, PostponedMetas,
        RegionPC, PpPC
  <1>4. CASE Mutexes(t) BY <1>4, <1>1 DEF Mutexes, BeforePthreadMutexLock,
        RealMutexLock, AfterPthreadMutexLock, RealMutexUnlock,
        AfterPthreadMutexUnlock, BeforePthreadMutexTryLock, RealMutexTryLock,
        AfterTryFailed, CallInv, PostponedMetas, RegionPC, PpPC
  <1>5. CASE Rwlocks(t) BY <1>5, <1>1 DEF Rwlocks, BeforePthreadRwlockRdlock,
        RealRwlockRdlock, AfterPthreadRwlockRdlock, BeforePthreadRwlockWrlock,
        RealRwlockWrlock, AfterPthreadRwlockWrlock, RealRwlockTryFail,
        RealRwlockUnlock, AfterPthreadRwlockUnlock, CallInv, PostponedMetas,
        RegionPC, PpPC
  <1>6. CASE Barriers(t)
    <2>1. CASE BeforePthreadBarrierWait(t) BY <2>1, <1>1 DEF
          BeforePthreadBarrierWait, CallInv, TypeOK, PostponedMetas, RegionPC, PpPC
    <2>2. CASE RealBarrierWait(t) BY <2>2, <1>1 DEF RealBarrierWait, CallInv,
          TypeOK, PostponedMetas, RegionPC, PpPC
    <2>3. CASE AfterPthreadBarrierWait(t) BY <2>3, <1>1 DEF AfterPthreadBarrierWait,
          CallInv, TypeOK, PostponedMetas, RegionPC, PpPC
    <2> QED BY <1>6, <2>1, <2>2, <2>3 DEF Barriers
  <1>7. CASE Conds(t) BY <1>7, <1>1 DEF Conds, BeforePthreadCondWait, RealCondWait,
        RealCondSignal, RealCondReturn, AfterPthreadCondWait, CallInv,
        PostponedMetas, RegionPC, PpPC
  <1>8. CASE Sems(t) BY <1>8, <1>1 DEF Sems, BeforeSemPost, RealSemPost,
        BeforeSemWait, RealSemWait, AfterSemWait, CallInv, PostponedMetas, RegionPC,
        PpPC
  <1> QED BY <1>2, <1>3, <1>4, <1>5, <1>6, <1>7, <1>8 DEF Step

\* A step makes a thread the owner of a mutex only if it holds it.
LEMMA OwnerSoundStep ==
  ASSUME TypeOK, OwnerSound, CallInv, NEW t \in Thread, Step(t)
  PROVE  OwnerSound'
  <1> USE NullAssumption
  <1>1. pc \in [Thread -> PC] /\ ppmetas \subseteq Thread /\ realArrived \subseteq Thread BY DEF TypeOK
  <1>2. CASE Access(t) BY <1>2, <1>1, AccessFrame DEF NoCall, RegionPC, PpPC,
        TypeOK, OwnerSound, CallInv
  <1>3. CASE Threads(t) BY <1>3, <1>1 DEF Threads, Create, ThreadStart, ThreadExit,
        BeforePthreadJoin, RealJoin, AfterPthreadJoin, TypeOK, OwnerSound, CallInv
  <1>4. CASE Mutexes(t) BY <1>4, <1>1 DEF Mutexes, BeforePthreadMutexLock,
        RealMutexLock, AfterPthreadMutexLock, RealMutexUnlock,
        AfterPthreadMutexUnlock, BeforePthreadMutexTryLock, RealMutexTryLock,
        AfterTryFailed, TypeOK, OwnerSound, CallInv
  <1>5. CASE Rwlocks(t) BY <1>5, <1>1 DEF Rwlocks, BeforePthreadRwlockRdlock,
        RealRwlockRdlock, AfterPthreadRwlockRdlock, BeforePthreadRwlockWrlock,
        RealRwlockWrlock, AfterPthreadRwlockWrlock, RealRwlockTryFail,
        RealRwlockUnlock, AfterPthreadRwlockUnlock, TypeOK, OwnerSound, CallInv
  <1>6. CASE Barriers(t)
    <2>1. CASE BeforePthreadBarrierWait(t) BY <2>1, <1>1 DEF
          BeforePthreadBarrierWait, CallInv, TypeOK, OwnerSound
    <2>2. CASE RealBarrierWait(t) BY <2>2, <1>1 DEF RealBarrierWait, CallInv,
          TypeOK, OwnerSound
    <2>3. CASE AfterPthreadBarrierWait(t) BY <2>3, <1>1 DEF AfterPthreadBarrierWait,
          CallInv, TypeOK, OwnerSound
    <2> QED BY <1>6, <2>1, <2>2, <2>3 DEF Barriers
  <1>7. CASE Conds(t) BY <1>7, <1>1 DEF Conds, BeforePthreadCondWait, RealCondWait,
        RealCondSignal, RealCondReturn, AfterPthreadCondWait, TypeOK, OwnerSound,
        CallInv
  <1>8. CASE Sems(t) BY <1>8, <1>1, SemsFrame DEF TypeOK, OwnerSound, CallInv
  <1> QED BY <1>2, <1>3, <1>4, <1>5, <1>6, <1>7, <1>8 DEF Step

\* The same of the rwlock.
LEMMA RwOwnersSoundStep ==
  ASSUME TypeOK, RwOwnersSound, CallInv, NEW t \in Thread, Step(t)
  PROVE  RwOwnersSound'
  <1> USE NullAssumption
  <1>1. pc \in [Thread -> PC] /\ ppmetas \subseteq Thread /\ realArrived \subseteq Thread BY DEF TypeOK
  <1>2. CASE Access(t) BY <1>2, <1>1, AccessFrame DEF NoCall, RegionPC, PpPC,
        TypeOK, RwOwnersSound, CallInv
  <1>3. CASE Threads(t) BY <1>3, <1>1 DEF Threads, Create, ThreadStart, ThreadExit,
        BeforePthreadJoin, RealJoin, AfterPthreadJoin, TypeOK, RwOwnersSound,
        CallInv
  <1>4. CASE Mutexes(t) BY <1>4, <1>1 DEF Mutexes, BeforePthreadMutexLock,
        RealMutexLock, AfterPthreadMutexLock, RealMutexUnlock,
        AfterPthreadMutexUnlock, BeforePthreadMutexTryLock, RealMutexTryLock,
        AfterTryFailed, TypeOK, RwOwnersSound, CallInv
  <1>5. CASE Rwlocks(t) BY <1>5, <1>1 DEF Rwlocks, BeforePthreadRwlockRdlock,
        RealRwlockRdlock, AfterPthreadRwlockRdlock, BeforePthreadRwlockWrlock,
        RealRwlockWrlock, AfterPthreadRwlockWrlock, RealRwlockTryFail,
        RealRwlockUnlock, AfterPthreadRwlockUnlock, TypeOK, RwOwnersSound, CallInv
  <1>6. CASE Barriers(t)
    <2>1. CASE BeforePthreadBarrierWait(t) BY <2>1, <1>1 DEF
          BeforePthreadBarrierWait, CallInv, TypeOK, RwOwnersSound
    <2>2. CASE RealBarrierWait(t) BY <2>2, <1>1 DEF RealBarrierWait, CallInv,
          TypeOK, RwOwnersSound
    <2>3. CASE AfterPthreadBarrierWait(t) BY <2>3, <1>1 DEF AfterPthreadBarrierWait,
          CallInv, TypeOK, RwOwnersSound
    <2> QED BY <1>6, <2>1, <2>2, <2>3 DEF Barriers
  <1>7. CASE Conds(t) BY <1>7, <1>1 DEF Conds, BeforePthreadCondWait, RealCondWait,
        RealCondSignal, RealCondReturn, AfterPthreadCondWait, TypeOK, RwOwnersSound,
        CallInv
  <1>8. CASE Sems(t) BY <1>8, <1>1, SemsFrame DEF TypeOK, RwOwnersSound, CallInv
  <1> QED BY <1>2, <1>3, <1>4, <1>5, <1>6, <1>7, <1>8 DEF Step

\* A step keeps what the callbacks between two pthread calls rely on.
LEMMA CallInvStep ==
  ASSUME TypeOK, OwnerSound, CallInv, NEW t \in Thread, Step(t)
  PROVE  CallInv'
  <1> USE NullAssumption
  <1>1. pc \in [Thread -> PC] /\ ppmetas \subseteq Thread /\ realArrived \subseteq Thread BY DEF TypeOK
  <1>2. CASE Access(t) BY <1>2, <1>1, AccessFrame DEF NoCall, RegionPC, PpPC,
        TypeOK, CallInv
  <1>3. CASE Threads(t) BY <1>3, <1>1 DEF Threads, Create, ThreadStart, ThreadExit,
        BeforePthreadJoin, RealJoin, AfterPthreadJoin, TypeOK, CallInv
  <1>4. CASE Mutexes(t) BY <1>4, <1>1 DEF Mutexes, BeforePthreadMutexLock,
        RealMutexLock, AfterPthreadMutexLock, RealMutexUnlock,
        AfterPthreadMutexUnlock, BeforePthreadMutexTryLock, RealMutexTryLock,
        AfterTryFailed, TypeOK, CallInv
  <1>5. CASE Rwlocks(t) BY <1>5, <1>1 DEF Rwlocks, BeforePthreadRwlockRdlock,
        RealRwlockRdlock, AfterPthreadRwlockRdlock, BeforePthreadRwlockWrlock,
        RealRwlockWrlock, AfterPthreadRwlockWrlock, RealRwlockTryFail,
        RealRwlockUnlock, AfterPthreadRwlockUnlock, TypeOK, CallInv
  <1>6. CASE Barriers(t)
    <2>1. CASE BeforePthreadBarrierWait(t) BY <2>1, <1>1 DEF
          BeforePthreadBarrierWait, CallInv, TypeOK
    <2>2. CASE RealBarrierWait(t) BY <2>2, <1>1 DEF RealBarrierWait, CallInv, TypeOK
    <2>3. CASE AfterPthreadBarrierWait(t) BY <2>3, <1>1 DEF AfterPthreadBarrierWait,
          CallInv, TypeOK
    <2> QED BY <1>6, <2>1, <2>2, <2>3 DEF Barriers
  <1>7. CASE Conds(t) BY <1>7, <1>1 DEF Conds, BeforePthreadCondWait, RealCondWait,
        RealCondSignal, RealCondReturn, AfterPthreadCondWait, TypeOK, CallInv
  <1>8. CASE Sems(t) BY <1>8, <1>1, SemsFrame DEF TypeOK, CallInv
  <1> QED BY <1>2, <1>3, <1>4, <1>5, <1>6, <1>7, <1>8 DEF Step

-----------------------------------------------------------------------------
\* The initial state satisfies the inductive invariant.
LEMMA InitIInv == Init => IInv
  <1> SUFFICES ASSUME Init PROVE IInv
    OBVIOUS
  <1>1. pc = [t \in Thread |-> IF t = Main THEN "starting" ELSE "unborn"]
    BY DEF Init
  <1>2. \A t \in Thread : pc[t] \in {"starting", "unborn"}
    BY <1>1
  <1>3. TypeOK
    <2>1. pc \in [Thread -> PC]
      BY <1>1 DEF PC, GonePC
    <2>2. left \in 0..MaxOps /\ permits \in [Thread -> Nat]
      BY BoundAssumption DEF Init
    <2>3. wake \in [Thread -> SUBSET Thread]
      BY DEF Init
    <2>4. next \in [Thread -> {"keepup", "postpone"}]
      BY DEF Init
    <2>5. /\ arg \in [Thread -> Mutex \cup Thread \cup {NoArg}]
          /\ owner \in [Mutex -> Thread \cup {NoThread}]
          /\ realHolder \in [Mutex -> Thread \cup {NoThread}]
      BY DEF Init
    <2>6. /\ avail \subseteq Thread /\ pp \subseteq Thread /\ blk \subseteq Thread
          /\ smp \subseteq Thread /\ ppmetas \subseteq Thread /\ rdOwners \subseteq Thread
          /\ realReaders \subseteq Thread /\ realArrived \subseteq Thread
      BY DEF Init
    <2>7. /\ verify_lock_ \in Thread \cup {NoThread} /\ wrOwner \in Thread \cup {NoThread}
          /\ realWriter \in Thread \cup {NoThread}
      BY DEF Init
    <2>8. barrierRef \in Nat /\ semCount \in Int /\ realSem \in Nat
      BY DEF Init
    <2>9. crashed \in BOOLEAN
      BY DEF Init
    <2> QED BY <2>1, <2>2, <2>3, <2>4, <2>5, <2>6, <2>7, <2>8, <2>9 DEF TypeOK
  <1>4. ThreadSets
    BY <1>2 DEF Init, ThreadSets, AvailPC, RegionPC, PpPC, BlkPC, GonePC
  <1>5. VerifyLockInv /\ PostponedMetas
    BY <1>2, NullAssumption DEF Init, VerifyLockInv, PostponedMetas, RegionPC
  <1>6. OwnerSound /\ RwOwnersSound
    BY NullAssumption DEF Init, OwnerSound, RwOwnersSound
  <1>7. CallInv
    BY <1>2 DEF Init, CallInv
  <1> QED BY <1>3, <1>4, <1>5, <1>6, <1>7 DEF IInv

\* Every step, and the stutter of a program that is over, preserves it.
LEMMA NextIInv == IInv /\ [Next]_vars => IInv'
  <1> SUFFICES ASSUME IInv, [Next]_vars PROVE IInv'
    OBVIOUS
  <1>1. ASSUME NEW t \in Thread, Step(t) PROVE IInv'
    BY <1>1, TypeOKStep, ThreadSetsStep, VerifyLockInvStep, PostponedMetasStep,
       OwnerSoundStep, RwOwnersSoundStep, CallInvStep DEF IInv
  <1>2. CASE UNCHANGED vars
    BY <1>2 DEF vars, IInv, TypeOK, ThreadSets, VerifyLockInv, PostponedMetas, OwnerSound,
                RwOwnersSound, CallInv
  <1> QED BY <1>1, <1>2 DEF Next

\* The inductive invariant holds of every behaviour of the scheduler.
THEOREM Inductive == Spec => []IInv
  BY InitIInv, NextIInv, PTL DEF Spec

\* Every variable of the scheduler keeps its type.
THEOREM TypeCorrect == Spec => []TypeOK
  BY Inductive, PTL DEF IInv

\* The thread sets and the semaphore table agree with where the threads are:
\* nobody spins without being available, nobody is woken without a semaphore
\* by ChooseRandomThreadAfterAllUnavailable.
THEOREM ThreadSetsCorrect == Spec => []ThreadSets
  BY Inductive, PTL DEF IInv

\* verify_lock_ is held exactly by the one thread inside ProcessReadOrWrite,
\* and every branch frees it.
THEOREM VerifyLockCorrect == Spec => []VerifyLockInv
  BY Inductive, PTL DEF IInv

\* No thread that has returned to the program still has postponed metas.
THEOREM PostponedMetasCorrect == Spec => []PostponedMetas
  BY Inductive, PTL DEF IInv

\* The owner of a mutex meta is no fiction: it holds the mutex or has just
\* released it.
THEOREM OwnersCorrect == Spec => []OwnerSound
  BY Inductive, PTL DEF IInv

\* Nor are the writer and the readers of the rwlock meta.
THEOREM RwOwnersCorrect == Spec => []RwOwnersSound
  BY Inductive, PTL DEF IInv

-----------------------------------------------------------------------------
(* The counts of a barrier and of a semaphore.                              *)

\* The threads BarrierMeta::ref counts, and those SemMeta::count counts.
InBarrier == {t \in Thread : pc[t] \in {"barEnter", "barrier", "barrierOpen"}}
Posting   == {t \in Thread : pc[t] = "semPosting"}
Taking    == {t \in Thread : pc[t] = "semWaiting"}

\* The places of the threads that are counted.
BarrierPC == {"barEnter", "barrier", "barrierOpen"}
SemPC     == {"semPosting", "semWaiting"}

\* A step of another part of the program changes neither count and moves no
\* thread in or out of what is counted.
LEMMA OutsideCounts ==
  ASSUME TypeOK, CallInv, NEW t \in Thread,
         Access(t) \/ Threads(t) \/ Mutexes(t) \/ Rwlocks(t) \/ Conds(t)
  PROVE  /\ UNCHANGED <<barrierRef, realArrived, semCount, realSem>>
         /\ \A u \in Thread : /\ pc[u] \in BarrierPC \cup SemPC \/ pc'[u] \in BarrierPC \cup SemPC
                                 => pc'[u] = pc[u]
  <1>1. pc \in [Thread -> PC] BY DEF TypeOK
  <1>2. CASE Access(t)
    BY <1>1, <1>2, AccessFrame DEF NoCall, RegionPC, PpPC, BarrierPC, SemPC
  <1>3. CASE Threads(t)
    BY <1>1, <1>3 DEF Threads, Create, ThreadStart, ThreadExit, BeforePthreadJoin,
       RealJoin, AfterPthreadJoin, CallInv, BarrierPC, SemPC
  <1>4. CASE Mutexes(t)
    BY <1>1, <1>4 DEF Mutexes, BeforePthreadMutexLock, RealMutexLock,
       AfterPthreadMutexLock, RealMutexUnlock, AfterPthreadMutexUnlock,
       BeforePthreadMutexTryLock, RealMutexTryLock, AfterTryFailed, BarrierPC, SemPC
  <1>5. CASE Rwlocks(t)
    BY <1>1, <1>5 DEF Rwlocks, BeforePthreadRwlockRdlock, RealRwlockRdlock,
       AfterPthreadRwlockRdlock, BeforePthreadRwlockWrlock, RealRwlockWrlock,
       AfterPthreadRwlockWrlock, RealRwlockTryFail, RealRwlockUnlock,
       AfterPthreadRwlockUnlock, BarrierPC, SemPC
  <1>6. CASE Conds(t)
    BY <1>1, <1>6 DEF Conds, BeforePthreadCondWait, RealCondWait, RealCondSignal,
       RealCondReturn, AfterPthreadCondWait, BarrierPC, SemPC
  <1> QED BY <1>2, <1>3, <1>4, <1>5, <1>6

\* The sets that are counted are finite; one more or one less thread is one
\* more or one less.
LEMMA CountOne ==
  ASSUME NEW S, NEW T, S \subseteq Thread, NEW t \in Thread
  PROVE  /\ Cardinality(S) \in Nat
         /\ t \notin S /\ T = S \cup {t} => Cardinality(T) = Cardinality(S) + 1
         /\ t \in S /\ T = S \ {t} => Cardinality(T) = Cardinality(S) - 1
  <1>1. IsFiniteSet(S) BY FiniteAssumption, FS_Subset
  <1>2. Cardinality(S) \in Nat BY <1>1, FS_CardinalityType
  <1>3. t \notin S => Cardinality(S \cup {t}) = Cardinality(S) + 1
    BY <1>1, FS_AddElement
  <1>4. t \in S => Cardinality(S \ {t}) = Cardinality(S) - 1
    BY <1>1, FS_RemoveElement
  <1> QED BY <1>2, <1>3, <1>4

\* A step keeps the count of the barrier.
LEMMA BarrierRefStep ==
  ASSUME TypeOK, CallInv, BarrierRefInv, NEW t \in Thread, Step(t)
  PROVE  BarrierRefInv'
  <1>1. pc \in [Thread -> PC] /\ realArrived \subseteq Thread /\ barrierRef \in Nat
    BY DEF TypeOK
  <1>2. BarrierRefInv <=> barrierRef = Cardinality(InBarrier) % 256
    BY DEF BarrierRefInv, InBarrier
  <1>3. BarrierRefInv' <=> barrierRef' = Cardinality(InBarrier') % 256
    BY DEF BarrierRefInv, InBarrier
  <1>4. Cardinality(InBarrier) \in Nat
    BY CountOne DEF InBarrier
  <1>5. ASSUME barrierRef' = barrierRef, InBarrier' = InBarrier PROVE BarrierRefInv'
    BY <1>2, <1>3, <1>5
  <1>6. CASE Access(t) \/ Threads(t) \/ Mutexes(t) \/ Rwlocks(t) \/ Conds(t)
    BY <1>5, <1>6, OutsideCounts DEF InBarrier, BarrierPC
  <1>7. CASE Sems(t)
    <2>1. barrierRef' = barrierRef
      BY <1>7 DEF Sems, BeforeSemPost, RealSemPost, BeforeSemWait, RealSemWait, AfterSemWait
    <2>2. InBarrier' = InBarrier
      BY <1>1, <1>7, SemsFrame DEF InBarrier
    <2> QED BY <2>1, <2>2, <1>5
  <1>8. CASE BeforePthreadBarrierWait(t)
    <2>1. t \notin InBarrier /\ InBarrier' = InBarrier \cup {t}
      BY <1>1, <1>8 DEF BeforePthreadBarrierWait, InBarrier
    <2>2. Cardinality(InBarrier') = Cardinality(InBarrier) + 1
      BY <2>1, CountOne DEF InBarrier
    <2>3. barrierRef' = (barrierRef + 1) % 256
      BY <1>8 DEF BeforePthreadBarrierWait
    <2> QED BY <2>2, <2>3, <1>2, <1>3, <1>4
  <1>9. CASE RealBarrierWait(t)
    <2>1. barrierRef' = barrierRef
      BY <1>9 DEF RealBarrierWait
    <2>2. InBarrier' = InBarrier
      BY <1>1, <1>9 DEF RealBarrierWait, InBarrier, CallInv
    <2> QED BY <2>1, <2>2, <1>5
  <1>10. CASE AfterPthreadBarrierWait(t)
    <2>1. t \in InBarrier /\ InBarrier' = InBarrier \ {t}
      BY <1>1, <1>10 DEF AfterPthreadBarrierWait, InBarrier
    <2>2. Cardinality(InBarrier') = Cardinality(InBarrier) - 1 /\ Cardinality(InBarrier') \in Nat
      BY <2>1, CountOne DEF InBarrier
    <2>3. barrierRef' = (barrierRef + 255) % 256
      BY <1>10 DEF AfterPthreadBarrierWait
    <2> QED BY <2>2, <2>3, <1>2, <1>3, <1>4
  <1> QED BY <1>6, <1>7, <1>8, <1>9, <1>10 DEF Step, Barriers

\* Counting up or down and wrapping round commute.
LEMMA Wrapping ==
  ASSUME NEW n \in Int
  PROVE  Int8(Int8(n) + 1) = Int8(n + 1) /\ Int8(Int8(n) - 1) = Int8(n - 1)
  BY DEF Int8

\* A step keeps the count of the semaphore.
LEMMA SemCountStep ==
  ASSUME TypeOK, CallInv, SemCountInv, NEW t \in Thread, Step(t)
  PROVE  SemCountInv'
  <1> DEFINE n == realSem + Cardinality(Posting) - Cardinality(Taking)
  <1>1. pc \in [Thread -> PC] /\ realArrived \subseteq Thread /\ realSem \in Nat
    BY DEF TypeOK
  <1>2. semCount = Int8(n)
    BY DEF SemCountInv, Posting, Taking
  <1>3. SemCountInv' <=> semCount' = Int8(n')
    BY DEF SemCountInv, Posting, Taking
  <1>4. Cardinality(Posting) \in Nat /\ Cardinality(Taking) \in Nat
    BY CountOne DEF Posting, Taking
  <1>5. n \in Int
    BY <1>1, <1>4
  <1>6. ASSUME semCount' = semCount, realSem' = realSem, Posting' = Posting,
               Taking' = Taking
        PROVE  SemCountInv'
    BY <1>2, <1>3, <1>6
  <1>7. CASE Access(t) \/ Threads(t) \/ Mutexes(t) \/ Rwlocks(t) \/ Conds(t)
    BY <1>6, <1>7, OutsideCounts DEF Posting, Taking, SemPC
  <1>8. CASE Barriers(t)
    <2>1. semCount' = semCount /\ realSem' = realSem
      BY <1>8 DEF Barriers, BeforePthreadBarrierWait, RealBarrierWait, AfterPthreadBarrierWait
    <2>2. Posting' = Posting /\ Taking' = Taking
      BY <1>1, <1>8 DEF Barriers, BeforePthreadBarrierWait, RealBarrierWait,
         AfterPthreadBarrierWait, Posting, Taking, CallInv
    <2> QED BY <2>1, <2>2, <1>6
  <1>9. CASE BeforeSemPost(t)
    <2>1. /\ t \notin Posting /\ Posting' = Posting \cup {t} /\ Taking' = Taking
          /\ realSem' = realSem /\ semCount' = Int8(semCount + 1)
      BY <1>1, <1>9 DEF BeforeSemPost, Posting, Taking
    <2>2. Cardinality(Posting') = Cardinality(Posting) + 1
      BY <2>1, CountOne DEF Posting
    <2>3. n' = n + 1
      BY <2>1, <2>2, <1>1, <1>4
    <2> HIDE DEF n
    <2> QED BY <2>1, <2>3, <1>2, <1>3, <1>5, Wrapping
  <1>10. CASE RealSemPost(t)
    <2>1. /\ t \in Posting /\ Posting' = Posting \ {t} /\ Taking' = Taking
          /\ realSem' = realSem + 1 /\ semCount' = semCount
      BY <1>1, <1>10 DEF RealSemPost, Posting, Taking
    <2>2. Cardinality(Posting') = Cardinality(Posting) - 1
      BY <2>1, CountOne DEF Posting
    <2>3. n' = n
      BY <2>1, <2>2, <1>1, <1>4
    <2> HIDE DEF n
    <2> QED BY <2>1, <2>3, <1>2, <1>3
  <1>11. CASE BeforeSemWait(t)
    <2>1. /\ t \notin Taking /\ Taking' = Taking \cup {t} /\ Posting' = Posting
          /\ realSem' = realSem /\ semCount' = Int8(semCount - 1)
      BY <1>1, <1>11 DEF BeforeSemWait, Posting, Taking
    <2>2. Cardinality(Taking') = Cardinality(Taking) + 1
      BY <2>1, CountOne DEF Taking
    <2>3. n' = n - 1
      BY <2>1, <2>2, <1>1, <1>4
    <2> HIDE DEF n
    <2> QED BY <2>1, <2>3, <1>2, <1>3, <1>5, Wrapping
  <1>12. CASE RealSemWait(t)
    <2>1. /\ t \in Taking /\ Taking' = Taking \ {t} /\ Posting' = Posting
          /\ realSem' = realSem - 1 /\ semCount' = semCount
      BY <1>1, <1>12 DEF RealSemWait, Posting, Taking
    <2>2. Cardinality(Taking') = Cardinality(Taking) - 1
      BY <2>1, CountOne DEF Taking
    <2>3. n' = n
      BY <2>1, <2>2, <1>1, <1>4
    <2> HIDE DEF n
    <2> QED BY <2>1, <2>3, <1>2, <1>3
  <1>13. CASE AfterSemWait(t)
    <2>1. semCount' = semCount /\ realSem' = realSem
      BY <1>13 DEF AfterSemWait
    <2>2. Posting' = Posting /\ Taking' = Taking
      BY <1>1, <1>13 DEF AfterSemWait, Posting, Taking
    <2> QED BY <2>1, <2>2, <1>6
  <1> HIDE DEF n
  <1> QED BY <1>7, <1>8, <1>9, <1>10, <1>11, <1>12, <1>13 DEF Step, Sems

\* Initially nobody is in the barrier and nobody uses the semaphore.
LEMMA InitCounts == Init => CountsSound
  <1> SUFFICES ASSUME Init PROVE CountsSound
    OBVIOUS
  <1>1. InBarrier = {} /\ Posting = {} /\ Taking = {}
    BY DEF Init, InBarrier, Posting, Taking
  <1>2. Cardinality(InBarrier) = 0 /\ Cardinality(Posting) = 0 /\ Cardinality(Taking) = 0
    BY <1>1, FS_EmptySet
  <1>3. barrierRef = 0 /\ semCount = 0 /\ realSem = 0
    BY DEF Init
  <1> QED BY <1>2, <1>3 DEF CountsSound, BarrierRefInv, SemCountInv, InBarrier, Posting,
      Taking, Int8

\* Every step, and the stutter of a program that is over, keeps both counts.
LEMMA NextCounts == IInv /\ CountsSound /\ [Next]_vars => CountsSound'
  <1> SUFFICES ASSUME IInv, CountsSound, [Next]_vars PROVE CountsSound'
    OBVIOUS
  <1>1. ASSUME NEW t \in Thread, Step(t) PROVE CountsSound'
    BY <1>1, BarrierRefStep, SemCountStep DEF IInv, CountsSound
  <1>2. CASE UNCHANGED vars
    BY <1>2 DEF vars, CountsSound, BarrierRefInv, SemCountInv
  <1> QED BY <1>1, <1>2 DEF Next

\* The verifier's counts of a barrier and of a semaphore say what pthread does,
\* modulo the eight bits they have.
THEOREM CountsCorrect == Spec => []CountsSound
  BY Inductive, InitCounts, NextCounts, PTL DEF Spec

-----------------------------------------------------------------------------
(* Somebody is released.                                                    *)

\* The threads pthread counts in the barrier wait in it, and are too few to
\* open it.
BarrierWaiters ==
  /\ realArrived = {t \in Thread : pc[t] = "barrier"}
  /\ Cardinality(realArrived) < BarrierCount

\* Whoever holds a lock has started and has not exited.
LiveHolders ==
  /\ \A m \in Mutex : realHolder[m] # NoThread => pc[realHolder[m]] \notin GonePC
  /\ realWriter # NoThread => pc[realWriter] \notin GonePC
  /\ \A t \in realReaders : pc[t] \notin GonePC

\* A blocked thread that gets on by itself, or that the code does not help.  A
\* thread about to wait on a condition is not among them: it is Returning, but
\* goes to sleep before it does.
Helped(t) == (Returning(t) /\ pc[t] # "condEnter") \/ Unhelped(t)

Releasing ==
  \/ \E t \in pp : permits[t] > 0 \/ pc[t] = "woken"
  \/ \E t \in blk : Helped(t)
  \/ \E t \in Thread : pc[t] = "starting"

\* SomeoneReleased, made inductive.
Released == avail = {} /\ pp # {} => Releasing

ReleaseIInv == IInv /\ CountsSound /\ BarrierWaiters /\ LiveHolders /\ Released

\* A step keeps the barrier's waiters too few.
LEMMA BarrierWaitersStep ==
  ASSUME TypeOK, CallInv, BarrierWaiters, NEW t \in Thread, Step(t)
  PROVE  BarrierWaiters'
  <1> USE BarrierAssumption
  <1>1. pc \in [Thread -> PC] /\ realArrived \subseteq Thread BY DEF TypeOK
  <1>2. ASSUME realArrived' = realArrived,
               \A u \in Thread : pc'[u] = "barrier" <=> pc[u] = "barrier"
        PROVE  BarrierWaiters'
    BY <1>2 DEF BarrierWaiters
  <1>3. CASE Access(t) \/ Threads(t) \/ Mutexes(t) \/ Rwlocks(t) \/ Conds(t)
    BY <1>2, <1>3, OutsideCounts DEF BarrierPC
  <1>4. CASE Sems(t)
    BY <1>1, <1>2, <1>4, SemsFrame
  <1>5. CASE BeforePthreadBarrierWait(t) \/ AfterPthreadBarrierWait(t)
    BY <1>1, <1>2, <1>5 DEF BeforePthreadBarrierWait, AfterPthreadBarrierWait
  <1>6. CASE RealBarrierWait(t)
    <2>1. t \notin realArrived
      BY <1>6 DEF RealBarrierWait, BarrierWaiters
    <2>2. Cardinality(realArrived \cup {t}) = Cardinality(realArrived) + 1
          /\ Cardinality(realArrived) \in Nat
      BY <1>1, <2>1, CountOne
    <2>3. CASE Cardinality(realArrived \cup {t}) = BarrierCount
      <3>1. realArrived' = {} /\ {u \in Thread : pc'[u] = "barrier"} = {}
        BY <1>1, <1>6, <2>3 DEF RealBarrierWait, BarrierWaiters
      <3> QED BY <3>1, FS_EmptySet DEF BarrierWaiters
    <2>4. CASE Cardinality(realArrived \cup {t}) # BarrierCount
      <3>1. realArrived' = realArrived \cup {t} /\ pc' = [pc EXCEPT ![t] = "barrier"]
        BY <1>6, <2>4 DEF RealBarrierWait
      <3>2. realArrived' = {u \in Thread : pc'[u] = "barrier"}
        BY <3>1, <1>1 DEF BarrierWaiters
      <3>3. Cardinality(realArrived') < BarrierCount
        BY <3>1, <2>2, <2>4 DEF BarrierWaiters
      <3> QED BY <3>2, <3>3 DEF BarrierWaiters
    <2> QED BY <2>3, <2>4
  <1> QED BY <1>3, <1>4, <1>5, <1>6 DEF Step, Barriers

\* A thread does not exit with a lock, and takes one only when it has started.
LEMMA LiveHoldersStep ==
  ASSUME TypeOK, CallInv, LiveHolders, NEW t \in Thread, Step(t)
  PROVE  LiveHolders'
  <1> USE NullAssumption
  <1>1. pc \in [Thread -> PC] /\ realArrived \subseteq Thread BY DEF TypeOK
  <1>2. CASE Access(t)
    BY <1>1, <1>2, AccessFrame DEF NoCall, RegionPC, PpPC, GonePC, TypeOK, LiveHolders
  <1>3. CASE Threads(t)
    BY <1>1, <1>3 DEF Threads, Create, ThreadStart, ThreadExit, BeforePthreadJoin,
       RealJoin, AfterPthreadJoin, TypeOK, CallInv, LiveHolders, GonePC
  <1>4. CASE Mutexes(t)
    BY <1>1, <1>4 DEF Mutexes, BeforePthreadMutexLock, RealMutexLock,
       AfterPthreadMutexLock, RealMutexUnlock, AfterPthreadMutexUnlock,
       BeforePthreadMutexTryLock, RealMutexTryLock, AfterTryFailed, TypeOK, CallInv,
       LiveHolders, GonePC
  <1>5. CASE Rwlocks(t)
    BY <1>1, <1>5 DEF Rwlocks, BeforePthreadRwlockRdlock, RealRwlockRdlock,
       AfterPthreadRwlockRdlock, BeforePthreadRwlockWrlock, RealRwlockWrlock,
       AfterPthreadRwlockWrlock, RealRwlockTryFail, RealRwlockUnlock,
       AfterPthreadRwlockUnlock, TypeOK, LiveHolders, GonePC
  <1>6. CASE Barriers(t)
    BY <1>1, <1>6 DEF Barriers, BeforePthreadBarrierWait, RealBarrierWait,
       AfterPthreadBarrierWait, TypeOK, CallInv, LiveHolders, GonePC
  <1>7. CASE Conds(t)
    BY <1>1, <1>7 DEF Conds, BeforePthreadCondWait, RealCondWait, RealCondSignal,
       RealCondReturn, AfterPthreadCondWait, TypeOK, CallInv, LiveHolders, GonePC
  <1>8. CASE Sems(t)
    BY <1>1, <1>8, SemsFrame DEF TypeOK, LiveHolders, GonePC
  <1> QED BY <1>2, <1>3, <1>4, <1>5, <1>6, <1>7, <1>8 DEF Step

\* Where a thread that is not available, not postponed and holds a lock can be.
LEMMA HolderBlocked ==
  ASSUME TypeOK, ThreadSets, NEW h \in Thread, pc[h] \notin GonePC
  PROVE  h \in avail \/ h \in pp \/ h \in blk
  BY DEF TypeOK, ThreadSets, PC

\* Choosing among the postponed threads releases one.
LEMMA ChoiceReleases ==
  ASSUME permits \in [Thread -> Nat], NEW S, S \subseteq Thread, S # {}, pp' = S,
         ChooseRandomThreadAfterAllUnavailable(S)
  PROVE  Releasing'
  <1>1. PICK u \in S : permits' = [permits EXCEPT ![u] = @ + 1]
    OBVIOUS
  <1>2. permits'[u] > 0
    BY <1>1
  <1> QED BY <1>2 DEF Releasing

\* A call that takes the last available thread away wakes a postponed thread,
\* unless the caller itself will be back, or is one the code does not help.
LEMMA BeforeCallReleases ==
  ASSUME ThreadInv, CountsSound, LiveHolders, TypeOK', ThreadSets', CountsSound',
         Cardinality(Thread) <= 128, BarrierCount < 256, NEW t \in Thread,
         \/ \E c \in Thread : BeforePthreadJoin(t, c)
         \/ \E m \in Mutex : \/ BeforePthreadMutexLock(t, m)
                            \/ BeforePthreadMutexTryLock(t, m)
                            \/ BeforePthreadCondWait(t, m)
         \/ \E there \in {"rdLocking", "rdTrying"} : BeforePthreadRwlockRdlock(t, there)
         \/ \E there \in {"wrLocking", "wrTrying"} : BeforePthreadRwlockWrlock(t, there)
         \/ BeforePthreadBarrierWait(t) \/ BeforeSemWait(t),
         avail' = {}, pp' # {}
  PROVE  Releasing'
  <1> USE NullAssumption, BarrierAssumption
  <1>1. /\ pc \in [Thread -> PC] /\ permits \in [Thread -> Nat] /\ pp \subseteq Thread
        /\ arg \in [Thread -> Mutex \cup Thread \cup {NoArg}]
        /\ owner \in [Mutex -> Thread \cup {NoThread}]
        /\ realHolder \in [Mutex -> Thread \cup {NoThread}]
        /\ wrOwner \in Thread \cup {NoThread} /\ realWriter \in Thread \cup {NoThread}
        /\ rdOwners \subseteq Thread /\ realReaders \subseteq Thread
    BY DEF ThreadInv, TypeOK
  <1>2. ASSUME BlockAndChoose(t, TRUE) PROVE Releasing'
    <2>1. avail' = avail \ {t} /\ pp' = pp /\ pp # {}
      BY <1>2
    <2>2. ChooseRandomThreadAfterAllUnavailable(pp)
      BY <1>2, <2>1
    <2> QED BY <2>1, <2>2, <1>1, ChoiceReleases
  <1>3. \A h \in Thread : pc[h] \notin GonePC => h \in avail \/ h \in pp \/ h \in blk
    BY HolderBlocked DEF ThreadInv
  <1>4. ASSUME NEW u, BlockAndWakeOwner(t, u), u \in pp, u # t PROVE Releasing'
    <2>1. avail' = avail \ {t} /\ pp' = pp
      BY <1>4
    <2>2. u \in Thread /\ u # NoThread
      BY <1>1, <1>4
    <2>3. permits' = [permits EXCEPT ![u] = @ + 1]
      BY <1>4, <2>1, <2>2
    <2>4. permits'[u] > 0
      BY <2>2, <2>3, <1>1
    <2> QED BY <1>4, <2>1, <2>4 DEF Releasing
  <1>5. CASE \E c \in Thread : BeforePthreadJoin(t, c)
    BY <1>2, <1>5 DEF BeforePthreadJoin
  <1>6. CASE \E m \in Mutex : BeforePthreadCondWait(t, m)
    BY <1>2, <1>6 DEF BeforePthreadCondWait
  <1>7. ASSUME NEW m \in Mutex, BeforePthreadMutexLock(t, m) PROVE Releasing'
    <2>1. /\ pc'[t] = "locking" /\ arg'[t] = m /\ owner' = owner /\ realHolder' = realHolder
          /\ t \in blk' /\ blk \subseteq blk' /\ avail' = avail \ {t}
      BY <1>1, <1>7 DEF BeforePthreadMutexLock
    <2>2. CASE realHolder[m] = NoThread
      BY <2>1, <2>2 DEF Releasing, Helped, Returning
    <2>3. CASE realHolder[m] \in blk \/ owner[m] # realHolder[m]
      BY <2>1, <2>3 DEF Releasing, Helped, Unhelped
    <2>4. CASE realHolder[m] # NoThread /\ realHolder[m] \notin blk /\ owner[m] = realHolder[m]
      <3>1. realHolder[m] \in Thread /\ realHolder[m] # t
        BY <1>1, <1>7, <2>4 DEF BeforePthreadMutexLock
      <3>2. owner[m] \in pp /\ owner[m] # t
        BY <3>1, <2>1, <2>4, <1>3 DEF LiveHolders
      <3> QED BY <3>2, <1>4, <1>7 DEF BeforePthreadMutexLock
    <2> QED BY <2>2, <2>3, <2>4
  <1>8. ASSUME NEW m \in Mutex, BeforePthreadMutexTryLock(t, m) PROVE Releasing'
    <2>1. pc'[t] = "trying" /\ t \in blk'
      BY <1>1, <1>8 DEF BeforePthreadMutexTryLock
    <2> QED BY <2>1 DEF Releasing, Helped, Returning
  <1>9. CASE BeforePthreadRwlockRdlock(t, "rdTrying") \/ BeforePthreadRwlockWrlock(t, "wrTrying")
    <2>1. pc'[t] \in {"rdTrying", "wrTrying"} /\ t \in blk'
      BY <1>1, <1>9 DEF BeforePthreadRwlockRdlock, BeforePthreadRwlockWrlock
    <2> QED BY <2>1 DEF Releasing, Helped, Returning
  <1>10. CASE BeforePthreadRwlockRdlock(t, "rdLocking")
    <2>1. /\ pc'[t] = "rdLocking" /\ wrOwner' = wrOwner /\ realWriter' = realWriter
          /\ t \in blk' /\ blk \subseteq blk' /\ avail' = avail \ {t}
      BY <1>1, <1>10 DEF BeforePthreadRwlockRdlock
    <2>2. CASE realWriter = NoThread
      BY <2>1, <2>2 DEF Releasing, Helped, Returning
    <2>3. CASE realWriter \in blk \/ wrOwner # realWriter
      BY <2>1, <2>3 DEF Releasing, Helped, Unhelped
    <2>4. CASE realWriter # NoThread /\ realWriter \notin blk /\ wrOwner = realWriter
      <3>1. realWriter \in Thread /\ realWriter # t
        BY <1>1, <1>10, <2>4 DEF BeforePthreadRwlockRdlock
      <3>2. wrOwner \in pp /\ wrOwner # t
        BY <3>1, <2>1, <2>4, <1>3 DEF LiveHolders
      <3> QED BY <3>2, <1>4, <1>10 DEF BeforePthreadRwlockRdlock
    <2> QED BY <2>2, <2>3, <2>4
  <1>11. CASE BeforePthreadRwlockWrlock(t, "wrLocking")
    <2>1. /\ pc'[t] = "wrLocking" /\ rdOwners' = rdOwners /\ realWriter' = realWriter
          /\ realReaders' = realReaders
          /\ t \in blk' /\ blk' = blk \cup {t} /\ avail' = avail \ {t} /\ pp' = pp
      BY <1>1, <1>11 DEF BeforePthreadRwlockWrlock
    <2>2. CASE realWriter # NoThread \/ ~ realReaders \subseteq rdOwners \ blk'
      BY <2>1, <2>2 DEF Releasing, Helped, Unhelped
    <2>3. CASE realWriter = NoThread /\ realReaders = {}
      BY <2>1, <2>3 DEF Releasing, Helped, Returning
    <2>4. ASSUME NEW r \in realReaders, realReaders \subseteq rdOwners \ blk' PROVE Releasing'
      <3>1. r \in Thread /\ r # t /\ r \notin blk /\ r \in rdOwners /\ pc[r] \notin GonePC
        BY <1>1, <2>1, <2>4 DEF LiveHolders
      <3>2. r \in pp
        BY <3>1, <2>1, <1>3
      <3>3. permits' = [u \in Thread |-> permits[u] + (IF u \in rdOwners THEN 1 ELSE 0)]
        BY <1>11, <2>1 DEF BeforePthreadRwlockWrlock
      <3>4. permits'[r] = permits[r] + 1 /\ permits[r] \in Nat
        BY <3>1, <3>3, <1>1
      <3> QED BY <3>2, <3>4, <2>1 DEF Releasing
    <2> QED BY <2>2, <2>3, <2>4
  <1>12. CASE BeforePthreadBarrierWait(t)
    <2> DEFINE still == {u \in Thread : pc'[u] \in {"barEnter", "barrier"}}
    <2>1. pc'[t] = "barEnter" /\ t \in blk' /\ t \in InBarrier'
      BY <1>1, <1>12 DEF BeforePthreadBarrierWait, InBarrier
    <2>2. BlockAndChoose(t, barrierRef' # BarrierCount % 256)
      BY <1>12 DEF BeforePthreadBarrierWait
    <2>3. CASE barrierRef' # BarrierCount % 256
      BY <1>2, <2>2, <2>3
    <2>4. CASE barrierRef' = BarrierCount % 256
      <3>1. Cardinality(InBarrier') \in Nat /\ Cardinality(InBarrier') <= Cardinality(Thread)
            /\ Cardinality(Thread) \in Nat
        BY FiniteAssumption, FS_Subset, FS_CardinalityType DEF InBarrier
      <3>2. barrierRef' = Cardinality(InBarrier') % 256
        BY DEF CountsSound, BarrierRefInv, InBarrier
      <3>3. Cardinality(InBarrier') = BarrierCount
        BY <3>1, <3>2, <2>4
      <3>4. CASE \E u \in Thread : pc'[u] = "barrierOpen"
        <4>1. PICK u \in Thread : pc'[u] = "barrierOpen"
          BY <3>4
        <4>2. u \in blk'
          BY <4>1 DEF ThreadSets, BlkPC
        <4> QED BY <4>1, <4>2 DEF Releasing, Helped, Returning
      <3>5. CASE ~ \E u \in Thread : pc'[u] = "barrierOpen"
        <4>1. still = InBarrier'
          BY <3>5 DEF InBarrier
        <4>2. Cardinality(still) >= BarrierCount
          BY <4>1, <3>3
        <4> QED BY <4>2, <2>1 DEF Releasing, Helped, Returning
      <3> QED BY <3>4, <3>5
    <2> QED BY <2>3, <2>4
  <1>13. CASE BeforeSemWait(t)
    <2>1. pc'[t] = "semWaiting" /\ t \in blk' /\ t \in Taking'
      BY <1>1, <1>13 DEF BeforeSemWait, Taking
    <2>2. BlockAndChoose(t, semCount' < 0)
      BY <1>13 DEF BeforeSemWait
    <2>3. CASE semCount' < 0
      BY <1>2, <2>2, <2>3
    <2>4. CASE ~ (semCount' < 0)
      <3>1. Posting' = {}
        BY DEF Posting, ThreadSets, AvailPC
      <3>2. Cardinality(Posting') = 0
        BY <3>1, FS_EmptySet
      <3>3. /\ Cardinality(Taking') \in Nat /\ Cardinality(Taking') <= Cardinality(Thread)
            /\ Cardinality(Thread) \in Nat
        BY FiniteAssumption, FS_Subset, FS_CardinalityType DEF Taking
      <3>4. Cardinality(Taking') # 0
        <4>1. IsFiniteSet(Taking')
          BY FiniteAssumption, FS_Subset DEF Taking
        <4> QED BY <4>1, <2>1, FS_EmptySet
      <3>5. semCount' = Int8(realSem' - Cardinality(Taking'))
        <4>1. semCount' = Int8(realSem' + Cardinality(Posting') - Cardinality(Taking'))
          BY DEF CountsSound, SemCountInv, Posting, Taking
        <4>2. realSem' \in Nat
          BY DEF TypeOK
        <4> QED BY <4>1, <4>2, <3>2, <3>3
      <3>6. realSem' \in Nat
        BY DEF TypeOK
      <3>7. realSem' > 0
        BY <3>3, <3>4, <3>5, <3>6, <2>4 DEF Int8
      <3> QED BY <3>7, <2>1 DEF Releasing, Helped, Returning
    <2> QED BY <2>3, <2>4
  <1> QED BY <1>5, <1>6, <1>7, <1>8, <1>9, <1>10, <1>11, <1>12, <1>13

\* While only postponed and blocked threads are left, a thread that goes to
\* sleep inside pthread leaves somebody who does not.
LEMMA SleepReleases ==
  ASSUME ThreadInv, BarrierWaiters, BarrierWaiters', Released, NEW t \in Thread,
         \/ RealCondWait(t)
         \/ RealBarrierWait(t) /\ Cardinality(realArrived \cup {t}) # BarrierCount,
         avail' = {}, pp' # {}
  PROVE  Releasing'
  <1> USE NullAssumption, BarrierAssumption
  <1>1. /\ pc \in [Thread -> PC] /\ blk \subseteq Thread /\ pp \subseteq Thread
        /\ arg \in [Thread -> Mutex \cup Thread \cup {NoArg}]
        /\ realHolder \in [Mutex -> Thread \cup {NoThread}]
    BY DEF ThreadInv, TypeOK
  <1>2. UNCHANGED <<arg, avail, pp, blk, permits, owner, wrOwner, rdOwners, realWriter,
                    realReaders, realSem>>
    BY DEF RealCondWait, RealBarrierWait
  <1>3. Releasing
    BY <1>2 DEF Released
  <1>4. pc[t] \in {"condEnter", "barEnter"} /\ \E there \in {"condWait", "barrier"} : Goto(t, there)
    BY DEF RealCondWait, RealBarrierWait
  <1>5. \A u \in Thread \ {t} : pc'[u] = pc[u]
    BY <1>1, <1>4
  <1>6. CASE \E u \in pp : permits[u] > 0 \/ pc[u] = "woken"
    BY <1>1, <1>2, <1>4, <1>5, <1>6 DEF Releasing
  <1>7. CASE \E u \in Thread : pc[u] = "starting"
    BY <1>4, <1>5, <1>7 DEF Releasing
  <1>8. ASSUME NEW w \in blk, Helped(w) PROVE Releasing'
    <2>1. w \in Thread /\ w \in blk'
      BY <1>1, <1>2
    <2>2. CASE RealCondWait(t)
      <3>1. /\ arg[t] \in Mutex /\ realHolder[arg[t]] = t
            /\ realHolder' = [realHolder EXCEPT ![arg[t]] = NoThread]
        BY <2>2 DEF RealCondWait, ThreadInv, CallInv
      <3>2. w # t
        BY <1>8, <2>2 DEF RealCondWait, Helped, Returning, Unhelped
      <3>3. pc'[w] = pc[w] /\ arg'[w] = arg[w]
        BY <2>1, <3>2, <1>2, <1>5
      <3>4. pc[w] = "locking" => arg[w] \in Mutex
        BY <2>1 DEF ThreadInv, CallInv
      <3>5. pc[w] = "condWoken" => arg[w] \in Mutex
        BY <2>1 DEF ThreadInv, CallInv
      <3>6. pc[w] = "joining" => arg[w] \in Thread
        BY <2>1 DEF ThreadInv, CallInv
      <3>7. {u \in Thread : pc'[u] \in {"barEnter", "barrier"}}
              = {u \in Thread : pc[u] \in {"barEnter", "barrier"}}
        BY <1>1, <2>2 DEF RealCondWait
      <3>8. CASE pc[w] = "locking"
        BY <1>1, <1>2, <1>8, <2>1, <3>1, <3>3, <3>4, <3>8 DEF Releasing, Helped, Returning, Unhelped
      <3>9. CASE pc[w] = "condWoken"
        BY <1>1, <1>2, <1>8, <2>1, <3>1, <3>3, <3>5, <3>9 DEF Releasing, Helped, Returning, Unhelped
      <3>10. CASE pc[w] = "joining"
        <4>1. pc[arg[w]] = "exited"
          BY <1>8, <3>10 DEF Helped, Returning, Unhelped
        <4>2. pc'[arg[w]] = "exited"
          BY <4>1, <3>6, <3>10, <1>4, <1>5
        <4> QED BY <4>2, <2>1, <3>3, <3>10 DEF Releasing, Helped, Returning
      <3>11. CASE pc[w] = "barEnter"
        BY <1>8, <2>1, <3>3, <3>7, <3>11 DEF Releasing, Helped, Returning, Unhelped
      <3>12. CASE pc[w] \notin {"locking", "condWoken", "joining", "barEnter"}
        BY <1>2, <1>8, <2>1, <3>3, <3>12 DEF Releasing, Helped, Returning, Unhelped
      <3> QED BY <3>8, <3>9, <3>10, <3>11, <3>12
    <2>3. CASE RealBarrierWait(t) /\ Cardinality(realArrived \cup {t}) # BarrierCount
      <3>1. /\ pc[t] = "barEnter" /\ pc' = [pc EXCEPT ![t] = "barrier"]
            /\ realHolder' = realHolder
        BY <2>3 DEF RealBarrierWait
      <3>2. {u \in Thread : pc'[u] \in {"barEnter", "barrier"}}
              = {u \in Thread : pc[u] \in {"barEnter", "barrier"}}
        BY <1>1, <3>1
      <3>3. CASE pc[w] = "barEnter"
        <4> DEFINE entered == {u \in Thread : pc[u] \in {"barEnter", "barrier"}}
        <4>1. Cardinality(entered) >= BarrierCount
          BY <1>8, <3>3 DEF Helped, Returning, Unhelped
        <4>2. Cardinality(realArrived') < BarrierCount
          BY DEF BarrierWaiters
        <4>3. entered # realArrived'
          <5>1. Cardinality(entered) \in Nat
            BY CountOne
          <5>2. Cardinality(realArrived') \in Nat
            BY CountOne DEF BarrierWaiters
          <5> HIDE DEF entered
          <5> QED BY <5>1, <5>2, <4>1, <4>2
        <4>4. PICK u \in Thread : pc'[u] = "barEnter"
          BY <4>3, <3>2 DEF BarrierWaiters
        <4>5. u # t /\ u \in blk'
          BY <1>1, <1>2, <1>5, <3>1, <4>4 DEF ThreadInv, ThreadSets, BlkPC
        <4>6. Cardinality({v \in Thread : pc'[v] \in {"barEnter", "barrier"}}) >= BarrierCount
          BY <3>2, <4>1
        <4> QED BY <4>4, <4>5, <4>6 DEF Releasing, Helped, Returning
      <3>4. CASE pc[w] # "barEnter"
        <4>1. w # t /\ pc'[w] = pc[w] /\ arg'[w] = arg[w]
          BY <2>1, <3>1, <3>4, <1>2, <1>5
        <4>2. CASE pc[w] = "joining"
          <5>1. pc[arg[w]] = "exited" /\ arg[w] \in Thread
            BY <1>8, <2>1, <4>2 DEF Helped, Returning, Unhelped, ThreadInv, CallInv
          <5>2. pc'[arg[w]] = "exited"
            BY <5>1, <3>1, <1>5
          <5> QED BY <5>2, <2>1, <4>1, <4>2 DEF Releasing, Helped, Returning
        <4>3. CASE pc[w] # "joining"
          BY <1>2, <1>8, <2>1, <3>1, <3>4, <4>1, <4>3 DEF Releasing, Helped, Returning, Unhelped
        <4> QED BY <4>2, <4>3
      <3> QED BY <3>3, <3>4
    <2> QED BY <2>2, <2>3
  <1> QED BY <1>3, <1>6, <1>7, <1>8 DEF Releasing

\* The thread that moves ends where the verifier counts it as available.
Available(t) == \E there \in AvailPC : pc'[t] = there

\* It ends inside a blocking call, on its way back, or woken from its wait.
Coming(t) ==
  pc'[t] \in {"locked", "tryFailed", "rdLocked", "wrLocked", "joined", "barrierOpen",
             "condLocked", "semTaken", "woken"}

\* Every step but those of the two lemmas above, of a thread that exits and of
\* one that is postponed, ends in one of these ways.
LEMMA OtherSteps ==
  ASSUME TypeOK, CallInv, NEW t \in Thread, Step(t)
  PROVE  \/ \E c \in Thread : BeforePthreadJoin(t, c)
         \/ \E m \in Mutex : \/ BeforePthreadMutexLock(t, m)
                            \/ BeforePthreadMutexTryLock(t, m)
                            \/ BeforePthreadCondWait(t, m)
         \/ \E there \in {"rdLocking", "rdTrying"} : BeforePthreadRwlockRdlock(t, there)
         \/ \E there \in {"wrLocking", "wrTrying"} : BeforePthreadRwlockWrlock(t, there)
         \/ BeforePthreadBarrierWait(t) \/ BeforeSemWait(t)
         \/ RealCondWait(t)
         \/ RealBarrierWait(t) /\ Cardinality(realArrived \cup {t}) # BarrierCount
         \/ ThreadExit(t) \/ PostponeThread(t)
         \/ Available(t) \/ Coming(t)
  <1>1. pc \in [Thread -> PC] /\ next \in [Thread -> {"keepup", "postpone"}]
        /\ realArrived \subseteq Thread
    BY DEF TypeOK
  <1>2. CASE Access(t)
    BY <1>1, <1>2 DEF Access, BeforeMem, ChooseRandomThreadBeforeProcess, LeaveRegion,
       RecordAndPostpone, RecordAndKeepup, HandleRace, WakeUpOne, WakeUpDone,
       KeepupThread, TakePermit, TimeOut, AfterWait, Available, Coming, AvailPC, RegionPC
  <1>3. CASE Threads(t)
    BY <1>1, <1>3 DEF Threads, Create, ThreadStart, RealJoin, AfterPthreadJoin,
       CallInv, Available, Coming, AvailPC, RegionPC
  <1>4. CASE Mutexes(t)
    BY <1>1, <1>4 DEF Mutexes, RealMutexLock, AfterPthreadMutexLock, RealMutexUnlock,
       AfterPthreadMutexUnlock, RealMutexTryLock, AfterTryFailed, Available, Coming,
       AvailPC, RegionPC
  <1>5. CASE Rwlocks(t)
    BY <1>1, <1>5 DEF Rwlocks, RealRwlockRdlock, AfterPthreadRwlockRdlock,
       RealRwlockWrlock, AfterPthreadRwlockWrlock, RealRwlockTryFail, RealRwlockUnlock,
       AfterPthreadRwlockUnlock, Available, Coming, AvailPC, RegionPC
  <1>6. CASE Barriers(t)
    BY <1>1, <1>6 DEF Barriers, RealBarrierWait, AfterPthreadBarrierWait, Available,
       Coming, AvailPC, RegionPC
  <1>7. CASE Conds(t)
    BY <1>1, <1>7 DEF Conds, RealCondSignal, RealCondReturn, AfterPthreadCondWait,
       Available, Coming, AvailPC, RegionPC
  <1>8. CASE Sems(t)
    BY <1>1, <1>8 DEF Sems, BeforeSemPost, RealSemPost, RealSemWait, AfterSemWait,
       Available, Coming, AvailPC, RegionPC
  <1> QED BY <1>2, <1>3, <1>4, <1>5, <1>6, <1>7, <1>8 DEF Step

\* A step never leaves only postponed and sleeping threads.
LEMMA ReleasedStep ==
  ASSUME ThreadInv, CountsSound, BarrierWaiters, LiveHolders, Released,
         ThreadInv', CountsSound', BarrierWaiters', Cardinality(Thread) <= 128, BarrierCount < 256,
         NEW t \in Thread, Step(t)
  PROVE  Released'
  <1> SUFFICES ASSUME avail' = {}, pp' # {} PROVE Releasing'
    BY DEF Released
  <1>1. pc \in [Thread -> PC] /\ permits \in [Thread -> Nat] /\ pp \subseteq Thread
    BY DEF ThreadInv, TypeOK
  <1>2. TypeOK /\ CallInv /\ ThreadSets /\ TypeOK' /\ ThreadSets'
    BY DEF ThreadInv
  <1>3. CASE ThreadExit(t)
    BY <1>1, <1>3, ChoiceReleases DEF ThreadExit
  <1>4. CASE PostponeThread(t)
    <2>1. t \in avail
      BY <1>2, <1>4 DEF PostponeThread, ThreadSets, AvailPC, RegionPC
    <2>2. /\ pp' = pp \cup {t} /\ avail' = avail \ {t}
          /\ ChooseRandomThreadAfterAllUnavailable(pp \cup {t})
      BY <1>4, <2>1 DEF PostponeThread
    <2>3. pp \cup {t} \subseteq Thread /\ pp \cup {t} # {}
      BY <1>1
    <2> QED BY <1>1, <2>2, <2>3, ChoiceReleases
  <1>5. CASE Available(t)
    BY <1>2, <1>5 DEF Available, ThreadSets
  <1>6. CASE Coming(t)
    BY <1>2, <1>6 DEF Coming, ThreadSets, PpPC, BlkPC, Releasing, Helped, Returning
  <1>7. CASE \/ RealCondWait(t)
             \/ RealBarrierWait(t) /\ Cardinality(realArrived \cup {t}) # BarrierCount
    BY <1>7, SleepReleases
  <1>8. CASE \/ \E c \in Thread : BeforePthreadJoin(t, c)
             \/ \E m \in Mutex : \/ BeforePthreadMutexLock(t, m)
                                \/ BeforePthreadMutexTryLock(t, m)
                                \/ BeforePthreadCondWait(t, m)
             \/ \E there \in {"rdLocking", "rdTrying"} : BeforePthreadRwlockRdlock(t, there)
             \/ \E there \in {"wrLocking", "wrTrying"} : BeforePthreadRwlockWrlock(t, there)
             \/ BeforePthreadBarrierWait(t) \/ BeforeSemWait(t)
    BY <1>2, <1>8, BeforeCallReleases
  <1> QED BY <1>2, <1>3, <1>4, <1>5, <1>6, <1>7, <1>8, OtherSteps

\* Initially nobody is postponed, nobody waits and nobody holds a lock.
LEMMA InitReleased == Init => BarrierWaiters /\ LiveHolders /\ Released
  <1> SUFFICES ASSUME Init PROVE BarrierWaiters /\ LiveHolders /\ Released
    OBVIOUS
  <1>1. realArrived = {t \in Thread : pc[t] = "barrier"}
    BY DEF Init
  <1>2. Cardinality(realArrived) < BarrierCount
    BY BarrierAssumption, FS_EmptySet DEF Init
  <1> QED BY <1>1, <1>2 DEF Init, BarrierWaiters, LiveHolders, Released

\* Every step, and the stutter of a program that is over, preserves it.
LEMMA NextReleased ==
  ASSUME Cardinality(Thread) <= 128, BarrierCount < 256
  PROVE  ReleaseIInv /\ [Next]_vars => ReleaseIInv'
  <1> SUFFICES ASSUME ReleaseIInv, [Next]_vars PROVE ReleaseIInv'
    OBVIOUS
  <1>1. IInv' /\ CountsSound'
    BY NextIInv, NextCounts DEF ReleaseIInv
  <1>2. ASSUME NEW t \in Thread, Step(t) PROVE ReleaseIInv'
    <2>1. BarrierWaiters' /\ LiveHolders'
      BY <1>2, BarrierWaitersStep, LiveHoldersStep DEF ReleaseIInv, IInv
    <2>2. ThreadInv /\ ThreadInv'
      BY <1>1 DEF ReleaseIInv, IInv, ThreadInv
    <2>3. Released'
      BY <1>1, <1>2, <2>1, <2>2, ReleasedStep DEF ReleaseIInv
    <2> QED BY <1>1, <2>1, <2>3 DEF ReleaseIInv
  <1>3. CASE UNCHANGED vars
    BY <1>1, <1>3 DEF vars, ReleaseIInv, BarrierWaiters, LiveHolders, Released, Releasing,
       Helped, Returning, Unhelped
  <1> QED BY <1>2, <1>3 DEF Next

\* The verifier does not leave the program to its two-second timeouts: whenever
\* only postponed threads are left, one of them has been released, or a blocked
\* thread is on its way back, or waits for a lock whose holder the code does not
\* look for.  The eight bits of the verifier's counts must suffice: there are at
\* most 128 threads and the barrier's count fits its field.
THEOREM SomeoneReleasedCorrect ==
  ASSUME Cardinality(Thread) <= 128, BarrierCount < 256
  PROVE  Spec => []SomeoneReleased
  <1>1. Init => ReleaseIInv
    BY InitIInv, InitCounts, InitReleased DEF ReleaseIInv
  <1>2. ReleaseIInv /\ [Next]_vars => ReleaseIInv'
    BY NextReleased
  <1>3. ReleaseIInv => SomeoneReleased
    BY DEF ReleaseIInv, Released, Releasing, Helped, SomeoneReleased
  <1> QED BY <1>1, <1>2, <1>3, PTL DEF Spec
=============================================================================
