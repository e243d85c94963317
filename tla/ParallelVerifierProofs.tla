----------------------- MODULE ParallelVerifierProofs -----------------------
(***************************************************************************)
(* Proofs about the parallel verifier, for any set of threads, any program  *)
(* and any number of history threads.  The scheduler's invariants hold of   *)
(* it too, since all its threads do to the sets and the semaphores is to    *)
(* post, and a postponed thread only stops a step before it waits.  Then    *)
(* the life of the sync objects, and the database between two requests.     *)
(***************************************************************************)
EXTENDS ParallelVerifier, VerifierSchedProofs, SequenceTheorems

-----------------------------------------------------------------------------
(* The scheduler under this verifier.                                       *)

ReleaseInv == ThreadInv /\ CountsSound /\ BarrierWaiters /\ LiveHolders /\ Released

\* What the verification thread and the history threads do to the scheduler:
\* they post.
Posts ==
  /\ UNCHANGED <<pc, arg, left, raceVars, setVars, smp, ppmetas, syncVars>>
  /\ \/ UNCHANGED permits
     \/ \E u \in smp : permits' = [permits EXCEPT ![u] = @ + 1]
  /\ crashed' \in BOOLEAN

LEMMA VerificationPosts ==
  ASSUME TypeOK, StartWaitVerification
  PROVE  Posts
  <1> USE DEF progVars, foundVars, queueVars, tlsVars, objVars, WakeUpThread, PopVerifyRequest
  <1>0. crashed \in BOOLEAN BY DEF TypeOK
  <1>1. CASE LookupNothing BY <1>0, <1>1 DEF LookupNothing, Posts
  <1>2. CASE Redundant BY <1>0, <1>2 DEF Redundant, Posts
  <1>3. CASE VisitFirst BY <1>0, <1>3 DEF VisitFirst, Posts
  <1>4. CASE VisitSecond BY <1>0, <1>4 DEF VisitSecond, Posts
  <1>5. CASE RecordFirst BY <1>5 DEF RecordFirst, Missing, Posts
  <1>6. CASE Scan BY <1>0, <1>6 DEF Scan, Posts
  <1>7. CASE EndScan BY <1>7 DEF EndScan, Missing, Posts
  <1>8. CASE Racy BY <1>0, <1>8 DEF Racy, Posts
  <1>9. CASE NotShared BY <1>0, <1>9 DEF NotShared, Posts
  <1>10. CASE HandleNoRace BY <1>0, <1>10 DEF HandleNoRace, Posts
  <1>11. CASE PostSemaphore BY <1>0, <1>11 DEF PostSemaphore, Posts
  <1>12. CASE MakeAvailable BY <1>0, <1>12 DEF MakeAvailable, Posts
  <1> QED BY <1>1, <1>2, <1>3, <1>4, <1>5, <1>6, <1>7, <1>8, <1>9, <1>10, <1>11, <1>12
      DEF StartWaitVerification

LEMMA HistoryPosts ==
  ASSUME TypeOK, NEW q \in Queue, StartHistoryDetection(q)
  PROVE  Posts
  BY DEF StartHistoryDetection, ClearMark, HistoryDetection, progVars, Posts, TypeOK

\* Posting releases nobody less.
LEMMA PostsStep ==
  ASSUME ReleaseInv, Posts
  PROVE  ReleaseInv'
  <1>1. permits \in [Thread -> Nat] /\ smp \subseteq Thread
    BY DEF ReleaseInv, ThreadInv, TypeOK
  <1>2. permits' \in [Thread -> Nat] /\ \A u \in Thread : permits[u] > 0 => permits'[u] > 0
    BY <1>1 DEF Posts
  <1>3. UNCHANGED <<pc, arg, left, wake, next, verify_lock_, avail, pp, blk, smp, ppmetas, owner,
                    realHolder, wrOwner, rdOwners, realWriter, realReaders, barrierRef,
                    realArrived, semCount, realSem>>
    BY DEF Posts, raceVars, setVars, syncVars, lockVars, rwVars, barVars, semVars
  <1>4. TypeOK' BY <1>2, <1>3 DEF ReleaseInv, ThreadInv, TypeOK, Posts
  <1>5. /\ ThreadSets' /\ OwnerSound' /\ RwOwnersSound' /\ CallInv'
        /\ CountsSound' /\ BarrierWaiters' /\ LiveHolders'
    BY <1>3 DEF ReleaseInv, ThreadInv, ThreadSets, OwnerSound, RwOwnersSound, CallInv, CountsSound,
       BarrierRefInv, SemCountInv, BarrierWaiters, LiveHolders
  <1>6. pp \subseteq Thread BY DEF ReleaseInv, ThreadInv, TypeOK
  <1>7. Released'
    <2>1. SUFFICES ASSUME avail' = {}, pp' # {} PROVE Releasing' BY DEF Released
    <2>2. Releasing BY <1>3, <2>1 DEF ReleaseInv, Released
    <2>3. CASE \E t \in pp : permits[t] > 0 \/ pc[t] = "woken"
      BY <1>2, <1>3, <1>6, <2>3 DEF Releasing
    <2>4. ASSUME NEW t \in blk, Helped(t) PROVE Releasing'
      <3>1. Helped(t)' BY <1>3, <2>4 DEF Helped, Returning, Unhelped
      <3> QED BY <1>3, <3>1 DEF Releasing
    <2>5. CASE \E t \in Thread : pc[t] = "starting"
      BY <1>3, <2>5 DEF Releasing
    <2> QED BY <2>2, <2>3, <2>4, <2>5 DEF Releasing
  <1> QED BY <1>4, <1>5, <1>7 DEF ReleaseInv, ThreadInv

\* All that synchronises is a step of the scheduler.
LEMMA SchedulerSteps ==
  ASSUME NEW t \in Thread, PSync(t) \/ POther(t) \/ PAfterWait(t)
  PROVE  Step(t)
  <1>1. CASE PSync(t)
    BY <1>1 DEF PSync, PCreate, PThreadStart, PAfterPthreadJoin, ProcessPostMutexLock,
       ProcessSignal, PAfterPthreadCondWait, ProcessPreMutexUnlock, PBeforePthreadCondWait,
       ProcessPostRwlockRdlock, ProcessPostRwlockWrlock, ProcessPreRwlockUnlock,
       PBeforePthreadBarrierWait, PAfterPthreadBarrierWait, PBeforeSemPost, PAfterSemWait,
       Step, Threads, Mutexes, Rwlocks, Barriers, Conds, Sems
  <1>2. CASE POther(t)
    BY <1>2 DEF POther, Step, Access, Threads, Mutexes, Rwlocks, Barriers, Conds, Sems
  <1>3. CASE PAfterWait(t)
    BY <1>3 DEF PAfterWait, Step, Access
  <1> QED BY <1>1, <1>2, <1>3
\* A step that stays outside every pthread call, and is neither the last
\* available thread's way to sleep nor the end of one.
Stays(t, there) ==
  /\ Goto(t, there)
  /\ UNCHANGED <<arg, raceVars, ppmetas, syncVars, blk, smp, crashed>>

\* What such a step leaves of the invariant: all but the thread sets.
LEMMA StaysStep ==
  ASSUME ReleaseInv, NEW t \in Thread, NEW here \in NoCall \ {"choose"}, NEW there \in NoCall \ {"choose"},
         pc[t] = here, Stays(t, there)
  PROVE  /\ OwnerSound' /\ RwOwnersSound' /\ CallInv' /\ CountsSound'
         /\ BarrierWaiters' /\ LiveHolders'
  <1> USE DEF Goto, raceVars, syncVars, lockVars, rwVars, barVars, semVars
  <1>0. pc \in [Thread -> PC] BY DEF ReleaseInv, ThreadInv, TypeOK
  <1>1. /\ here \in {"run", "region", "wakeall", "keepup", "postpone", "stopping", "wait", "woken"}
        /\ there \in {"run", "region", "wakeall", "keepup", "postpone", "stopping", "wait", "woken"}
    BY DEF NoCall, RegionPC, PpPC
  <1>2. UNCHANGED <<arg, owner, realHolder, wrOwner, rdOwners, realWriter, realReaders, barrierRef,
                    realArrived, semCount, realSem>>
    BY DEF Stays
  <1>3. \A u \in Thread : pc'[u] = IF u = t THEN there ELSE pc[u] BY <1>0 DEF Stays
  <1>4. OwnerSound' /\ RwOwnersSound' /\ CallInv'
    BY <1>1, <1>2, <1>3 DEF ReleaseInv, ThreadInv, OwnerSound, RwOwnersSound, CallInv, TypeOK
  <1>5. CountsSound'
    <2>1. /\ {u \in Thread : pc'[u] \in {"barEnter", "barrier", "barrierOpen"}}
               = {u \in Thread : pc[u] \in {"barEnter", "barrier", "barrierOpen"}}
          /\ {u \in Thread : pc'[u] = "semPosting"} = {u \in Thread : pc[u] = "semPosting"}
          /\ {u \in Thread : pc'[u] = "semWaiting"} = {u \in Thread : pc[u] = "semWaiting"}
      BY <1>1, <1>3
    <2> QED BY <1>2, <2>1 DEF ReleaseInv, CountsSound, BarrierRefInv, SemCountInv
  <1>6. BarrierWaiters'
    <2>1. {u \in Thread : pc'[u] = "barrier"} = {u \in Thread : pc[u] = "barrier"} BY <1>1, <1>3
    <2> QED BY <1>2, <2>1 DEF ReleaseInv, BarrierWaiters
  <1>7. LiveHolders'
    BY <1>1, <1>2, <1>3 DEF ReleaseInv, ThreadInv, TypeOK, LiveHolders, GonePC
  <1> QED BY <1>4, <1>5, <1>6, <1>7

\* An access releases somebody before the last available thread stops.
LEMMA AccessReleases ==
  ASSUME ReleaseInv, NEW t \in Thread, PushVerifyRequest(t) \/ PPostponeThread(t) \/ BeingPostponed(t)
  PROVE  ReleaseInv'
  <1> USE BoundAssumption DEF Goto, Move, Raise, setVars, smpVars
  <1>0. /\ TypeOK /\ ThreadSets /\ pc \in [Thread -> PC] /\ permits \in [Thread -> Nat]
        /\ left \in 0..MaxOps /\ avail \subseteq Thread /\ pp \subseteq Thread
    BY DEF ReleaseInv, ThreadInv, TypeOK
  <1>1. CASE PushVerifyRequest(t)
    <2>1. pc[t] = "run" /\ Stays(t, "postpone") /\ UNCHANGED <<permits, avail, pp>> /\ left' = left - 1
      BY <1>1 DEF PushVerifyRequest, Stays
    <2>2. /\ OwnerSound' /\ RwOwnersSound' /\ CallInv' /\ CountsSound'
          /\ BarrierWaiters' /\ LiveHolders'
      BY <2>1, StaysStep DEF NoCall, RegionPC
    <2>3. t \in avail BY <1>0, <2>1 DEF ThreadSets, AvailPC
    <2>4. Released' BY <2>1, <2>3 DEF Released
    <2>5. left' \in 0..MaxOps BY <1>0, <1>1 DEF PushVerifyRequest
    <2>6. TypeOK'
      BY <1>0, <2>1, <2>5 DEF TypeOK, Stays, PC, AvailPC, RegionPC, raceVars, syncVars, lockVars,
         rwVars, barVars, semVars
    <2>7. ThreadSets'
      BY <1>0, <2>1 DEF ThreadSets, Stays, AvailPC, RegionPC, PpPC, BlkPC, GonePC
    <2> QED BY <2>2, <2>4, <2>6, <2>7 DEF ReleaseInv, ThreadInv
  <1>2. CASE PPostponeThread(t) /\ Cardinality(avail) = 1 /\ pp = {}
    <2>1. pc[t] = "postpone" /\ Stays(t, "run") /\ UNCHANGED <<permits, avail, pp, left>>
      BY <1>2 DEF PPostponeThread, Stays
    <2>2. /\ OwnerSound' /\ RwOwnersSound' /\ CallInv' /\ CountsSound'
          /\ BarrierWaiters' /\ LiveHolders'
      BY <2>1, StaysStep DEF NoCall, RegionPC
    <2>4. Released' BY <1>2, <2>1 DEF Released
    <2>6. TypeOK'
      BY <1>0, <2>1 DEF TypeOK, Stays, PC, AvailPC, RegionPC, raceVars, syncVars, lockVars,
         rwVars, barVars, semVars
    <2>7. ThreadSets'
      BY <1>0, <2>1 DEF ThreadSets, Stays, AvailPC, RegionPC, PpPC, BlkPC, GonePC
    <2> QED BY <2>2, <2>4, <2>6, <2>7 DEF ReleaseInv, ThreadInv
  <1>3. CASE PPostponeThread(t) /\ ~(Cardinality(avail) = 1 /\ pp = {})
    <2>1. /\ pc[t] = "postpone" /\ Stays(t, "stopping") /\ UNCHANGED left
          /\ pp' = pp \cup {t} /\ avail' = avail \ {t}
          /\ IF avail \ {t} = {} THEN ChooseRandomThreadAfterAllUnavailable(pp \cup {t})
                                 ELSE UNCHANGED permits
      BY <1>3 DEF PPostponeThread, Stays
    <2>2. /\ OwnerSound' /\ RwOwnersSound' /\ CallInv' /\ CountsSound'
          /\ BarrierWaiters' /\ LiveHolders'
      BY <2>1, StaysStep DEF NoCall, RegionPC, PpPC
    <2>3. permits' \in [Thread -> Nat]
      BY <1>0, <2>1 DEF ChooseRandomThreadAfterAllUnavailable, WakeUpPostponeThread
    <2>4. Released'
      <3>1. ASSUME avail' = {} PROVE Releasing'
        BY <1>0, <2>1, <3>1, ChoiceReleases
      <3> QED BY <3>1 DEF Released
    <2>6. TypeOK'
      BY <1>0, <2>1, <2>3 DEF TypeOK, Stays, PC, PpPC, raceVars, syncVars, lockVars,
         rwVars, barVars, semVars
    <2>7. ThreadSets'
      BY <1>0, <2>1 DEF ThreadSets, Stays, AvailPC, RegionPC, PpPC, BlkPC, GonePC
    <2> QED BY <2>2, <2>4, <2>6, <2>7 DEF ReleaseInv, ThreadInv
  <1>4. CASE BeingPostponed(t)
    <2>1. pc[t] = "stopping" /\ Stays(t, "wait") /\ UNCHANGED <<permits, avail, pp, left>>
      BY <1>4 DEF BeingPostponed, Stays
    <2>2. /\ OwnerSound' /\ RwOwnersSound' /\ CallInv' /\ CountsSound'
          /\ BarrierWaiters' /\ LiveHolders'
      BY <2>1, StaysStep DEF NoCall, PpPC
    <2>3. \A u \in Thread : pc'[u] = IF u = t THEN "wait" ELSE pc[u] BY <1>0, <2>1 DEF Stays, Goto
    <2>4. Released'
      <3>1. SUFFICES ASSUME avail' = {}, pp' # {} PROVE Releasing' BY DEF Released
      <3>2. Releasing BY <2>1, <3>1 DEF ReleaseInv, Released
      <3>3. UNCHANGED <<arg, pp, blk, permits, owner, realHolder, wrOwner, rdOwners, realWriter,
                        realReaders, realSem>>
        BY <2>1 DEF Stays, syncVars, lockVars, rwVars, barVars, semVars
      <3>4. CASE \E u \in pp : permits[u] > 0 \/ pc[u] = "woken"
        BY <1>0, <2>1, <2>3, <3>3, <3>4 DEF Releasing
      <3>5. ASSUME NEW u \in blk, Helped(u) PROVE Releasing'
        <4>1. u \in Thread /\ u # t /\ pc'[u] = pc[u] /\ u \in blk'
          BY <1>0, <2>1, <2>3, <3>3, <3>5 DEF ThreadSets, BlkPC
        <4>2. {w \in Thread : pc'[w] \in {"barEnter", "barrier"}}
                = {w \in Thread : pc[w] \in {"barEnter", "barrier"}}
          BY <2>1, <2>3
        <4>3. pc[u] = "joining" => arg[u] \in Thread
          BY <4>1 DEF ReleaseInv, ThreadInv, CallInv
        <4>4. pc[u] = "joining" /\ pc[arg[u]] = "exited" => pc'[arg[u]] = "exited"
          BY <2>1, <2>3, <4>3
        <4>5. Helped(u)'
          BY <3>3, <3>5, <4>1, <4>2, <4>4 DEF Helped, Returning, Unhelped
        <4> QED BY <4>1, <4>5 DEF Releasing
      <3>6. CASE \E u \in Thread : pc[u] = "starting"
        BY <2>1, <2>3, <3>6 DEF Releasing
      <3> QED BY <3>2, <3>4, <3>5, <3>6 DEF Releasing
    <2>6. TypeOK'
      BY <1>0, <2>1 DEF TypeOK, Stays, PC, PpPC, raceVars, syncVars, lockVars,
         rwVars, barVars, semVars
    <2>7. ThreadSets'
      BY <1>0, <2>1 DEF ThreadSets, Stays, AvailPC, RegionPC, PpPC, BlkPC, GonePC
    <2> QED BY <2>2, <2>4, <2>6, <2>7 DEF ReleaseInv, ThreadInv
  <1> QED BY <1>1, <1>2, <1>3, <1>4

LEMMA SchedulerReleases ==
  ASSUME Cardinality(Thread) <= 128, BarrierCount < 256, ReleaseInv, NEW t \in Thread, Step(t)
  PROVE  ReleaseInv'
  <1>1. TypeOK /\ ThreadSets /\ OwnerSound /\ RwOwnersSound /\ CallInv
    BY DEF ReleaseInv, ThreadInv
  <1>2. ThreadInv'
    BY <1>1, TypeOKStep, ThreadSetsStep, OwnerSoundStep, RwOwnersSoundStep, CallInvStep DEF ThreadInv
  <1>3. CountsSound'
    BY <1>1, BarrierRefStep, SemCountStep DEF ReleaseInv, CountsSound
  <1>4. BarrierWaiters' /\ LiveHolders'
    BY <1>1, BarrierWaitersStep, LiveHoldersStep DEF ReleaseInv
  <1>5. Released'
    BY <1>2, <1>3, <1>4, ReleasedStep DEF ReleaseInv
  <1> QED BY <1>2, <1>3, <1>4, <1>5 DEF ReleaseInv

LEMMA ReleaseInvStep ==
  ASSUME Cardinality(Thread) <= 128, BarrierCount < 256, ReleaseInv, [PNext]_pVars
  PROVE  ReleaseInv'
  <1>1. TypeOK BY DEF ReleaseInv, ThreadInv
  <1>2. ASSUME NEW t \in Thread, PSync(t) \/ POther(t) \/ PAccess(t) PROVE ReleaseInv'
    BY <1>2, SchedulerSteps, SchedulerReleases, AccessReleases DEF PAccess
  <1>3. CASE StartWaitVerification
    BY <1>1, <1>3, VerificationPosts, PostsStep
  <1>4. ASSUME NEW q \in Queue, StartHistoryDetection(q) PROVE ReleaseInv'
    BY <1>1, <1>4, HistoryPosts, PostsStep
  <1>5. CASE UNCHANGED pVars
    <2>1. UNCHANGED vars BY <1>5 DEF pVars
    <2>2. Posts BY <1>1, <2>1 DEF vars, Posts, smpVars, TypeOK
    <2> QED BY <2>2, PostsStep
  <1> QED BY <1>2, <1>3, <1>4, <1>5 DEF PNext

\* The scheduler's promise holds with this verifier too: when all threads left
\* are postponed, one of them has a permit, or somebody is on the way back or
\* waits for a lock whose holder the code does not look for, although a thread
\* stops before it waits and is woken by threads that verify requests of the past.
THEOREM ParallelReleases ==
  ASSUME Cardinality(Thread) <= 128, BarrierCount < 256
  PROVE  PSpec => []SomeoneReleased
  <1>1. PInit => ReleaseInv
    BY InitIInv, InitCounts, InitReleased DEF PInit, ReleaseInv, IInv, ThreadInv
  <1>2. ReleaseInv /\ [PNext]_pVars => ReleaseInv'
    BY ReleaseInvStep
  <1>3. ReleaseInv => SomeoneReleased
    BY DEF ReleaseInv, Released, Releasing, Helped, SomeoneReleased
  <1> QED BY <1>1, <1>2, <1>3, PTL DEF PSpec
-----------------------------------------------------------------------------
(* Queues.                                                                  *)

Entries(s) == {s[k] : k \in 1..Len(s)}
IsQueue(s) == s \in Seq(Entries(s))

LEMMA QueueAppend ==
  ASSUME NEW s, IsQueue(s), NEW x
  PROVE  /\ IsQueue(Append(s, x)) /\ Append(s, x) # << >>
         /\ Len(s) \in Nat /\ Len(Append(s, x)) = Len(s) + 1
         /\ \A k \in 1..Len(s) : Append(s, x)[k] = s[k]
         /\ Append(s, x)[Len(s) + 1] = x
         /\ s # << >> => Head(Append(s, x)) = Head(s)
  <1> DEFINE T == Entries(s) \cup {x}
  <1>1. s \in Seq(T) /\ x \in T BY DEF IsQueue
  <1> HIDE DEF T
  <1>2. /\ Append(s, x) \in Seq(T) /\ Len(s) \in Nat /\ Len(Append(s, x)) = Len(s) + 1
        /\ \A k \in 1..Len(s) : Append(s, x)[k] = s[k]
        /\ Append(s, x)[Len(s) + 1] = x
    BY <1>1
  <1>3. \A k \in 1..Len(Append(s, x)) : Append(s, x)[k] \in Entries(Append(s, x)) BY DEF Entries
  <1>4. Append(s, x) \in Seq(Entries(Append(s, x))) BY <1>2, <1>3
  <1>5. Append(s, x) # << >> BY <1>2
  <1>6. s # << >> => Head(Append(s, x)) = Head(s) BY <1>1, <1>2
  <1> QED BY <1>2, <1>4, <1>5, <1>6 DEF IsQueue

LEMMA QueueTail ==
  ASSUME NEW s, IsQueue(s), s # << >>
  PROVE  /\ IsQueue(Tail(s))
         /\ Len(s) \in Nat \ {0} /\ Len(Tail(s)) = Len(s) - 1
         /\ \A k \in 1..Len(s) - 1 : Tail(s)[k] = s[k + 1]
         /\ Head(s) = s[1]
  <1> DEFINE T == Entries(s)
  <1>1. s \in Seq(T) BY DEF IsQueue
  <1> HIDE DEF T
  <1>2. /\ Tail(s) \in Seq(T) /\ Len(s) \in Nat \ {0} /\ Len(Tail(s)) = Len(s) - 1
        /\ \A k \in 1..Len(s) - 1 : Tail(s)[k] = s[k + 1]
        /\ Head(s) = s[1]
    BY <1>1
  <1> DEFINE a == Tail(s)
  <1>3. \A k \in 1..Len(a) : a[k] \in Entries(a) BY DEF Entries
  <1>4. a \in Seq(Entries(a))
    <2>1. a \in Seq(T) BY <1>2
    <2> HIDE DEF a
    <2> QED BY <2>1, <1>3
  <1> QED BY <1>2, <1>4 DEF IsQueue

\* What a history queue holds of sync object o: nothing, requests without a
\* marker, or requests and one marker after them.
NoneOf(s, o)     == \A k \in 1..Len(s) : s[k].req.id # o
NoMark(s, o)     == \A k \in 1..Len(s) : s[k].req.id = o => ~s[k].mark
MarkedLast(s, o) == \E k \in 1..Len(s) : /\ s[k].mark /\ s[k].req.id = o
                                         /\ \A j \in 1..Len(s) : s[j].req.id = o =>
                                              j <= k /\ (s[j].mark => j = k)

\* Something of another object at the end changes nothing; a marker at the end
\* of a queue without one is the last of its object.
LEMMA MarkAppend ==
  ASSUME NEW s, IsQueue(s), NEW e, NEW o
  PROVE  /\ e.req.id # o /\ NoneOf(s, o) => NoneOf(Append(s, e), o)
         /\ (e.req.id # o \/ ~e.mark) /\ NoMark(s, o) => NoMark(Append(s, e), o)
         /\ e.req.id # o /\ MarkedLast(s, o) => MarkedLast(Append(s, e), o)
         /\ e.req.id = o /\ e.mark /\ NoMark(s, o) => MarkedLast(Append(s, e), o)
  <1> DEFINE a == Append(s, e)
  <1>1. /\ Len(s) \in Nat /\ Len(a) = Len(s) + 1
        /\ \A k \in 1..Len(s) : a[k] = s[k]
        /\ a[Len(s) + 1] = e
    BY QueueAppend
  <1> HIDE DEF a
  <1>2. \A k \in 1..Len(a) : k \in 1..Len(s) \/ k = Len(s) + 1 BY <1>1
  <1>3. e.req.id # o /\ NoneOf(s, o) => NoneOf(a, o) BY <1>1, <1>2 DEF NoneOf
  <1>4. (e.req.id # o \/ ~e.mark) /\ NoMark(s, o) => NoMark(a, o) BY <1>1, <1>2 DEF NoMark
  <1>5. ASSUME e.req.id # o, MarkedLast(s, o) PROVE MarkedLast(a, o)
    <2>1. PICK k \in 1..Len(s) : /\ s[k].mark /\ s[k].req.id = o
                                 /\ \A j \in 1..Len(s) : s[j].req.id = o =>
                                      j <= k /\ (s[j].mark => j = k)
      BY <1>5 DEF MarkedLast
    <2>2. k \in 1..Len(a) /\ a[k] = s[k] BY <1>1, <2>1
    <2>3. \A j \in 1..Len(a) : a[j].req.id = o => j <= k /\ (a[j].mark => j = k)
      BY <1>1, <1>2, <1>5, <2>1
    <2> QED BY <2>1, <2>2, <2>3 DEF MarkedLast
  <1>6. ASSUME e.req.id = o, e.mark, NoMark(s, o) PROVE MarkedLast(a, o)
    <2> DEFINE k == Len(s) + 1
    <2>1. k \in 1..Len(a) /\ a[k].mark /\ a[k].req.id = o BY <1>1, <1>6
    <2>2. \A j \in 1..Len(a) : a[j].req.id = o => j <= k /\ (a[j].mark => j = k)
      BY <1>1, <1>2, <1>6 DEF NoMark
    <2> QED BY <2>1, <2>2 DEF MarkedLast
  <1> QED BY <1>3, <1>4, <1>5, <1>6 DEF a

\* A queue without its head.
LEMMA MarkTail ==
  ASSUME NEW s, IsQueue(s), s # << >>, NEW o
  PROVE  /\ NoneOf(s, o) => NoneOf(Tail(s), o) /\ Head(s).req.id # o
         /\ NoMark(s, o) => NoMark(Tail(s), o)
         /\ MarkedLast(s, o) /\ ~(Head(s).mark /\ Head(s).req.id = o) => MarkedLast(Tail(s), o)
         /\ MarkedLast(s, o) /\ Head(s).mark /\ Head(s).req.id = o => NoneOf(Tail(s), o)
  <1> DEFINE a == Tail(s)
  <1>1. /\ Len(s) \in Nat \ {0} /\ Len(a) = Len(s) - 1
        /\ \A k \in 1..Len(s) - 1 : a[k] = s[k + 1]
        /\ Head(s) = s[1]
    BY QueueTail
  <1> HIDE DEF a
  <1>2. \A k \in 1..Len(a) : k + 1 \in 1..Len(s) /\ a[k] = s[k + 1] BY <1>1
  <1>3. NoneOf(s, o) => NoneOf(a, o) /\ Head(s).req.id # o BY <1>1, <1>2 DEF NoneOf
  <1>4. NoMark(s, o) => NoMark(a, o) BY <1>1, <1>2 DEF NoMark
  <1>5. ASSUME MarkedLast(s, o) PROVE IF Head(s).mark /\ Head(s).req.id = o THEN NoneOf(a, o)
                                      ELSE MarkedLast(a, o)
    <2>1. PICK k \in 1..Len(s) : /\ s[k].mark /\ s[k].req.id = o
                                 /\ \A j \in 1..Len(s) : s[j].req.id = o =>
                                      j <= k /\ (s[j].mark => j = k)
      BY <1>5 DEF MarkedLast
    <2>2. CASE Head(s).mark /\ Head(s).req.id = o
      <3>1. k = 1 BY <1>1, <2>1, <2>2
      <3>2. ASSUME NEW j \in 1..Len(a), a[j].req.id = o PROVE FALSE
        <4>1. j + 1 <= k BY <1>2, <2>1, <3>2
        <4> QED BY <3>1, <4>1
      <3> QED BY <2>2, <3>2 DEF NoneOf
    <2>3. CASE ~(Head(s).mark /\ Head(s).req.id = o)
      <3>1. k # 1 BY <1>1, <2>1, <2>3
      <3>2. k - 1 \in 1..Len(a) /\ a[k - 1] = s[k] BY <1>1, <2>1, <3>1
      <3>3. ASSUME NEW j \in 1..Len(a), a[j].req.id = o
            PROVE  j <= k - 1 /\ (a[j].mark => j = k - 1)
        <4>1. j + 1 \in 1..Len(s) /\ s[j + 1].req.id = o /\ (a[j].mark <=> s[j + 1].mark)
          BY <1>2, <3>3
        <4>2. j + 1 <= k /\ (s[j + 1].mark => j + 1 = k) BY <2>1, <4>1
        <4> QED BY <4>1, <4>2
      <3>4. MarkedLast(a, o) BY <2>1, <3>2, <3>3 DEF MarkedLast
      <3> QED BY <2>3, <3>4
    <2> QED BY <2>2, <2>3
  <1> QED BY <1>3, <1>4, <1>5 DEF a
-----------------------------------------------------------------------------
(* Sync objects.                                                            *)

\* Places of the verification thread at which its request may still be handed
\* to the history threads.
Working == {"idle", "record", "scan"}

VShape ==
  /\ v = [step |-> v.step, firsts |-> v.firsts, first |-> v.first, todo |-> v.todo,
          racy |-> v.racy, res |-> v.res, verdict |-> v.verdict, wake |-> v.wake,
          available |-> v.available]
  /\ v.step \in Working \cup {"decide", "wake"}

ObjTypes ==
  /\ VShape
  /\ IsQueue(requests)
  /\ \A k \in 1..Len(requests) : requests[k].id \in DOMAIN refs
  /\ \A j, k \in 1..Len(requests) : requests[j].id = requests[k].id => j = k
  /\ v.step # "idle" => requests # << >>
  /\ DOMAIN history = Queue /\ DOMAIN h = Queue
  /\ \A q \in Queue : /\ IsQueue(history[q])
                      /\ \A k \in 1..Len(history[q]) : history[q][k].req.id \in DOMAIN refs
                      /\ h[q] = [req |-> h[q].req, todo |-> h[q].todo]
  /\ refs \in [DOMAIN refs -> Nat] /\ freed \subseteq DOMAIN refs
  /\ DOMAIN refs \subseteq Int /\ \A o \in DOMAIN refs : o > left
  /\ left \in Int

\* An object of which no end has been announced.
Unmarked(o) ==
  o \notin freed /\ refs[o] = 0 /\ \A q \in Queue : NoMark(history[q], o)

\* The end of one has been announced to every history thread: those whose
\* queue still has the marker, and the others, which refs counts.
InHand(q, o) == h[q].todo # {} /\ h[q].req.id = o
Ended(o) ==
  /\ \A q \in Queue : \/ MarkedLast(history[q], o)
                      \/ NoneOf(history[q], o) /\ ~InHand(q, o)
  /\ refs[o] = Cardinality({q \in Queue : NoneOf(history[q], o)})
  /\ o \in freed => \A q \in Queue : NoneOf(history[q], o)

\* The requests that wait are of the first kind.
Waiting ==
  \A k \in 1..Len(requests) : k > 1 \/ v.step \in Working => Unmarked(requests[k].id)

ObjInv == ObjTypes /\ (\A o \in DOMAIN refs : Unmarked(o) \/ Ended(o)) /\ Waiting

LEMMA ObjLive == ObjInv => SyncObjectsLive
  <1> SUFFICES ASSUME ObjInv PROVE SyncObjectsLive OBVIOUS
  <1>1. ASSUME NEW q \in Queue, NEW k \in 1..Len(history[q])
        PROVE  history[q][k].req.id \notin freed
    BY <1>1 DEF ObjInv, ObjTypes, Unmarked, Ended, NoneOf
  <1>2. ASSUME NEW q \in Queue, h[q].todo # {} PROVE h[q].req.id \notin freed
    <2> DEFINE o == h[q].req.id
    <2>1. SUFFICES ASSUME o \in freed PROVE FALSE OBVIOUS
    <2>2. Ended(o) /\ NoneOf(history[q], o) BY <2>1 DEF ObjInv, ObjTypes, Unmarked, Ended
    <2>3. InHand(q, o) BY <1>2 DEF InHand
    <2>4. MarkedLast(history[q], o) BY <2>2, <2>3 DEF Ended
    <2> QED BY <2>2, <2>4 DEF MarkedLast, NoneOf
  <1>3. \A k \in 1..Len(requests) : k > 1 => requests[k].id \notin freed
    BY DEF ObjInv, Waiting, Unmarked
  <1>4. v.step \in {"idle", "record", "scan"} /\ requests # << >> => r.id \notin freed
    <2>1. ASSUME v.step \in {"idle", "record", "scan"}, requests # << >> PROVE r.id \notin freed
      <3>1. 1 \in 1..Len(requests) /\ Head(requests) = requests[1]
        BY <2>1, QueueTail DEF ObjInv, ObjTypes
      <3> QED BY <2>1, <3>1 DEF ObjInv, Waiting, Unmarked, Working, r
    <2> QED BY <2>1
  <1> QED BY <1>1, <1>2, <1>3, <1>4 DEF SyncObjectsLive

\* What the verification thread can do to the queues and the objects.
Goes ==
  /\ requests # << >> /\ UNCHANGED <<requests, history, h, refs, freed>>
  /\ v'.step \in Working => v.step \in Working
  /\ v'.step # "idle"
Pops ==
  /\ requests # << >> /\ requests' = Tail(requests) /\ v' = Idle
  /\ UNCHANGED <<history, h, refs, freed>>
HandsOn ==
  /\ v.step = "scan" /\ v'.step = "scan" /\ DistributeHtyDtcRequest
  /\ UNCHANGED <<requests, h, refs, freed>>
Ends ==
  /\ v.step = "scan" /\ v'.step = "decide" /\ DistributeEndOfSyncObj
  /\ UNCHANGED <<requests, h, refs>>

LEMMA VerificationMoves ==
  ASSUME ObjTypes, StartWaitVerification
  PROVE  VShape' /\ (Goes \/ Pops \/ HandsOn \/ Ends) /\ left' = left
  <1> USE DEF progVars, foundVars, queueVars, tlsVars, objVars, At, Arrived, VShape, Working, ObjTypes
  <1>0. VShape /\ Idle.step = "idle" BY DEF Idle
  <1>1. CASE LookupNothing BY <1>1 DEF LookupNothing, PopVerifyRequest, Pops, Idle
  <1>2. CASE Redundant BY <1>2 DEF Redundant, Goes
  <1>3. CASE VisitFirst BY <1>3 DEF VisitFirst, Goes
  <1>4. CASE VisitSecond BY <1>4 DEF VisitSecond, Goes, Pass
  <1>5. CASE RecordFirst BY <1>5 DEF RecordFirst, PopVerifyRequest, Pops, Idle
  <1>6. CASE Scan
    <2>1. PICK u \in v.todo : ScanOther(u) \/ ScanGone(u) \/ ScanKnown(u) \/ ScanWaiting(u)
      BY <1>6 DEF Scan
    <2>2. v.step = "scan" /\ UNCHANGED <<requests, h, refs, freed, left>> BY <1>6 DEF Scan
    <2>3. CASE ScanOther(u) \/ ScanKnown(u)
      <3>1. history' = history BY <2>3 DEF ScanOther, ScanKnown
      <3>2. VShape' /\ v'.step = "scan" BY <2>2, <2>3 DEF ScanOther, ScanKnown, Seen
      <3> QED BY <2>2, <3>1, <3>2 DEF Goes
    <2>4. CASE ScanGone(u) \/ ScanWaiting(u)
      <3>1. DistributeHtyDtcRequest BY <2>4 DEF ScanGone, ScanWaiting
      <3>2. VShape' /\ v'.step = "scan" BY <2>2, <2>4 DEF ScanGone, ScanWaiting, Seen
      <3> QED BY <2>2, <3>1, <3>2 DEF HandsOn
    <2> QED BY <2>1, <2>3, <2>4
  <1>7. CASE EndScan
    <2>1. v.step = "scan" /\ UNCHANGED <<requests, h, refs, left>> BY <1>7 DEF EndScan
    <2>2. PICK verdict : \/ /\ \E f \in v.firsts : v' = [Pass(f, TRUE) EXCEPT !.verdict = verdict]
                            /\ UNCHANGED <<history, freed>>
                         \/ /\ v' = [v EXCEPT !.step = "decide", !.verdict = verdict]
                            /\ DistributeEndOfSyncObj
      BY <1>7 DEF EndScan
    <2>3. CASE \E f \in v.firsts : v' = [Pass(f, TRUE) EXCEPT !.verdict = verdict]
                                   /\ UNCHANGED <<history, freed>>
      BY <2>1, <2>3 DEF Goes, Pass
    <2>4. CASE v' = [v EXCEPT !.step = "decide", !.verdict = verdict] /\ DistributeEndOfSyncObj
      BY <2>1, <2>4 DEF Ends
    <2> QED BY <2>2, <2>3, <2>4
  <1>8. CASE Racy BY <1>8 DEF Racy, Goes
  <1>9. CASE NotShared BY <1>9 DEF NotShared, Goes
  <1>10. CASE HandleNoRace BY <1>10 DEF HandleNoRace, PopVerifyRequest, Pops, Idle
  <1>11. CASE PostSemaphore
    <2>1. v.step = "wake" /\ UNCHANGED <<history, h, refs, freed, left>>
      BY <1>11 DEF PostSemaphore
    <2>2. PICK u \in v.wake : IF v.wake = {u} /\ ~v.available
                              THEN PopVerifyRequest
                              ELSE v' = [v EXCEPT !.wake = @ \ {u}] /\ UNCHANGED requests
      BY <1>11 DEF PostSemaphore
    <2>3. CASE PopVerifyRequest BY <2>1, <2>3 DEF PopVerifyRequest, Pops, Idle
    <2>4. CASE v' = [v EXCEPT !.wake = @ \ {u}] /\ UNCHANGED requests
      BY <2>1, <2>4 DEF Goes
    <2> QED BY <2>2, <2>3, <2>4
  <1>12. CASE MakeAvailable BY <1>12 DEF MakeAvailable, PopVerifyRequest, Pops, Idle
  <1> QED BY <1>1, <1>2, <1>3, <1>4, <1>5, <1>6, <1>7, <1>8, <1>9, <1>10, <1>11, <1>12
      DEF StartWaitVerification
-----------------------------------------------------------------------------
(* ObjInv is inductive. *)

\* What keeps an object as it is: markers do not move past requests of theirs.
LEMMA UnmarkedKept ==
  ASSUME NEW o, Unmarked(o), refs'[o] = refs[o], o \in freed' => o \in freed,
         \A q \in Queue : NoMark(history[q], o) => NoMark(history'[q], o)
  PROVE  Unmarked(o)'
  BY DEF Unmarked, Queue

LEMMA EndedKept ==
  ASSUME NEW o, Ended(o), refs'[o] = refs[o], o \in freed' => o \in freed,
         \A q \in Queue : /\ MarkedLast(history[q], o) => MarkedLast(history'[q], o)
                          /\ NoneOf(history[q], o) /\ ~InHand(q, o)
                               => NoneOf(history'[q], o) /\ ~InHand(q, o)'
  PROVE  Ended(o)'
  <1>1. \A q \in Queue : NoneOf(history'[q], o) <=> NoneOf(history[q], o)
    BY DEF Ended, MarkedLast, NoneOf
  <1>2. {q \in Queue : NoneOf(history'[q], o)} = {q \in Queue : NoneOf(history[q], o)} BY <1>1
  <1>3. \A q \in Queue : \/ MarkedLast(history'[q], o)
                         \/ NoneOf(history'[q], o) /\ ~InHand(q, o)'
    BY DEF Ended
  <1>4. o \in freed' => \A q \in Queue : NoneOf(history'[q], o) BY <1>1 DEF Ended
  <1>5. refs'[o] = Cardinality({q \in Queue : NoneOf(history'[q], o)}) BY <1>2 DEF Ended
  <1>6. Queue' = Queue BY DEF Queue
  <1> QED BY <1>3, <1>4, <1>5, <1>6 DEF Ended

\* Requests come in under new names and nothing else changes.
LEMMA LeftFalls ==
  ASSUME left \in Int, NEW t \in Thread, PSync(t) \/ POther(t) \/ PAccess(t)
  PROVE  left' = left \/ left' = left - 1
  <1> USE DEF Raise
  <1>1. ASSUME Access(t), ~HandleRace(t), ~WakeUpOne(t) PROVE left' = left \/ left' = left - 1
    BY <1>1 DEF Access, BeforeMem, ChooseRandomThreadBeforeProcess, LeaveRegion, RecordAndPostpone,
       RecordAndKeepup, WakeUpDone, KeepupThread, PostponeThread, TakePermit, TimeOut, AfterWait
  <1>2. CASE HandleRace(t) BY <1>2 DEF HandleRace
  <1>3. CASE WakeUpOne(t) BY <1>3 DEF WakeUpOne
  <1>4. CASE Threads(t)
    BY <1>4 DEF Threads, Create, ThreadStart, ThreadExit, BeforePthreadJoin, RealJoin,
       AfterPthreadJoin
  <1>5. CASE Mutexes(t)
    BY <1>5 DEF Mutexes, BeforePthreadMutexLock, RealMutexLock, AfterPthreadMutexLock,
       RealMutexUnlock, AfterPthreadMutexUnlock, BeforePthreadMutexTryLock, RealMutexTryLock,
       AfterTryFailed
  <1>6. CASE Rwlocks(t)
    BY <1>6 DEF Rwlocks, BeforePthreadRwlockRdlock, RealRwlockRdlock, AfterPthreadRwlockRdlock,
       BeforePthreadRwlockWrlock, RealRwlockWrlock, AfterPthreadRwlockWrlock, RealRwlockTryFail,
       RealRwlockUnlock, AfterPthreadRwlockUnlock
  <1>7. CASE Barriers(t)
    BY <1>7 DEF Barriers, BeforePthreadBarrierWait, RealBarrierWait, AfterPthreadBarrierWait
  <1>8. CASE Conds(t)
    BY <1>8 DEF Conds, BeforePthreadCondWait, RealCondWait, RealCondSignal, RealCondReturn,
       AfterPthreadCondWait
  <1>9. CASE Sems(t)
    BY <1>9 DEF Sems, BeforeSemPost, RealSemPost, BeforeSemWait, RealSemWait, AfterSemWait
  <1>10. CASE PushVerifyRequest(t) \/ PPostponeThread(t) \/ BeingPostponed(t)
    BY <1>10 DEF PushVerifyRequest, PPostponeThread, BeingPostponed
  <1> QED BY <1>1, <1>2, <1>3, <1>4, <1>5, <1>6, <1>7, <1>8, <1>9, <1>10, SchedulerSteps
      DEF PAccess, Step
\* Objects stay as they are with the history queues.
LEMMA ObjectsKept ==
  ASSUME ObjInv, UNCHANGED <<history, h, refs, freed>>
  PROVE  \A o \in DOMAIN refs' : Unmarked(o)' \/ Ended(o)'
  <1>1. \A q \in Queue : history'[q] = history[q] /\ h'[q] = h[q] OBVIOUS
  <1>2. ASSUME NEW o, Unmarked(o) PROVE Unmarked(o)' BY <1>1, <1>2, UnmarkedKept
  <1>3. ASSUME NEW o, Ended(o) PROVE Ended(o)'
    <2>1. \A q \in Queue : InHand(q, o)' <=> InHand(q, o) BY <1>1 DEF InHand
    <2> QED BY <1>1, <1>3, <2>1, EndedKept
  <1> QED BY <1>2, <1>3 DEF ObjInv

\* A step that leaves the queues and the objects alone.
LEMMA QuietObj ==
  ASSUME ObjInv, UNCHANGED <<requests, history, h, refs, freed>>, VShape',
         v'.step \in Working => v.step \in Working,
         v'.step # "idle" => v.step # "idle" \/ requests # << >>,
         left' \in Int, left' <= left
  PROVE  ObjInv'
  <1>1. ObjTypes'
    BY DEF ObjInv, ObjTypes, Queue
  <1>2. \A o \in DOMAIN refs' : Unmarked(o)' \/ Ended(o)'
    BY ObjectsKept
  <1>3. Waiting' BY DEF ObjInv, Waiting, Unmarked, Queue, Working
  <1> QED BY <1>1, <1>2, <1>3 DEF ObjInv

LEMMA PopsObj ==
  ASSUME ObjInv, Pops, VShape', left' = left
  PROVE  ObjInv'
  <1>0. ObjTypes /\ requests # << >> /\ IsQueue(requests) /\ requests' = Tail(requests)
        /\ UNCHANGED <<history, h, refs, freed>> /\ v'.step = "idle"
    BY DEF ObjInv, ObjTypes, Pops, Idle
  <1>1. /\ IsQueue(requests') /\ Len(requests) \in Nat \ {0} /\ Len(requests') = Len(requests) - 1
        /\ \A k \in 1..Len(requests) - 1 : requests'[k] = requests[k + 1]
    BY <1>0, QueueTail
  <1>2. \A k \in 1..Len(requests') : k + 1 \in 1..Len(requests) /\ requests'[k] = requests[k + 1]
    BY <1>1
  <1>3. \A k \in 1..Len(requests') : requests'[k].id \in DOMAIN refs' BY <1>0, <1>2 DEF ObjTypes
  <1>4. \A j, k \in 1..Len(requests') : requests'[j].id = requests'[k].id => j = k
    <2> TAKE j, k \in 1..Len(requests')
    <2>1. requests[j + 1].id = requests[k + 1].id => j + 1 = k + 1 BY <1>0, <1>2 DEF ObjTypes
    <2> QED BY <1>2, <2>1
  <1>5. ObjTypes' BY <1>0, <1>1, <1>3, <1>4 DEF ObjTypes, Queue
  <1>6. \A o \in DOMAIN refs' : Unmarked(o)' \/ Ended(o)'
    BY <1>0, ObjectsKept
  <1>7. Waiting'
    <2>1. \A k \in 1..Len(requests') : Unmarked(requests[k + 1].id)
      BY <1>1, <1>2 DEF ObjInv, Waiting
    <2> QED BY <1>0, <1>2, <2>1 DEF Waiting, Unmarked, Queue
  <1> QED BY <1>5, <1>6, <1>7 DEF ObjInv

\* The request at the head of the queue.
LEMMA HeadRequest ==
  ASSUME ObjInv, v.step = "scan"
  PROVE  /\ requests # << >> /\ 1 \in 1..Len(requests) /\ r = requests[1]
         /\ r.id \in DOMAIN refs /\ Unmarked(r.id)
         /\ \A k \in 1..Len(requests) : requests[k].id = r.id => k = 1
  <1>1. requests # << >> /\ IsQueue(requests) BY DEF ObjInv, ObjTypes
  <1>2. Head(requests) = requests[1] /\ Len(requests) \in Nat \ {0} BY <1>1, QueueTail
  <1>3. 1 \in 1..Len(requests) BY <1>2
  <1> QED BY <1>1, <1>2, <1>3 DEF ObjInv, ObjTypes, Waiting, Working, r

\* What the queues may hold after a step.
LEMMA QueuesKept ==
  ASSUME ObjInv, VShape', UNCHANGED <<requests, refs, left>>, v.step # "idle",
         DOMAIN history' = Queue, freed' \subseteq DOMAIN refs, h' = h,
         NEW e, e.req.id \in DOMAIN refs,
         \A q \in Queue : history'[q] = history[q] \/ history'[q] = Append(history[q], e)
  PROVE  ObjTypes'
  <1>1. \A q \in Queue : /\ IsQueue(history'[q])
                         /\ \A k \in 1..Len(history'[q]) : history'[q][k].req.id \in DOMAIN refs
    <2> TAKE q \in Queue
    <2>1. CASE history'[q] = history[q] BY <2>1 DEF ObjInv, ObjTypes
    <2>2. CASE history'[q] = Append(history[q], e)
      <3>1. IsQueue(history[q])
            /\ \A k \in 1..Len(history[q]) : history[q][k].req.id \in DOMAIN refs
        BY DEF ObjInv, ObjTypes
      <3> DEFINE s == history[q]
                 a == Append(s, e)
      <3>2. /\ IsQueue(a) /\ Len(s) \in Nat /\ Len(a) = Len(s) + 1
            /\ \A k \in 1..Len(s) : a[k] = s[k]
            /\ a[Len(s) + 1] = e
        BY <3>1, QueueAppend
      <3>3. history'[q] = a BY <2>2
      <3> HIDE DEF a
      <3>4. \A k \in 1..Len(a) : a[k] = e \/ (k \in 1..Len(s) /\ a[k] = s[k]) BY <3>2
      <3> QED BY <3>1, <3>2, <3>3, <3>4
    <2> QED BY <2>1, <2>2
  <1> QED BY <1>1 DEF ObjInv, ObjTypes, Queue

LEMMA HandsOnObj ==
  ASSUME ObjInv, HandsOn, VShape', left' = left
  PROVE  ObjInv'
  <1> DEFINE e == [req |-> r, mark |-> FALSE]
  <1>0. ObjTypes /\ v.step = "scan" /\ v'.step = "scan" /\ UNCHANGED <<requests, h, refs, freed>>
    BY DEF ObjInv, HandsOn
  <1>1. /\ DOMAIN history' = Queue
        /\ \A q \in Queue : history'[q] = history[q] \/ history'[q] = Append(history[q], e)
    BY <1>0 DEF HandsOn, DistributeHtyDtcRequest, ObjTypes
  <1>2. r.id \in DOMAIN refs /\ Unmarked(r.id) BY <1>0, HeadRequest
  <1>3. e.req.id = r.id /\ ~e.mark OBVIOUS
  <1> HIDE DEF e
  <1>4. ObjTypes' BY <1>0, <1>1, <1>2, <1>3, QueuesKept DEF ObjTypes
  <1>5. \A q \in Queue : IsQueue(history[q]) BY <1>0 DEF ObjTypes
  <1>6. ASSUME NEW o, Unmarked(o) PROVE Unmarked(o)'
    <2>1. \A q \in Queue : NoMark(history[q], o) => NoMark(history'[q], o)
      BY <1>1, <1>3, <1>5, MarkAppend
    <2> QED BY <1>0, <1>6, <2>1, UnmarkedKept
  <1>7. ASSUME NEW o, Ended(o), o # r.id PROVE Ended(o)'
    <2>1. \A q \in Queue : /\ MarkedLast(history[q], o) => MarkedLast(history'[q], o)
                           /\ NoneOf(history[q], o) /\ ~InHand(q, o)
                                => NoneOf(history'[q], o) /\ ~InHand(q, o)'
      BY <1>0, <1>1, <1>3, <1>5, <1>7, MarkAppend DEF InHand
    <2> QED BY <1>0, <1>7, <2>1, EndedKept
  <1>8. \A o \in DOMAIN refs' : Unmarked(o)' \/ Ended(o)'
    BY <1>0, <1>2, <1>6, <1>7 DEF ObjInv
  <1>9. Waiting'
    <2>1. \A k \in 1..Len(requests) : Unmarked(requests[k].id)
      BY <1>0 DEF ObjInv, Waiting, Working
    <2> QED BY <1>0, <1>6, <2>1 DEF Waiting, Unmarked, Queue
  <1> QED BY <1>4, <1>8, <1>9 DEF ObjInv

\* The end of an object: a marker in every queue, and nobody has passed it yet.
LEMMA EndsObj ==
  ASSUME ObjInv, Ends, VShape', left' = left
  PROVE  ObjInv'
  <1> DEFINE e == [req |-> r, mark |-> TRUE]
  <1>0. ObjTypes /\ v.step = "scan" /\ v'.step = "decide" /\ UNCHANGED <<requests, h, refs>>
    BY DEF ObjInv, Ends
  <1>1. /\ DOMAIN history' = Queue
        /\ \A q \in Queue : history'[q] = Append(history[q], e)
        /\ freed' = IF NumQueues < 0 THEN freed \cup {r.id} ELSE freed
    BY DEF Ends, DistributeEndOfSyncObj
  <1>2. /\ r.id \in DOMAIN refs /\ Unmarked(r.id)
        /\ \A k \in 1..Len(requests) : requests[k].id = r.id => k = 1
    BY <1>0, HeadRequest
  <1>3. e.req.id = r.id /\ e.mark OBVIOUS
  <1> HIDE DEF e
  <1>4. ObjTypes'
    <2>1. freed' \subseteq DOMAIN refs BY <1>0, <1>1, <1>2 DEF ObjTypes
    <2> QED BY <1>0, <1>1, <1>2, <1>3, <2>1, QueuesKept
  <1>5. \A q \in Queue : IsQueue(history[q]) BY <1>0 DEF ObjTypes
  <1>6. ASSUME NEW o, Unmarked(o), o # r.id PROVE Unmarked(o)'
    <2>1. \A q \in Queue : NoMark(history[q], o) => NoMark(history'[q], o)
      BY <1>1, <1>3, <1>5, <1>6, MarkAppend
    <2> QED BY <1>0, <1>1, <1>6, <2>1, UnmarkedKept
  <1>7. ASSUME NEW o, Ended(o), o # r.id PROVE Ended(o)'
    <2>1. \A q \in Queue : /\ MarkedLast(history[q], o) => MarkedLast(history'[q], o)
                           /\ NoneOf(history[q], o) /\ ~InHand(q, o)
                                => NoneOf(history'[q], o) /\ ~InHand(q, o)'
      BY <1>0, <1>1, <1>3, <1>5, <1>7, MarkAppend DEF InHand
    <2> QED BY <1>0, <1>1, <1>7, <2>1, EndedKept
  <1>8. ASSUME NEW o, o = r.id PROVE Ended(o)'
    <2>1. \A q \in Queue : MarkedLast(history'[q], o)
      <3> TAKE q \in Queue
      <3>1. NoMark(history[q], o) BY <1>2, <1>8 DEF Unmarked
      <3>2. history'[q] = Append(history[q], e) /\ IsQueue(history[q]) BY <1>1, <1>5
      <3>3. e.req.id = o /\ e.mark BY <1>3, <1>8
      <3>4. MarkedLast(Append(history[q], e), o) BY <3>1, <3>2, <3>3, MarkAppend
      <3> QED BY <3>2, <3>4
    <2>2. \A q \in Queue : ~NoneOf(history'[q], o) BY <2>1 DEF MarkedLast, NoneOf
    <2>3. {q \in Queue : NoneOf(history'[q], o)} = {} BY <2>2
    <2>4. refs'[o] = Cardinality({q \in Queue : NoneOf(history'[q], o)})
      BY <1>0, <1>2, <1>8, <2>3, FS_EmptySet DEF Unmarked
    <2>5. o \in freed' => Queue = {}
      BY <1>1, <1>2, <1>8, QueuesAssumption DEF Unmarked, Queue
    <2>6. Ended(o)' <=>
            /\ \A q \in Queue : \/ MarkedLast(history'[q], o)
                                \/ NoneOf(history'[q], o) /\ ~InHand(q, o)'
            /\ refs'[o] = Cardinality({q \in Queue : NoneOf(history'[q], o)})
            /\ o \in freed' => \A q \in Queue : NoneOf(history'[q], o)
      BY <1>0 DEF Ended, Queue
    <2> QED BY <2>1, <2>4, <2>5, <2>6
  <1>9. \A o \in DOMAIN refs' : Unmarked(o)' \/ Ended(o)'
    <2> TAKE o \in DOMAIN refs'
    <2>1. CASE o = r.id BY <1>8, <2>1
    <2>2. CASE o # r.id BY <1>0, <1>6, <1>7, <2>2 DEF ObjInv
    <2> QED BY <2>1, <2>2
  <1>10. Waiting'
    <2>1. \A k \in 1..Len(requests) : k > 1 => Unmarked(requests[k].id) /\ requests[k].id # r.id
      BY <1>0, <1>2 DEF ObjInv, Waiting
    <2> QED BY <1>0, <1>6, <2>1 DEF Waiting, Working, Unmarked, Queue
  <1> QED BY <1>4, <1>9, <1>10 DEF ObjInv
\* A history thread compares its request with one thread more.
LEMMA HistoryObj ==
  ASSUME ObjInv, NEW q \in Queue, NEW u \in Thread, HistoryDetection(q, u)
  PROVE  ObjInv'
  <1>0. /\ ObjTypes /\ Taken(q) /\ UNCHANGED <<requests, v, refs, freed, left>>
        /\ h' = [h EXCEPT ![q] = IF Held(q).todo = {u} THEN Nothing
                                 ELSE [Held(q) EXCEPT !.todo = @ \ {u}]]
        /\ history' = IF h[q].todo # {} THEN history ELSE [history EXCEPT ![q] = Tail(@)]
    BY DEF ObjInv, HistoryDetection, progVars, objVars
  <1>1. /\ DOMAIN history' = Queue /\ DOMAIN h' = Queue
        /\ \A p \in Queue : p # q => history'[p] = history[p] /\ h'[p] = h[p]
        /\ h[q].todo # {} => history'[q] = history[q]
        /\ h[q].todo = {} => history'[q] = Tail(history[q]) /\ history[q] # << >>
                             /\ ~Head(history[q]).mark
    BY <1>0 DEF ObjTypes, Taken
  <1>2. IsQueue(history[q]) /\ \A k \in 1..Len(history[q]) : history[q][k].req.id \in DOMAIN refs
    BY <1>0 DEF ObjTypes
  <1>3. ASSUME h[q].todo = {}
        PROVE  /\ IsQueue(history'[q])
               /\ \A k \in 1..Len(history'[q]) : history'[q][k].req.id \in DOMAIN refs
    <2>1. /\ IsQueue(history'[q]) /\ Len(history'[q]) = Len(history[q]) - 1
          /\ Len(history[q]) \in Nat
          /\ \A k \in 1..Len(history[q]) - 1 : history'[q][k] = history[q][k + 1]
      <3>1. history'[q] = Tail(history[q]) /\ history[q] # << >> BY <1>1, <1>3
      <3> QED BY <1>2, <3>1, QueueTail
    <2>2. \A k \in 1..Len(history'[q]) :
            k + 1 \in 1..Len(history[q]) /\ history'[q][k] = history[q][k + 1]
      BY <2>1
    <2> QED BY <1>2, <2>1, <2>2
  <1>4. /\ h'[q] = [req |-> h'[q].req, todo |-> h'[q].todo]
        /\ h'[q].todo # {} => h'[q].req = Held(q).req
    <2>1. h[q] = [req |-> h[q].req, todo |-> h[q].todo] BY <1>0 DEF ObjTypes
    <2>2. Held(q) = [req |-> Held(q).req, todo |-> Held(q).todo] BY <2>1 DEF Held
    <2>3. h'[q] = IF Held(q).todo = {u} THEN Nothing ELSE [Held(q) EXCEPT !.todo = @ \ {u}]
      BY <1>0 DEF ObjTypes
    <2>4. CASE Held(q).todo = {u} BY <2>3, <2>4 DEF Nothing
    <2>5. CASE Held(q).todo # {u}
      <3>1. h'[q] = [req |-> Held(q).req, todo |-> Held(q).todo \ {u}] BY <2>2, <2>3, <2>5
      <3> QED BY <3>1
    <2> QED BY <2>4, <2>5
  <1>5. ObjTypes' BY <1>0, <1>1, <1>2, <1>3, <1>4 DEF ObjTypes, Queue, VShape
  <1>6. ASSUME NEW o, Unmarked(o) PROVE Unmarked(o)'
    <2>1. NoMark(history[q], o) => NoMark(history'[q], o)
      <3>1. CASE h[q].todo # {} BY <1>1, <3>1
      <3>2. CASE h[q].todo = {}
        <4>1. history'[q] = Tail(history[q]) /\ history[q] # << >> BY <1>1, <3>2
        <4> QED BY <1>2, <4>1, MarkTail
      <3> QED BY <3>1, <3>2
    <2>2. \A p \in Queue : NoMark(history[p], o) => NoMark(history'[p], o) BY <1>1, <2>1
    <2> QED BY <1>0, <1>6, <2>2, UnmarkedKept
  <1>7. ASSUME NEW o, Ended(o) PROVE Ended(o)'
    <2>1. ASSUME NEW p \in Queue, MarkedLast(history[p], o) PROVE MarkedLast(history'[p], o)
      <3>1. CASE p # q \/ h[q].todo # {} BY <1>1, <2>1, <3>1
      <3>2. CASE p = q /\ h[q].todo = {}
        <4>1. history'[q] = Tail(history[q]) /\ history[q] # << >> /\ ~Head(history[q]).mark
          BY <1>1, <3>2
        <4> QED BY <1>2, <2>1, <3>2, <4>1, MarkTail
      <3> QED BY <3>1, <3>2
    <2>2. ASSUME NEW p \in Queue, NoneOf(history[p], o), ~InHand(p, o)
          PROVE  NoneOf(history'[p], o) /\ ~InHand(p, o)'
      <3>1. CASE p # q BY <1>1, <2>2, <3>1 DEF InHand
      <3>2. CASE p = q /\ h[q].todo # {}
        BY <1>1, <1>4, <2>2, <3>2 DEF InHand, Held
      <3>3. CASE p = q /\ h[q].todo = {}
        <4>1. NoneOf(history'[q], o) /\ Head(history[q]).req.id # o
          <5>1. history'[q] = Tail(history[q]) /\ history[q] # << >> BY <1>1, <3>3
          <5> QED BY <1>2, <2>2, <3>3, <5>1, MarkTail
        <4>2. Held(q).req = Head(history[q]).req BY <3>3 DEF Held
        <4> QED BY <1>4, <3>3, <4>1, <4>2 DEF InHand
      <3> QED BY <3>1, <3>2, <3>3
    <2> QED BY <1>0, <1>7, <2>1, <2>2, EndedKept
  <1>8. \A o \in DOMAIN refs' : Unmarked(o)' \/ Ended(o)' BY <1>0, <1>6, <1>7 DEF ObjInv
  <1>9. Waiting'
    <2>1. Waiting BY DEF ObjInv
    <2> QED BY <1>0, <1>6, <2>1 DEF Waiting, Unmarked, Queue
  <1> QED BY <1>5, <1>8, <1>9 DEF ObjInv

\* A history thread passes a marker; the last of them deletes the object.
LEMMA MarkObj ==
  ASSUME ObjInv, NEW q \in Queue, ClearMark(q)
  PROVE  ObjInv'
  <1> DEFINE m == Head(history[q]).req.id
  <1>0. /\ ObjTypes /\ UNCHANGED <<requests, v, h, left>>
        /\ h[q].todo = {} /\ history[q] # << >> /\ Head(history[q]).mark
        /\ refs' = [refs EXCEPT ![m] = @ + 1]
        /\ freed' = IF refs[m] + 1 = NumQueues THEN freed \cup {m} ELSE freed
        /\ history' = [history EXCEPT ![q] = Tail(@)]
    BY DEF ObjInv, ClearMark, progVars, workVars
  <1>1. /\ DOMAIN history' = Queue
        /\ \A p \in Queue : p # q => history'[p] = history[p]
        /\ history'[q] = Tail(history[q])
    BY <1>0 DEF ObjTypes
  <1>2. IsQueue(history[q]) /\ \A k \in 1..Len(history[q]) : history[q][k].req.id \in DOMAIN refs
    BY <1>0 DEF ObjTypes
  <1>3. /\ IsQueue(history'[q]) /\ Len(history'[q]) = Len(history[q]) - 1
        /\ Len(history[q]) \in Nat \ {0}
        /\ \A k \in 1..Len(history[q]) - 1 : history'[q][k] = history[q][k + 1]
        /\ Head(history[q]) = history[q][1]
    BY <1>0, <1>1, <1>2, QueueTail
  <1>4. 1 \in 1..Len(history[q]) BY <1>3
  <1>5. m \in DOMAIN refs /\ refs[m] \in Nat BY <1>0, <1>2, <1>3, <1>4 DEF ObjTypes
  <1>6. ~NoMark(history[q], m) /\ ~NoneOf(history[q], m)
    BY <1>0, <1>3, <1>4 DEF NoMark, NoneOf
  <1>7. Ended(m) /\ ~Unmarked(m) BY <1>5, <1>6 DEF ObjInv, Unmarked
  <1>8. m \notin freed BY <1>6, <1>7 DEF Ended
  <1>9. NoneOf(history'[q], m)
    <2>1. MarkedLast(history[q], m) BY <1>6, <1>7 DEF Ended
    <2> QED BY <1>0, <1>1, <1>2, <2>1, MarkTail
  <1>10. /\ refs' \in [DOMAIN refs -> Nat] /\ DOMAIN refs' = DOMAIN refs /\ refs'[m] = refs[m] + 1
         /\ \A o \in DOMAIN refs : o # m => refs'[o] = refs[o]
    BY <1>0, <1>5 DEF ObjTypes
  <1>11. ObjTypes'
    <2>1. \A k \in 1..Len(history'[q]) : history'[q][k].req.id \in DOMAIN refs BY <1>2, <1>3
    <2>2. \A p \in Queue : /\ IsQueue(history'[p])
                           /\ \A k \in 1..Len(history'[p]) : history'[p][k].req.id \in DOMAIN refs
      BY <1>0, <1>1, <1>3, <2>1 DEF ObjTypes
    <2>3. freed' \subseteq DOMAIN refs BY <1>0, <1>5 DEF ObjTypes
    <2> HIDE DEF m
    <2> QED BY <1>0, <1>1, <1>10, <2>2, <2>3 DEF ObjTypes, Queue, VShape
  <1>12. ASSUME NEW o \in DOMAIN refs, Unmarked(o) PROVE Unmarked(o)'
    <2>1. \A p \in Queue : NoMark(history[p], o) => NoMark(history'[p], o)
      BY <1>0, <1>1, <1>2, MarkTail
    <2>2. o # m BY <1>7, <1>12
    <2> HIDE DEF m
    <2> QED BY <1>0, <1>10, <1>12, <2>1, <2>2, UnmarkedKept
  <1>13. ASSUME NEW o \in DOMAIN refs, Ended(o), o # m PROVE Ended(o)'
    <2>1. \A p \in Queue : /\ MarkedLast(history[p], o) => MarkedLast(history'[p], o)
                           /\ NoneOf(history[p], o) /\ ~InHand(p, o)
                                => NoneOf(history'[p], o) /\ ~InHand(p, o)'
      BY <1>0, <1>1, <1>2, <1>13, MarkTail DEF InHand
    <2> HIDE DEF m
    <2> QED BY <1>0, <1>10, <1>13, <2>1, EndedKept
  <1>14. ASSUME NEW o, o = m PROVE Ended(o)'
    <2> DEFINE N == {p \in Queue : NoneOf(history[p], o)}
               M == {p \in Queue : NoneOf(history'[p], o)}
    <2>1. M = N \cup {q} /\ q \notin N BY <1>1, <1>6, <1>9, <1>14
    <2>2. IsFiniteSet(Queue) /\ Cardinality(Queue) = NumQueues
      BY QueuesAssumption, FS_Interval DEF Queue
    <2>3. N \subseteq Queue /\ M \subseteq Queue OBVIOUS
    <2> HIDE DEF N, M
    <2>4. IsFiniteSet(N) /\ IsFiniteSet(M) BY <2>2, <2>3, FS_Subset
    <2>5. Cardinality(M) = Cardinality(N) + 1 BY <2>1, <2>4, FS_AddElement
    <2>6. refs'[o] = Cardinality(M)
      BY <1>7, <1>10, <1>14, <2>5 DEF Ended, N
    <2>7. o \in freed' => M = Queue
      <3>1. o \in freed' => Cardinality(M) = Cardinality(Queue)
        BY <1>0, <1>8, <1>10, <1>14, <2>2, <2>6
      <3> QED BY <2>2, <2>3, <3>1, FS_Subset
    <2>8. \A p \in Queue : \/ MarkedLast(history'[p], o)
                           \/ NoneOf(history'[p], o) /\ ~InHand(p, o)'
      <3> TAKE p \in Queue
      <3>1. CASE p = q BY <1>0, <1>9, <1>14, <3>1 DEF InHand
      <3>2. CASE p # q BY <1>0, <1>1, <1>7, <1>14, <3>2 DEF Ended, InHand
      <3> QED BY <3>1, <3>2
    <2> QED BY <2>6, <2>7, <2>8 DEF Ended, M, Queue
  <1> HIDE DEF m
  <1>15. \A o \in DOMAIN refs' : Unmarked(o)' \/ Ended(o)'
    BY <1>10, <1>12, <1>13, <1>14 DEF ObjInv
  <1>16. Waiting'
    <2>1. Waiting /\ \A k \in 1..Len(requests) : requests[k].id \in DOMAIN refs
      BY <1>0 DEF ObjInv, ObjTypes
    <2> QED BY <1>0, <1>12, <2>1 DEF Waiting, Unmarked, Queue
  <1> QED BY <1>11, <1>15, <1>16 DEF ObjInv

\* A request comes in under a new name.
LEMMA PushObj ==
  ASSUME ObjInv, NEW t \in Thread, PushVerifyRequest(t)
  PROVE  ObjInv'
  <1>0. /\ ObjTypes /\ UNCHANGED <<v, h, history, freed>>
        /\ left' = left - 1 /\ refs' = With(refs, left, 0)
    BY DEF ObjInv, PushVerifyRequest, Raise, workVars
  <1>1. PICK e : requests' = Append(requests, e) /\ e.id = left
    <2>1. PICK i \in Code[t], x \in Unit :
            requests' = Append(requests,
              [thd |-> t, inst |-> i, unit |-> x, id |-> left,
               vc |-> vc[t], wr |-> ls[t], rd |-> rdls[t]])
      BY DEF PushVerifyRequest
    <2> QED BY <2>1
  <1>2. left \in Int /\ left \notin DOMAIN refs BY <1>0 DEF ObjTypes
  <1>3. /\ DOMAIN refs' = DOMAIN refs \cup {left} /\ refs' \in [DOMAIN refs' -> Nat]
        /\ refs'[left] = 0 /\ \A o \in DOMAIN refs : refs'[o] = refs[o]
    BY <1>0, <1>2 DEF ObjTypes, With
  <1>4. /\ IsQueue(requests') /\ Len(requests) \in Nat /\ Len(requests') = Len(requests) + 1
        /\ \A k \in 1..Len(requests) : requests'[k] = requests[k]
        /\ requests'[Len(requests) + 1] = e /\ requests' # << >>
    BY <1>0, <1>1, QueueAppend DEF ObjTypes
  <1>5. \A k \in 1..Len(requests') : \/ k \in 1..Len(requests)
                                     \/ k = Len(requests) + 1
    BY <1>4
  <1>6. ObjTypes'
    <2>1. \A k \in 1..Len(requests') : requests'[k].id \in DOMAIN refs'
      BY <1>0, <1>1, <1>3, <1>4, <1>5 DEF ObjTypes
    <2>2. \A j, k \in 1..Len(requests') : requests'[j].id = requests'[k].id => j = k
      <3>1. \A k \in 1..Len(requests) : requests'[k].id # left BY <1>0, <1>2, <1>4 DEF ObjTypes
      <3>2. \A j, k \in 1..Len(requests) : requests'[j].id = requests'[k].id => j = k
        BY <1>0, <1>4 DEF ObjTypes
      <3>3. requests'[Len(requests) + 1].id = left BY <1>1, <1>4
      <3> QED BY <1>5, <3>1, <3>2, <3>3
    <2>3. \A q \in Queue : \A k \in 1..Len(history'[q]) : history'[q][k].req.id \in DOMAIN refs'
      BY <1>0, <1>3 DEF ObjTypes
    <2>4. freed' \subseteq DOMAIN refs' BY <1>0, <1>3 DEF ObjTypes
    <2>5. DOMAIN refs' \subseteq Int /\ left' \in Int /\ \A o \in DOMAIN refs' : o > left'
      BY <1>0, <1>2, <1>3 DEF ObjTypes
    <2> QED BY <1>0, <1>3, <1>4, <2>1, <2>2, <2>3, <2>4, <2>5 DEF ObjTypes, Queue, VShape
  <1>7. ASSUME NEW o \in DOMAIN refs, Unmarked(o) PROVE Unmarked(o)'
    BY <1>0, <1>3, <1>7, UnmarkedKept
  <1>8. ASSUME NEW o \in DOMAIN refs, Ended(o) PROVE Ended(o)'
    <2>1. \A q \in Queue : InHand(q, o)' <=> InHand(q, o) BY <1>0 DEF InHand
    <2> QED BY <1>0, <1>3, <1>8, <2>1, EndedKept
  <1>9. ASSUME NEW o, o = left PROVE Unmarked(o)'
    <2>1. o \notin freed' BY <1>0, <1>2, <1>9 DEF ObjTypes
    <2>2. \A q \in Queue : NoMark(history'[q], o) BY <1>0, <1>2, <1>9 DEF ObjTypes, NoMark
    <2> QED BY <1>3, <1>9, <2>1, <2>2 DEF Unmarked, Queue
  <1>10. \A o \in DOMAIN refs' : Unmarked(o)' \/ Ended(o)' BY <1>3, <1>7, <1>8, <1>9 DEF ObjInv
  <1>11. Waiting'
    <2>1. Waiting /\ \A k \in 1..Len(requests) : requests[k].id \in DOMAIN refs
      BY <1>0 DEF ObjInv, ObjTypes
    <2>2. \A k \in 1..Len(requests') : requests'[k].id = left \/ (k \in 1..Len(requests) /\ requests'[k] = requests[k])
      BY <1>1, <1>4, <1>5
    <2> QED BY <1>0, <1>7, <1>9, <2>1, <2>2 DEF Waiting, Unmarked, Queue
  <1> QED BY <1>6, <1>10, <1>11 DEF ObjInv
LEMMA ObjStep ==
  ASSUME ObjInv, [PNext]_pVars
  PROVE  ObjInv'
  <1>0. VShape /\ left \in Int BY DEF ObjInv, ObjTypes
  <1>1. ASSUME NEW t \in Thread, PSync(t) \/ POther(t) \/ PAccess(t), ~PushVerifyRequest(t)
        PROVE  ObjInv'
    <2>1. UNCHANGED <<queueVars, workVars, objVars>>
      BY <1>1 DEF PSync, POther, PAccess, PCreate, PThreadStart, PAfterPthreadJoin,
         ProcessPostMutexLock, ProcessSignal, PAfterPthreadCondWait, ProcessPreMutexUnlock,
         PBeforePthreadCondWait, ProcessPostRwlockRdlock, ProcessPostRwlockWrlock,
         ProcessPreRwlockUnlock, PBeforePthreadBarrierWait, PAfterPthreadBarrierWait,
         PBeforeSemPost, PAfterSemWait, PPostponeThread, BeingPostponed, PAfterWait, restVars
    <2>2. left' \in Int /\ left' <= left BY <1>0, <1>1, LeftFalls
    <2>3. UNCHANGED <<requests, history, v, h, refs, freed>>
      BY <2>1 DEF queueVars, workVars, objVars
    <2> QED BY <1>0, <2>2, <2>3, QuietObj DEF VShape
  <1>2. ASSUME NEW t \in Thread, PushVerifyRequest(t) PROVE ObjInv'
    BY <1>2, PushObj
  <1>3. CASE StartWaitVerification
    <2>1. VShape' /\ (Goes \/ Pops \/ HandsOn \/ Ends) /\ left' = left
      BY <1>3, VerificationMoves DEF ObjInv
    <2>2. CASE Goes BY <1>0, <2>1, <2>2, QuietObj DEF Goes
    <2> QED BY <2>1, <2>2, PopsObj, HandsOnObj, EndsObj
  <1>4. ASSUME NEW q \in Queue, StartHistoryDetection(q) PROVE ObjInv'
    BY <1>4, HistoryObj, MarkObj DEF StartHistoryDetection
  <1>5. CASE UNCHANGED pVars
    <2>1. UNCHANGED <<requests, history, v, h, refs, freed, left>>
      BY <1>5 DEF pVars, vars, queueVars, workVars, objVars
    <2> QED BY <1>0, <2>1, QuietObj DEF VShape
  <1> QED BY <1>1, <1>2, <1>3, <1>4, <1>5 DEF PNext

LEMMA ObjStart == PInit => ObjInv
  <1> SUFFICES ASSUME PInit PROVE ObjInv OBVIOUS
  <1>1. /\ requests = << >> /\ v = Idle /\ history = [q \in Queue |-> << >>]
        /\ h = [q \in Queue |-> Nothing] /\ refs = << >> /\ freed = {} /\ left \in Int
    BY BoundAssumption DEF PInit, Init
  <1>2. DOMAIN refs = {} /\ refs \in [DOMAIN refs -> Nat] BY <1>1
  <1>3. IsQueue(<< >>) /\ Len(<< >>) = 0 BY DEF IsQueue
  <1>4. VShape BY <1>1 DEF VShape, Idle, Working
  <1>5. \A q \in Queue : /\ history[q] = << >>
                         /\ h[q] = [req |-> h[q].req, todo |-> h[q].todo]
    BY <1>1 DEF Nothing
  <1>6. v.step = "idle" BY <1>1 DEF Idle
  <1>7. ObjTypes BY <1>1, <1>2, <1>3, <1>4, <1>5, <1>6 DEF ObjTypes
  <1> QED BY <1>1, <1>2, <1>3, <1>7 DEF ObjInv, Waiting

\* No sync object is deleted while a request that names it waits, is being
\* compared, or is still in a history queue, with any number of history threads:
\* the markers of an object come last in every queue, and refs counts the queues
\* they have left.
THEOREM ObjectsOutliveUse == PSpec => []SyncObjectsLive
  <1>1. PInit => ObjInv BY ObjStart
  <1>2. ObjInv /\ [PNext]_pVars => ObjInv' BY ObjStep
  <1>3. ObjInv => SyncObjectsLive BY ObjLive
  <1> QED BY <1>1, <1>2, <1>3, PTL DEF PSpec
-----------------------------------------------------------------------------
(* The database.                                                            *)

\* The pairs of statements of the races that have been reported.
Reported == UNION {{{StmtOf[i] : i \in p} : p \in raced[x]} : x \in Unit}

\* Every request is about a unit there is.
InUnit(s) == \A k \in 1..Len(s) : s[k].req.unit \in Unit
UnitsIn ==
  /\ DOMAIN raced = Unit
  /\ \A k \in 1..Len(requests) : requests[k].unit \in Unit
  /\ \A q \in Queue : InUnit(history[q]) /\ (h[q].todo # {} => h[q].req.unit \in Unit)

\* The verification thread reports a race during its scan, and strikes the pair
\* off at the end of it.
Struck == {v.first, Stmt}
DbInv ==
  IF v.step = "scan" /\ v.racy # {}
  THEN Struck \in Reported /\ pairs \ {Struck} = PotentialPairs \ Reported
  ELSE pairs = PotentialPairs \ Reported

\* A report of races on one unit.
LEMMA ReportedAdds ==
  ASSUME NEW x \in Unit, NEW A, DOMAIN raced = Unit,
         raced' = [raced EXCEPT ![x] = @ \cup A]
  PROVE  Reported' = Reported \cup {{StmtOf[i] : i \in p} : p \in A}
  <1> DEFINE St(p) == {StmtOf[i] : i \in p}
  <1>1. \A y \in Unit : raced'[y] = IF y = x THEN raced[y] \cup A ELSE raced[y] OBVIOUS
  <1>2. Reported = UNION {{St(p) : p \in raced[y]} : y \in Unit} BY DEF Reported
  <1>3. Reported' = UNION {{St(p) : p \in raced'[y]} : y \in Unit} BY DEF Reported
  <1> HIDE DEF St
  <1>4. ASSUME NEW z PROVE z \in Reported' <=> z \in Reported \/ z \in {St(p) : p \in A}
    <2>1. z \in Reported' <=> \E y \in Unit : \E p \in raced'[y] : z = St(p) BY <1>3
    <2>2. z \in Reported <=> \E y \in Unit : \E p \in raced[y] : z = St(p) BY <1>2
    <2>3. (\E y \in Unit : \E p \in raced'[y] : z = St(p))
            <=> (\E y \in Unit : \E p \in raced[y] : z = St(p)) \/ \E p \in A : z = St(p)
      BY <1>1
    <2> QED BY <2>1, <2>2, <2>3
  <1>5. Reported' = Reported \cup {St(p) : p \in A} BY <1>4
  <1> QED BY <1>5 DEF St

LEMMA PairOf ==
  ASSUME NEW i, NEW j
  PROVE  {StmtOf[k] : k \in {i, j}} = {StmtOf[i], StmtOf[j]}
  OBVIOUS

\* A step that reports nothing, between scans or inside one.
LEMMA DbKept ==
  ASSUME DbInv, UNCHANGED <<raced, pairs>>,
         \/ v'.step = "scan" /\ v.step = "scan" /\ v'.racy = v.racy /\ v'.first = v.first
            /\ Stmt' = Stmt
         \/ v.step # "scan" /\ (v'.step # "scan" \/ v'.racy = {})
  PROVE  DbInv'
  <1>1. Reported' = Reported BY DEF Reported
  <1> QED BY <1>1 DEF DbInv, Struck

\* What the verification thread finds.
LEMMA ScanDb ==
  ASSUME ObjInv, UnitsIn, DbInv, Scan
  PROVE  DbInv' /\ DOMAIN raced' = Unit
  <1>0. /\ VShape /\ v.step = "scan" /\ pairs' = pairs /\ requests' = requests /\ Stmt' = Stmt
        /\ DOMAIN raced = Unit
    BY DEF ObjInv, ObjTypes, Scan, At, UnitsIn, Stmt, r
  <1>1. r.unit \in Unit BY <1>0, HeadRequest DEF UnitsIn
  <1>2. PICK u \in v.todo : ScanOther(u) \/ ScanGone(u) \/ ScanKnown(u) \/ ScanWaiting(u)
    BY DEF Scan
  <1>3. CASE ScanOther(u) \/ ScanGone(u) \/ ScanKnown(u)
    <2>1. raced' = raced BY <1>3 DEF ScanOther, ScanGone, ScanKnown
    <2>2. v'.step = v.step /\ v'.racy = v.racy /\ v'.first = v.first
      BY <1>0, <1>3 DEF ScanOther, ScanGone, ScanKnown, Seen, VShape
    <2> QED BY <1>0, <2>1, <2>2, DbKept
  <1>4. CASE ScanWaiting(u)
    <2> DEFINE i == Latest(r.unit, u).inst
               race == Writes(i) \/ Writes(r.inst)
    <2>1. /\ StmtOf[i] = v.first
          /\ v' = [v EXCEPT !.todo = @ \ {u}, !.res = IF race THEN "racy" ELSE "shared",
                     !.racy = IF race THEN @ \cup {u} ELSE @]
          /\ raced' = IF race THEN [raced EXCEPT ![r.unit] = @ \cup {{i, r.inst}}] ELSE raced
      BY <1>4 DEF ScanWaiting
    <2> HIDE DEF race, i
    <2>2. /\ v'.step = v.step /\ v'.first = v.first
          /\ v'.racy = IF race THEN v.racy \cup {u} ELSE v.racy
      BY <1>0, <2>1 DEF VShape
    <2>3. CASE ~race BY <1>0, <2>1, <2>2, <2>3, DbKept
    <2>4. CASE race
      <3>1. raced' = [raced EXCEPT ![r.unit] = @ \cup {{i, r.inst}}] BY <2>1, <2>4
      <3>2. Reported' = Reported \cup {{StmtOf[k] : k \in p} : p \in {{i, r.inst}}}
        BY <1>0, <1>1, <3>1, ReportedAdds
      <3>3. {StmtOf[k] : k \in {i, r.inst}} = Struck BY <2>1, PairOf DEF Struck, Stmt
      <3>4. Reported' = Reported \cup {Struck} BY <3>2, <3>3
      <3>5. Struck' = Struck BY <1>0, <2>2 DEF Struck
      <3>6. pairs \ {Struck} = (PotentialPairs \ Reported) \ {Struck} BY DEF DbInv
      <3>7. Struck' \in Reported' /\ pairs' \ {Struck'} = PotentialPairs \ Reported'
        BY <1>0, <3>4, <3>5, <3>6
      <3> QED BY <1>0, <2>2, <2>4, <3>1, <3>7 DEF DbInv
    <2> QED BY <2>3, <2>4
  <1> QED BY <1>2, <1>3, <1>4

LEMMA EndScanDb ==
  ASSUME ObjInv, UnitsIn, DbInv, EndScan
  PROVE  DbInv' /\ DOMAIN raced' = Unit
  <1>0. /\ VShape /\ v.step = "scan" /\ raced' = raced /\ DOMAIN raced = Unit
        /\ pairs' = IF v.racy = {} THEN pairs ELSE pairs \ {Struck}
    BY DEF ObjInv, ObjTypes, EndScan, At, UnitsIn, Struck, RemoveRelationMapping
  <1>1. Reported' = Reported BY <1>0 DEF Reported
  <1>2. pairs' = PotentialPairs \ Reported BY <1>0 DEF DbInv
  <1>3. v'.step # "scan" \/ v'.racy = {}
    <2>1. PICK verdict : \/ \E f \in v.firsts : v' = [Pass(f, TRUE) EXCEPT !.verdict = verdict]
                         \/ v' = [v EXCEPT !.step = "decide", !.verdict = verdict]
      BY DEF EndScan
    <2>2. ASSUME NEW f, v' = [Pass(f, TRUE) EXCEPT !.verdict = verdict] PROVE v'.racy = {}
      BY <1>0, <2>2 DEF Pass, VShape
    <2>3. v' = [v EXCEPT !.step = "decide", !.verdict = verdict] => v'.step # "scan"
      BY <1>0 DEF VShape
    <2> QED BY <2>1, <2>2, <2>3
  <1> QED BY <1>0, <1>1, <1>2, <1>3 DEF DbInv

LEMMA VerificationDb ==
  ASSUME ObjInv, UnitsIn, DbInv, StartWaitVerification
  PROVE  DbInv' /\ DOMAIN raced' = Unit
  <1> USE DEF At, Arrived, foundVars
  <1>0. VShape /\ DOMAIN raced = Unit /\ Idle.step = "idle"
    BY DEF ObjInv, ObjTypes, UnitsIn, Idle
  <1>1. CASE LookupNothing \/ RecordFirst \/ HandleNoRace \/ MakeAvailable
    <2>1. v.step # "scan" /\ v'.step # "scan" /\ UNCHANGED <<raced, pairs>>
      BY <1>0, <1>1 DEF LookupNothing, RecordFirst, HandleNoRace, MakeAvailable, PopVerifyRequest
    <2> QED BY <1>0, <2>1, DbKept
  <1>2. CASE Redundant \/ VisitFirst \/ NotShared \/ Racy
    <2>1. v.step # "scan" /\ v'.step # "scan" /\ UNCHANGED <<raced, pairs>>
      BY <1>0, <1>2 DEF Redundant, VisitFirst, NotShared, Racy, VShape
    <2> QED BY <1>0, <2>1, DbKept
  <1>3. CASE VisitSecond
    <2>1. v.step # "scan" /\ v'.racy = {} /\ UNCHANGED <<raced, pairs>>
      BY <1>0, <1>3 DEF VisitSecond, Pass, VShape
    <2> QED BY <1>0, <2>1, DbKept
  <1>4. CASE PostSemaphore
    <2>1. v.step = "wake" /\ UNCHANGED <<raced, pairs>> BY <1>4 DEF PostSemaphore
    <2>2. v'.step # "scan" BY <1>0, <1>4 DEF PostSemaphore, PopVerifyRequest, VShape
    <2> QED BY <1>0, <2>1, <2>2, DbKept
  <1> QED BY <1>1, <1>2, <1>3, <1>4, ScanDb, EndScanDb DEF StartWaitVerification
\* A history thread strikes the pairs off when it reports their races, in the
\* middle of the other thread's scan or not.
LEMMA HistoryDb ==
  ASSUME ObjInv, UnitsIn, DbInv, NEW q \in Queue, NEW u \in Thread, HistoryDetection(q, u)
  PROVE  DbInv' /\ DOMAIN raced' = Unit
  <1> DEFINE e == Held(q).req
             found == IF e.unit \notin hyUnits[u] THEN {}
                      ELSE {i \in Inst : /\ {i, e.inst} \notin raced[e.unit]
                                         /\ \E k \in 1..Len(snaps[e.unit][u]) :
                                              /\ snaps[e.unit][u][k].inst = i
                                              /\ HistoryRace(snaps[e.unit][u][k], u, e)}
             gone == {{StmtOf[i], StmtOf[e.inst]} : i \in found}
             A == {{i, e.inst} : i \in found}
  <1>0. /\ ObjTypes /\ UNCHANGED <<v, requests>> /\ Taken(q)
        /\ raced' = [raced EXCEPT ![e.unit] = @ \cup A] /\ pairs' = pairs \ gone
    BY DEF ObjInv, HistoryDetection, RemoveRelationMapping
  <1>1. e.unit \in Unit
    <2>1. CASE h[q].todo # {} BY <2>1 DEF Held, UnitsIn
    <2>2. CASE h[q].todo = {}
      <3>1. history[q] # << >> /\ IsQueue(history[q]) BY <1>0, <2>2 DEF Taken, ObjTypes
      <3>2. Head(history[q]) = history[q][1] /\ Len(history[q]) \in Nat \ {0} BY <3>1, QueueTail
      <3>3. 1 \in 1..Len(history[q]) BY <3>2
      <3>4. e = Head(history[q]).req BY <2>2 DEF Held
      <3> QED BY <3>2, <3>3, <3>4 DEF UnitsIn, InUnit
    <2> QED BY <2>1, <2>2
  <1> HIDE DEF found, e
  <1>2. Reported' = Reported \cup {{StmtOf[k] : k \in p} : p \in A}
    BY <1>0, <1>1, ReportedAdds DEF UnitsIn
  <1>3. {{StmtOf[k] : k \in p} : p \in A} = gone
    <2>1. \A i \in found : {StmtOf[k] : k \in {i, e.inst}} = {StmtOf[i], StmtOf[e.inst]}
      BY PairOf
    <2> DEFINE St(p) == {StmtOf[k] : k \in p}
    <2>2. \A i \in found : St({i, e.inst}) = {StmtOf[i], StmtOf[e.inst]} BY <2>1
    <2> HIDE DEF St
    <2>3. {St(p) : p \in A} = gone BY <2>2
    <2> QED BY <2>3 DEF St
  <1> HIDE DEF gone, A
  <1>4. Reported' = Reported \cup gone BY <1>2, <1>3
  <1>5. Struck' = Struck BY <1>0 DEF Struck, Stmt, r
  <1>6. DOMAIN raced' = Unit BY <1>0 DEF UnitsIn
  <1>7. CASE v.step = "scan" /\ v.racy # {}
    <2>1. Struck \in Reported /\ pairs \ {Struck} = PotentialPairs \ Reported
      BY <1>7 DEF DbInv
    <2>2. Struck' \in Reported' /\ pairs' \ {Struck'} = PotentialPairs \ Reported'
      BY <1>0, <1>4, <1>5, <2>1
    <2> QED BY <1>0, <1>6, <1>7, <2>2 DEF DbInv
  <1>8. CASE ~(v.step = "scan" /\ v.racy # {})
    <2>1. pairs = PotentialPairs \ Reported BY <1>8 DEF DbInv
    <2>2. pairs' = PotentialPairs \ Reported' BY <1>0, <1>4, <2>1
    <2> QED BY <1>0, <1>6, <1>8, <2>2 DEF DbInv
  <1> QED BY <1>7, <1>8

\* Units stay units as the requests move on.
LEMMA UnitAppend ==
  ASSUME NEW s, IsQueue(s), InUnit(s), NEW e, e.req.unit \in Unit
  PROVE  InUnit(Append(s, e))
  <1> DEFINE a == Append(s, e)
  <1>1. /\ Len(s) \in Nat /\ Len(a) = Len(s) + 1
        /\ \A k \in 1..Len(s) : a[k] = s[k]
        /\ a[Len(s) + 1] = e
    BY QueueAppend
  <1> HIDE DEF a
  <1>2. \A k \in 1..Len(a) : k \in 1..Len(s) \/ k = Len(s) + 1 BY <1>1
  <1>3. InUnit(a) BY <1>1, <1>2 DEF InUnit
  <1> QED BY <1>3 DEF a

LEMMA UnitTail ==
  ASSUME NEW s, IsQueue(s), InUnit(s), s # << >>
  PROVE  InUnit(Tail(s)) /\ Head(s).req.unit \in Unit
  <1> DEFINE a == Tail(s)
  <1>1. /\ Len(s) \in Nat \ {0} /\ Len(a) = Len(s) - 1
        /\ \A k \in 1..Len(s) - 1 : a[k] = s[k + 1]
        /\ Head(s) = s[1]
    BY QueueTail
  <1> HIDE DEF a
  <1>2. \A k \in 1..Len(a) : k + 1 \in 1..Len(s) /\ a[k] = s[k + 1] BY <1>1
  <1>3. 1 \in 1..Len(s) BY <1>1
  <1>4. InUnit(a) BY <1>2 DEF InUnit
  <1> QED BY <1>1, <1>3, <1>4 DEF a, InUnit

DatabaseInv == ObjInv /\ UnitsIn /\ DbInv

LEMMA VerificationUnits ==
  ASSUME DatabaseInv, StartWaitVerification
  PROVE  UnitsIn'
  <1>0. ObjInv /\ ObjTypes /\ UnitsIn /\ DOMAIN raced' = Unit
    BY VerificationDb DEF DatabaseInv, ObjInv
  <1>1. Goes \/ Pops \/ HandsOn \/ Ends BY <1>0, VerificationMoves
  <1>2. CASE Goes BY <1>0, <1>2 DEF Goes, UnitsIn, Queue
  <1>3. CASE Pops
    <2>1. requests # << >> /\ requests' = Tail(requests) /\ UNCHANGED <<history, h>>
      BY <1>3 DEF Pops
    <2>2. /\ Len(requests) \in Nat \ {0} /\ Len(requests') = Len(requests) - 1
          /\ \A k \in 1..Len(requests) - 1 : requests'[k] = requests[k + 1]
      BY <1>0, <2>1, QueueTail DEF ObjTypes
    <2>3. \A k \in 1..Len(requests') : requests'[k].unit \in Unit BY <1>0, <2>2 DEF UnitsIn
    <2> QED BY <1>0, <2>1, <2>3 DEF UnitsIn, Queue
  <1>4. CASE HandsOn \/ Ends
    <2>1. v.step = "scan" /\ UNCHANGED <<requests, h>> BY <1>4 DEF HandsOn, Ends
    <2>2. r.unit \in Unit BY <1>0, <2>1, HeadRequest DEF UnitsIn
    <2>3. ASSUME NEW q \in Queue PROVE InUnit(history'[q])
      <3>1. \E e : e.req = r /\ (history'[q] = history[q] \/ history'[q] = Append(history[q], e))
        <4>1. CASE HandsOn
          <5> DEFINE e == [req |-> r, mark |-> FALSE]
          <5>1. history'[q] = history[q] \/ history'[q] = Append(history[q], e)
            BY <1>0, <4>1 DEF HandsOn, DistributeHtyDtcRequest, ObjTypes
          <5>2. e.req = r OBVIOUS
          <5> QED BY <5>1, <5>2
        <4>2. CASE Ends
          <5> DEFINE e == [req |-> r, mark |-> TRUE]
          <5>1. history'[q] = Append(history[q], e) BY <4>2 DEF Ends, DistributeEndOfSyncObj
          <5>2. e.req = r OBVIOUS
          <5> QED BY <5>1, <5>2
        <4> QED BY <1>4, <4>1, <4>2
      <3>2. InUnit(history[q]) /\ IsQueue(history[q]) BY <1>0 DEF UnitsIn, ObjTypes
      <3> QED BY <2>2, <3>1, <3>2, UnitAppend
    <2> QED BY <1>0, <2>1, <2>3 DEF UnitsIn, Queue
  <1> QED BY <1>1, <1>2, <1>3, <1>4

LEMMA HistoryUnits ==
  ASSUME DatabaseInv, NEW q \in Queue, StartHistoryDetection(q)
  PROVE  UnitsIn' /\ DbInv'
  <1>0. ObjInv /\ ObjTypes /\ UnitsIn /\ DbInv BY DEF DatabaseInv, ObjInv
  <1>1. IsQueue(history[q]) /\ InUnit(history[q]) BY <1>0 DEF ObjTypes, UnitsIn
  <1>2. CASE ClearMark(q)
    <2>1. /\ history[q] # << >> /\ history' = [history EXCEPT ![q] = Tail(@)]
          /\ UNCHANGED <<requests, v, h, raced, pairs>>
      BY <1>2 DEF ClearMark, workVars, foundVars
    <2>2. InUnit(Tail(history[q])) BY <1>1, <2>1, UnitTail
    <2>3. \A p \in Queue : InUnit(history'[p]) BY <1>0, <2>1, <2>2 DEF ObjTypes, UnitsIn
    <2>4. UnitsIn' BY <1>0, <2>1, <2>3 DEF UnitsIn, Queue
    <2>5. DbInv' BY <1>0, <2>1, DbKept DEF DbInv, Struck, Stmt, r, Reported
    <2> QED BY <2>4, <2>5
  <1>3. ASSUME NEW u \in Thread, HistoryDetection(q, u) PROVE UnitsIn' /\ DbInv'
    <2>1. DbInv' /\ DOMAIN raced' = Unit BY <1>0, <1>3, HistoryDb
    <2>2. /\ Taken(q) /\ UNCHANGED requests
          /\ h' = [h EXCEPT ![q] = IF Held(q).todo = {u} THEN Nothing
                                   ELSE [Held(q) EXCEPT !.todo = @ \ {u}]]
          /\ history' = IF h[q].todo # {} THEN history ELSE [history EXCEPT ![q] = Tail(@)]
      BY <1>3 DEF HistoryDetection
    <2>3. h[q].todo = {} => InUnit(Tail(history[q])) /\ Head(history[q]).req.unit \in Unit
      BY <1>1, <2>2, UnitTail DEF Taken
    <2>4. \A p \in Queue : InUnit(history'[p]) BY <1>0, <2>2, <2>3 DEF ObjTypes, UnitsIn
    <2>5. Held(q).req.unit \in Unit BY <1>0, <2>3 DEF Held, UnitsIn
    <2>6. h'[q].todo # {} => h'[q].req.unit \in Unit
      <3>1. h[q] = [req |-> h[q].req, todo |-> h[q].todo] BY <1>0 DEF ObjTypes
      <3>2. Held(q) = [req |-> Held(q).req, todo |-> Held(q).todo] BY <3>1 DEF Held
      <3>3. h'[q] = IF Held(q).todo = {u} THEN Nothing ELSE [Held(q) EXCEPT !.todo = @ \ {u}]
        BY <1>0, <2>2 DEF ObjTypes
      <3>4. CASE Held(q).todo = {u} BY <3>3, <3>4 DEF Nothing
      <3>5. CASE Held(q).todo # {u} BY <2>5, <3>2, <3>3, <3>5
      <3> QED BY <3>4, <3>5
    <2>7. \A p \in Queue : p # q => h'[p] = h[p] BY <1>0, <2>2 DEF ObjTypes
    <2>8. UnitsIn' BY <1>0, <2>1, <2>2, <2>4, <2>6, <2>7 DEF UnitsIn, Queue
    <2> QED BY <2>1, <2>8
  <1> QED BY <1>2, <1>3 DEF StartHistoryDetection

LEMMA PushUnits ==
  ASSUME DatabaseInv, NEW t \in Thread, PushVerifyRequest(t)
  PROVE  UnitsIn' /\ DbInv'
  <1>0. ObjInv /\ ObjTypes /\ UnitsIn /\ DbInv BY DEF DatabaseInv, ObjInv
  <1>1. UNCHANGED <<history, v, h, raced, pairs>>
    BY DEF PushVerifyRequest, workVars, foundVars
  <1>2. PICK e : requests' = Append(requests, e) /\ e.unit \in Unit
    <2>1. PICK i \in Code[t], x \in Unit :
            requests' = Append(requests,
              [thd |-> t, inst |-> i, unit |-> x, id |-> left,
               vc |-> vc[t], wr |-> ls[t], rd |-> rdls[t]])
      BY DEF PushVerifyRequest
    <2> QED BY <2>1
  <1>3. /\ Len(requests) \in Nat /\ Len(requests') = Len(requests) + 1
        /\ \A k \in 1..Len(requests) : requests'[k] = requests[k]
        /\ requests'[Len(requests) + 1] = e
        /\ requests # << >> => Head(requests') = Head(requests)
    BY <1>0, <1>2, QueueAppend DEF ObjTypes
  <1>4. \A k \in 1..Len(requests') : k \in 1..Len(requests) \/ k = Len(requests) + 1 BY <1>3
  <1>5. \A k \in 1..Len(requests') : requests'[k].unit \in Unit
    BY <1>0, <1>2, <1>3, <1>4 DEF UnitsIn
  <1>6. UnitsIn' BY <1>0, <1>1, <1>5 DEF UnitsIn, Queue
  <1>7. v.step = "scan" => Stmt' = Stmt BY <1>0, <1>3 DEF ObjTypes, Stmt, r
  <1>8. DbInv' BY <1>0, <1>1, <1>7, DbKept
  <1> QED BY <1>6, <1>8

LEMMA DatabaseStep ==
  ASSUME DatabaseInv, [PNext]_pVars
  PROVE  DatabaseInv'
  <1>0. ObjInv /\ UnitsIn /\ DbInv /\ ObjInv' BY ObjStep DEF DatabaseInv
  <1>1. ASSUME UNCHANGED <<requests, history, v, h, raced, pairs>> PROVE UnitsIn' /\ DbInv'
    <2>1. UnitsIn' BY <1>0, <1>1 DEF UnitsIn, Queue
    <2>2. Stmt' = Stmt BY <1>1 DEF Stmt, r
    <2> QED BY <1>0, <1>1, <2>1, <2>2, DbKept
  <1>2. ASSUME NEW t \in Thread, PSync(t) \/ POther(t) \/ PAccess(t), ~PushVerifyRequest(t)
        PROVE  UnitsIn' /\ DbInv'
    <2>1. UNCHANGED <<queueVars, workVars, foundVars>>
      BY <1>2 DEF PSync, POther, PAccess, PCreate, PThreadStart, PAfterPthreadJoin,
         ProcessPostMutexLock, ProcessSignal, PAfterPthreadCondWait, ProcessPreMutexUnlock,
         PBeforePthreadCondWait, ProcessPostRwlockRdlock, ProcessPostRwlockWrlock,
         ProcessPreRwlockUnlock, PBeforePthreadBarrierWait, PAfterPthreadBarrierWait,
         PBeforeSemPost, PAfterSemWait, PPostponeThread, BeingPostponed, PAfterWait, restVars
    <2> QED BY <1>1, <2>1 DEF queueVars, workVars, foundVars
  <1>3. CASE UNCHANGED pVars
    <2>1. UNCHANGED <<requests, history, v, h, raced, pairs>>
      BY <1>3 DEF pVars, queueVars, workVars, foundVars
    <2> QED BY <1>0, <1>1, <2>1 DEF DatabaseInv
  <1>4. CASE StartWaitVerification
    <2>1. DbInv' BY <1>0, <1>4, VerificationDb
    <2>2. UnitsIn' BY <1>4, VerificationUnits
    <2> QED BY <1>0, <2>1, <2>2 DEF DatabaseInv
  <1> QED BY <1>0, <1>2, <1>3, <1>4, HistoryUnits, PushUnits DEF PNext, DatabaseInv

\* Between two requests a pair of statements has left the database exactly when
\* a race between them has been reported, though the verification thread strikes
\* pairs off at the end of its scan and the history threads at any time.
THEOREM DatabaseFollowsReports == PSpec => []DatabaseInStep
  <1>1. PInit => DatabaseInv
    <2> SUFFICES ASSUME PInit PROVE DatabaseInv OBVIOUS
    <2>1. ObjInv BY ObjStart
    <2>2. /\ requests = << >> /\ history = [q \in Queue |-> << >>]
          /\ h = [q \in Queue |-> Nothing] /\ raced = [x \in Unit |-> {}]
          /\ pairs = PotentialPairs /\ v.step = "idle"
      BY DEF PInit, Idle
    <2>3. UnitsIn BY <2>2 DEF UnitsIn, InUnit, Nothing
    <2>4. Reported = {} BY <2>2 DEF Reported
    <2> QED BY <2>1, <2>2, <2>3, <2>4 DEF DatabaseInv, DbInv
  <1>2. DatabaseInv /\ [PNext]_pVars => DatabaseInv' BY DatabaseStep
  <1>3. DatabaseInv => DatabaseInStep BY DEF DatabaseInv, DbInv, DatabaseInStep, Reported
  <1> QED BY <1>1, <1>2, <1>3, PTL DEF PSpec
=============================================================================
