-------------------------- MODULE VerifierRaceProofs --------------------------
(***************************************************************************)
(* Proofs about what a verification finds, for any database, any program   *)
(* and any number of threads: the verification of module VerifierRace does *)
(* only what the scheduler of VerifierSched allows, the database forgets   *)
(* the reported pairs and no other, a postponed thread can be found, and   *)
(* every race that is reported is one.                                     *)
(***************************************************************************)
EXTENDS VerifierRace, VerifierSchedProofs

USE DEF setVars, smpVars, raceVars, lockVars, rwVars, barVars, semVars, syncVars,
        Goto, Move, Raise, WakeUpPostponeThread, ChooseRandomThreadAfterAllUnavailable,
        BlockThread, UnblockThread, BlockAndChoose, BlockAndWakeOwner,
        ClearPostponedThreadMetas, metaVars, unitVars, foundVars, clockVars, lsVars

VStep(t) == VSync(t) \/ VOther(t) \/ VAccess(t)

\* The places of a thread that is in an access.
AccessPC == {"choose"} \cup RegionPC \cup PpPC

\* What pthread knows a thread to hold.
HeldWrite(t) == {m \in Mutex : realHolder[m] = t} \cup {l \in {Rwlock} : realWriter = t}
HeldRead(t)  == {l \in {Rwlock} : t \in realReaders}

\* A lock just taken is not yet in the lockset, one about to be released has
\* left it with the lock; writers keep readers out, and nobody reads who waits
\* to.
LockIInv ==
  /\ realWriter # NoThread => realReaders = {}
  /\ \A t \in Thread :
       /\ ls[t] = {m \in Mutex : realHolder[m] = t /\ ~ (pc[t] = "locked" /\ arg[t] = m)}
                    \cup {l \in {Rwlock} : realWriter = t /\ pc[t] # "wrLocked"}
       /\ rdls[t] = {l \in {Rwlock} : t \in realReaders /\ pc[t] # "rdLocked"}
       /\ pc[t] \in {"rdLocking", "rdTrying"} => t \notin realReaders

\* The access a thread is in is the last of its trace, with the locks the
\* thread still holds.
AccessInv ==
  \A t \in Thread : pc[t] \in AccessPC =>
    /\ Len(trace[t]) > 0
    /\ trace[t][Len(trace[t])] = [inst |-> at[t][1], unit |-> Where(t),
                                  wr |-> HeldWrite(t), rd |-> HeldRead(t)]

\* Where a thread is whose access has been recorded and is not over.
Recorded == {"wakeall", "keepup", "postpone"} \cup PpPC

\* It can be found: WaitingFindable, made inductive.
FoundInv ==
  \A t \in Thread : pc[t] \in Recorded =>
    /\ Where(t) \in ppUnits[t]
    /\ Latest(Where(t), t).inst = at[t][1]
    /\ (\E p \in pairs : Stmt(t) \in p) => Where(t) \in stmtMetas[Stmt(t)]

\* Of a thread's postponed metas only those of the access it is in remain.
UnitsInv ==
  \A t \in Thread : ppUnits[t] \subseteq IF pc[t] \in Recorded THEN {Where(t)} ELSE {}

\* A unit with postponed or past metas of a thread has a snapshot of it.
SnapsKept ==
  \A t \in Thread : \A x \in ppUnits[t] \cup hist[t] : snaps[x][t] # << >>

\* Who creates a thread has started; a thread that is joined is over; and a
\* thread that has not started has done nothing and, before it is created,
\* learned nothing.
BirthInv ==
  /\ pc[Main] # "unborn"
  /\ \A t \in Thread :
       /\ pc[t] = "starting" /\ t # Main => pc[parent[t]] \notin {"unborn", "starting"}
       /\ pc[t] = "joined" => pc[arg[t]] = "reaped"
       /\ pc[t] \in {"unborn", "starting"} => trace[t] = << >>
       /\ pc[t] = "unborn" \/ (pc[t] = "starting" /\ t = Main) => hb[t] = Zero

\* A thread knows all its own accesses; what another knows of them ends before
\* the one it is in.
KnownInv ==
  \A u \in Thread :
    /\ hb[u][u] = Len(trace[u])
    /\ \A t \in Thread \ {u} :
         /\ hb[t][u] <= Len(trace[u])
         /\ pc[u] \in AccessPC => hb[t][u] < Len(trace[u])

\* The clock by which a thread has, or at the end of the callback will have,
\* heard of what happens before it.
Known(t) ==
  IF pc[t] = "starting" THEN vc[parent[t]]
  ELSE IF pc[t] = "joined" THEN Join(vc[t], vc[arg[t]])
  ELSE vc[t]

\* Access k of thread u is what snapshot s of unit x was made of: and whoever
\* the access happens before has heard of the epoch it was made in.
MadeOf(s, x, u, k) ==
  /\ trace[u][k] = [inst |-> s.inst, unit |-> x, wr |-> s.wr, rd |-> s.rd]
  /\ s.clk <= vc[u][u]
  /\ \A t \in Thread \ {u} : k <= hb[t][u] => s.clk <= Known(t)[u]

\* Every snapshot is of an access.
SnapInv ==
  \A x \in Unit, u \in Thread : \A j \in 1..Len(snaps[x][u]) :
    \E k \in 1..Len(trace[u]) : MadeOf(snaps[x][u][j], x, u, k)

VIInv ==
  /\ VTypeOK
  /\ LockIInv
  /\ AccessInv
  /\ FoundInv
  /\ UnitsInv
  /\ SnapsKept
  /\ DatabaseInv
  /\ BirthInv
  /\ KnownInv
  /\ SnapInv

-----------------------------------------------------------------------------
(* The verification implements the scheduler.                               *)

\* A harmful race has one of its two threads go later.
LEMMA HarmfulThreads ==
  ASSUME NEW R, NEW t
  PROVE  Harmful(R, t) \subseteq R \cup {t} /\ (R = {} => Harmful(R, t) = {})
  <1> DEFINE access(u, i) == [thd |-> u, stmt |-> StmtOf[i], write |-> Writes(i)]
             first(u) == access(u, Latest(Where(t), u).inst)
             second == access(t, at[t][1])
  <1>1. ASSUME NEW u \in R
        PROVE  ProcessHarmfulRace(Where(t), first(u), second) \subseteq {u, t}
    <2>1. first(u).thd = u /\ second.thd = t
      OBVIOUS
    <2> HIDE DEF first, second
    <2>2. Reader(first(u), second).thd \in {u, t} /\ Writer(first(u), second).thd \in {u, t}
      BY <2>1 DEF Reader, Writer
    <2>3. DanglingPtr(first(u), second) \subseteq {u, t}
      BY <2>1 DEF DanglingPtr
    <2> QED BY <2>2, <2>3 DEF ProcessHarmfulRace
  <1>2. Harmful(R, t) = IF ~HarmfulAnalysis THEN {}
          ELSE UNION {ProcessHarmfulRace(Where(t), first(u), second) : u \in R}
    BY DEF Harmful
  <1> HIDE DEF first, second
  <1> QED BY <1>1, <1>2

\* What a verification of t at a statement s does: f is the first statement that
\* counts, R are the postponed threads found to race, past the instructions of
\* the history found to race, freed the statements that are done.
VerifyEffect(t, f, R, past, freed) ==
  LET x == Where(t)   i == at[t][1]   s == Stmt(t) IN
  /\ f \in FirstStmts(t) /\ R \subseteq RacingWith(t, f)
  /\ past \subseteq HistoryRaces(t, {})
  /\ raced' = [raced EXCEPT ![x] = @ \cup {{Latest(x, u).inst, i} : u \in R}
                                     \cup {{j, i} : j \in past}]
  /\ pairs' = (pairs \ {{StmtOf[j], s} : j \in past}) \ {p \in {{f, s}} : R # {}}
  /\ \A q \in freed : HasFullyVerified(q, pairs')
  /\ stmtMetas' = [q \in PStmt |-> IF q \in freed THEN {}
                                  ELSE IF q = s THEN stmtMetas[q] \cup {x}
                                  ELSE stmtMetas[q]]
  /\ accessed' \subseteq accessed \cup {s}
  /\ (accessed \cup {s}) \ freed \subseteq accessed'
  /\ usedFreed' \in BOOLEAN

\* Every verification does that, and a step of the scheduler with it.
LEMMA VerifyFinds ==
  ASSUME TypeOK, VTypeOK, NEW t \in Thread, Verify(t)
  PROVE  /\ \E f, R, past, freed : VerifyEffect(t, f, R, past, freed)
         /\ HandleRace(t) \/ RecordAndPostpone(t) \/ RecordAndKeepup(t)
  <1> DEFINE x == Where(t)
             i == at[t][1]
             s == Stmt(t)
             firsts == FirstStmts(t)
             shared(f) == x \in stmtMetas[f]
             waitFound(R) == {{Latest(x, u).inst, i} : u \in R}
             past(f, R) == IF shared(f) THEN HistoryRaces(t, raced[x] \cup waitFound(R)) ELSE {}
             pairs1(f, R) == Remaining(pairs, {{StmtOf[j], s} : j \in past(f, R)})
             pairs2(f, R) == Remaining(pairs1(f, R), {p \in {{f, s}} : R # {}})
             freed1(f, R) == {q \in {StmtOf[j] : j \in past(f, R)} \cup {p \in {s} : past(f, R) # {}} :
                                HasFullyVerified(q, pairs1(f, R))}
             freed(f, R) == freed1(f, R) \cup {q \in {f, s} : R # {} /\ HasFullyVerified(q, pairs2(f, R))}
             selfDone(f, R) == R # {} /\ HasFullyVerified(s, pairs2(f, R))
             done(f, R) == IF HasFullyVerified(f, pairs2(f, R)) THEN R ELSE {}
             nobody(f) == firsts = {f} /\ (~shared(f) \/ WaitingAt(x) = {})
             Found(f, R) ==
               /\ raced' = [raced EXCEPT ![x] = @ \cup waitFound(R) \cup {{j, i} : j \in past(f, R)}]
               /\ pairs' = pairs2(f, R)
               /\ usedFreed' = (usedFreed \/ s \in freed1(f, R))
               /\ stmtMetas' = [q \in PStmt |-> IF q \in freed(f, R) THEN {}
                                               ELSE IF q = s THEN stmtMetas[q] \cup {x}
                                               ELSE stmtMetas[q]]
               /\ LaterPasses(s, freed(f, R), firsts \ {f})
               /\ Decide(t, done(f, R), Harmful(R, t), selfDone(f, R), nobody(f))
  <1>0. PICK f \in firsts :
          \E R \in IF shared(f) THEN FoundOf(RacingWith(t, f), x) ELSE {{}} : Found(f, R)
    BY DEF Verify
  <1>1. PICK R \in IF shared(f) THEN FoundOf(RacingWith(t, f), x) ELSE {{}} : Found(f, R)
    BY <1>0
  <1>2. R \subseteq RacingWith(t, f)
    BY <1>1 DEF FoundOf
  <1>3. past(f, R) \subseteq HistoryRaces(t, {})
    BY DEF HistoryRaces
  <1>4. pairs2(f, R) = (pairs \ {{StmtOf[j], s} : j \in past(f, R)}) \ {p \in {{f, s}} : R # {}}
    BY DEF Remaining
  <1>5. \A q \in freed(f, R) : HasFullyVerified(q, pairs2(f, R))
    BY DEF HasFullyVerified, Remaining
  <1>6. f \in accessed /\ accessed \subseteq PStmt
    BY DEF FirstStmts, VTypeOK
  <1>7. /\ accessed' \subseteq accessed \cup {s}
        /\ (accessed \cup {s}) \ freed(f, R) \subseteq accessed'
    <2> HIDE DEF freed, s
    <2>1. firsts \subseteq accessed
      BY DEF FirstStmts
    <2> QED BY <1>1, <2>1 DEF LaterPasses
  <1>8. usedFreed' \in BOOLEAN
    BY <1>1
  <1>9. VerifyEffect(t, f, R, past(f, R), freed(f, R))
    <2> HIDE DEF freed, past, pairs2
    <2> QED BY <1>1, <1>2, <1>3, <1>4, <1>5, <1>7, <1>8 DEF VerifyEffect
  <1>10. HandleRace(t) \/ RecordAndPostpone(t) \/ RecordAndKeepup(t)
    <2>1. /\ pc[t] = "region" /\ ppmetas' = ppmetas \cup {t}
          /\ UNCHANGED <<arg, left, verify_lock_, setVars, smpVars, syncVars, crashed>>
      BY DEF Verify
    <2>2. R \subseteq {u \in pp : u \in ppmetas}
      BY <1>2 DEF RacingWith, WaitingAt, VTypeOK, TypeOK
    <2> DEFINE d == done(f, R)
               h == Harmful(R, t)
               e == selfDone(f, R)
    <2>3. d \in SUBSET R /\ e \in BOOLEAN /\ h \in SUBSET (R \cup {t})
          /\ (R = {} => d = {} /\ h = {} /\ ~e)
      BY HarmfulThreads
    <2>4. Decide(t, d, h, e, nobody(f))
      BY <1>1
    <2> HIDE DEF d, h, e, done, selfDone
    <2>5. CASE d # {} \/ h # {} \/ e
      <3>1. R \in (SUBSET {u \in pp : u \in ppmetas}) \ {{}}
        BY <2>2, <2>3, <2>5
      <3>2. PICK coin \in BOOLEAN :
              next' = [next EXCEPT ![t] = IF t \notin h /\ (coin \/ e) THEN "keepup" ELSE "postpone"]
        BY <2>4, <2>5 DEF Decide
      <3>3. next' = [next EXCEPT ![t] = IF t \in h THEN "postpone"
                                        ELSE IF coin \/ e THEN "keepup" ELSE "postpone"]
        BY <3>2
      <3>4. wake' = [wake EXCEPT ![t] = d \ h] /\ Goto(t, "wakeall")
        BY <2>4, <2>5 DEF Decide
      <3> QED BY <2>1, <2>3, <2>5, <3>1, <3>3, <3>4 DEF HandleRace
    <2>6. CASE ~ (d # {} \/ h # {} \/ e)
      <3> HIDE DEF nobody
      <3>1. Goto(t, IF nobody(f) THEN "keepup" ELSE "postpone") /\ UNCHANGED <<wake, next>>
        BY <2>4, <2>6 DEF Decide
      <3> QED BY <2>1, <3>1 DEF RecordAndPostpone, RecordAndKeepup
    <2> QED BY <2>5, <2>6
  <1> QED BY <1>9, <1>10

\* Every step is one of the scheduler's.
LEMMA StepRefines ==
  ASSUME TypeOK, VTypeOK, NEW t \in Thread, VStep(t)
  PROVE  Step(t)
  <1>1. CASE VSync(t)
    BY <1>1 DEF VSync, VCreate, VThreadStart, VRealJoin, VAfterPthreadJoin,
       ProcessPostMutexLock, ProcessPreMutexUnlock, ProcessPostRwlockRdlock,
       ProcessPostRwlockWrlock, ProcessPreRwlockUnlock, Step, Threads, Mutexes, Rwlocks
  <1>2. CASE VOther(t)
    BY <1>2 DEF VOther, Step, Threads, Mutexes, Rwlocks
  <1>3. CASE VAccess(t)
    BY <1>3, VerifyFinds DEF VAccess, VBeforeMem, VPass, AccessFirst, AccessFirstAgain,
       AccessSecondAgain, Step, Access
  <1> QED BY <1>1, <1>2, <1>3 DEF VStep
-----------------------------------------------------------------------------
(* What the kinds of steps leave alone.                                     *)

\* Creation, joining and locking happen outside the accesses.
LEMMA SyncFrame ==
  ASSUME TypeOK, CallInv, NEW t \in Thread, VSync(t) \/ VOther(t)
  PROVE  /\ UNCHANGED <<at, metaVars, unitVars, foundVars, trace, ppmetas>>
         /\ \A u \in Thread : pc[u] \in AccessPC \/ pc'[u] \in AccessPC => pc'[u] = pc[u]
         /\ pc[t] \notin AccessPC
  <1>1. pc \in [Thread -> PC]
    BY DEF TypeOK
  <1>2. CASE VSync(t)
    BY <1>1, <1>2 DEF VSync, VCreate, VThreadStart, VRealJoin, VAfterPthreadJoin,
       ProcessPostMutexLock, ProcessPreMutexUnlock, ProcessPostRwlockRdlock,
       ProcessPostRwlockWrlock, ProcessPreRwlockUnlock, Create, ThreadStart, RealJoin,
       AfterPthreadJoin, AfterPthreadMutexLock, RealMutexUnlock,
       AfterPthreadRwlockRdlock, AfterPthreadRwlockWrlock, RealRwlockUnlock, CallInv,
       AccessPC, RegionPC, PpPC
  <1>3. CASE VOther(t)
    BY <1>1, <1>3 DEF VOther, ThreadExit, BeforePthreadJoin, BeforePthreadMutexLock,
       RealMutexLock, AfterPthreadMutexUnlock, BeforePthreadRwlockRdlock,
       BeforePthreadRwlockWrlock, RealRwlockRdlock, RealRwlockWrlock, RealRwlockTryFail,
       AfterTryFailed, AfterPthreadRwlockUnlock, AccessPC, RegionPC, PpPC
  <1> QED BY <1>2, <1>3

\* A step of an access moves one thread and touches no lock.
LEMMA AccessStepFrame ==
  ASSUME TypeOK, VTypeOK, NEW t \in Thread, VAccess(t)
  PROVE  /\ UNCHANGED <<arg, syncVars, vc, parent, lsVars>>
         /\ \E there \in {"run"} \cup AccessPC : pc' = [pc EXCEPT ![t] = there]
         /\ pc[t] \in {"run"} \cup AccessPC
  <1>1. Access(t)
    BY VerifyFinds DEF VAccess, VBeforeMem, VPass, AccessFirst, AccessFirstAgain,
       AccessSecondAgain, Access
  <1>2. UNCHANGED <<vc, parent, lsVars>>
    BY DEF VAccess, VBeforeMem, VPass, AccessFirst, RecordFirst, AccessFirstAgain,
       AccessSecondAgain, Verify
  <1> QED BY <1>1, <1>2, AccessFrame DEF NoCall, AccessPC

\* The steps of an access in which nothing is found: one ends the wait for
\* verify_lock_, some stay inside a recorded access, some end it.
LEMMA PassFrame ==
  ASSUME TypeOK, NEW t \in Thread, VPass(t)
  PROVE  /\ UNCHANGED <<at, metaVars, foundVars, clockVars, lsVars, trace>>
         /\ \A u \in Thread \ {t} : pc'[u] = pc[u]
         /\ \/ pc[t] = "choose" /\ pc'[t] = "region" /\ ppmetas' = ppmetas
            \/ pc[t] \in Recorded /\ pc'[t] \in Recorded /\ ppmetas' = ppmetas
            \/ pc[t] \in Recorded /\ pc'[t] = "run" /\ ppmetas' = ppmetas \ {t}
         /\ Follow(t)
  <1>1. pc \in [Thread -> PC] /\ next \in [Thread -> {"keepup", "postpone"}]
    BY DEF TypeOK
  <1> QED BY <1>1 DEF VPass, ChooseRandomThreadBeforeProcess, WakeUpOne, WakeUpDone,
      KeepupThread, PostponeThread, TakePermit, TimeOut, AfterWait, Recorded, PpPC

\* The snapshot a thread adds.
Taken(t) == [inst |-> at[t][1], clk |-> vc[t][t], wr |-> ls[t], rd |-> rdls[t]]

\* It is added to those of one unit and one thread.
LEMMA SnapshotAdded ==
  ASSUME VTypeOK, NEW t \in Thread, AddMetaSnapshot(t)
  PROVE  /\ Taken(t) \in Snapshot /\ Where(t) \in Unit
         /\ \E s \in Seq(Snapshot) :
           /\ snaps' = [snaps EXCEPT ![Where(t)][t] = Append(s, Taken(t))]
           /\ Len(s) < SnapLen
           /\ \A j \in 1..Len(s) : \E k \in 1..Len(snaps[Where(t)][t]) :
                s[j] = snaps[Where(t)][t][k]
  <1> DEFINE old == snaps[Where(t)][t]
             s == IF Len(old) = SnapLen THEN Tail(old) ELSE old
  <1>1. Where(t) \in Unit /\ at[t][1] \in Inst
    BY DEF VTypeOK, Where
  <1>2. old \in Seq(Snapshot) /\ Len(old) <= SnapLen
    BY <1>1 DEF VTypeOK
  <1>3. Taken(t) \in Snapshot
    <2>1. vc[t][t] \in Nat /\ ls[t] \in SUBSET Lock /\ rdls[t] \in SUBSET Lock
      BY DEF VTypeOK, Clock, Lock
    <2> QED BY <1>1, <2>1 DEF Snapshot, Taken
  <1>4. snaps' = [snaps EXCEPT ![Where(t)][t] = Append(s, Taken(t))]
    BY DEF AddMetaSnapshot, Taken
  <1>5. /\ s \in Seq(Snapshot) /\ Len(s) < SnapLen
        /\ \A j \in 1..Len(s) : \E k \in 1..Len(old) : s[j] = old[k]
    <2> HIDE DEF old
    <2>1. SnapLen \in Nat \ {0}
      BY SnapAssumption
    <2>2. CASE Len(old) = SnapLen
      <3>1. old # << >>
        BY <1>2, <2>1, <2>2
      <3>2. Tail(old) \in Seq(Snapshot) /\ Len(Tail(old)) = Len(old) - 1
        BY <1>2, <3>1
      <3>3. \A j \in 1..Len(Tail(old)) : Tail(old)[j] = old[j + 1] /\ j + 1 \in 1..Len(old)
        BY <1>2, <3>1, <3>2
      <3> QED BY <2>1, <2>2, <3>2, <3>3
    <2>3. CASE Len(old) # SnapLen
      BY <1>2, <2>1, <2>3
    <2> QED BY <2>2, <2>3
  <1> HIDE DEF s
  <1> QED BY <1>1, <1>3, <1>4, <1>5
-----------------------------------------------------------------------------
(* One lemma per part of the invariant.                                     *)

\* A step of creation, joining or locking keeps the types of clocks and
\* locksets.
LEMMA SyncTypes ==
  ASSUME TypeOK, CallInv, VTypeOK, NEW t \in Thread, VSync(t) \/ VOther(t)
  PROVE  /\ vc' \in [Thread -> Clock] /\ parent' \in [Thread -> Thread] /\ hb' \in [Thread -> Clock]
         /\ ls' \in [Thread -> SUBSET Lock] /\ rdls' \in [Thread -> SUBSET {Rwlock}]
  <1>1. /\ vc \in [Thread -> Clock] /\ parent \in [Thread -> Thread] /\ hb \in [Thread -> Clock]
        /\ ls \in [Thread -> SUBSET Lock] /\ rdls \in [Thread -> SUBSET {Rwlock}]
    BY DEF VTypeOK
  <1>2. \A c, d \in Clock : Join(c, d) \in Clock
    BY DEF Join, Clock
  <1>3. \A c \in Clock, u \in Thread : Increment(c, u) \in Clock
    BY DEF Increment, Clock
  <1>4. Zero \in Clock
    BY DEF Zero, Clock
  <1> HIDE DEF Join, Increment, Clock, Zero
  <1>5. CASE \E c \in Thread : VCreate(t, c)
    BY <1>1, <1>2, <1>5 DEF VCreate, Learn
  <1>6. CASE VThreadStart(t)
    <2>1. parent[t] \in Thread /\ vc[parent[t]] \in Clock
      BY <1>1
    <2>2. Increment(Zero, t) \in Clock
      BY <1>3, <1>4
    <2>3. Join(Increment(Zero, t), vc[parent[t]]) \in Clock
      BY <1>2, <2>1, <2>2
    <2>4. [vc EXCEPT ![t] = Increment(Zero, t)] \in [Thread -> Clock]
      BY <1>1, <2>2
    <2>5. [vc EXCEPT ![t] = Join(Increment(Zero, t), vc[parent[t]])] \in [Thread -> Clock]
      BY <1>1, <2>3
    <2> DEFINE p == parent[t]
               c == Join(Increment(Zero, t), vc[p])
    <2>6. [vc EXCEPT ![t] = c, ![p] = Increment(@, p)] \in [Thread -> Clock]
      <3> HIDE DEF c, p
      <3>1. p \in Thread /\ c \in Clock
        BY <2>1, <2>3 DEF c, p
      <3>2. Increment(c, p) \in Clock /\ Increment(vc[p], p) \in Clock
        BY <1>1, <1>3, <3>1
      <3> QED BY <1>1, <3>1, <3>2
    <2>7. \/ vc' = [vc EXCEPT ![t] = Increment(Zero, t)]
          \/ vc' = [vc EXCEPT ![t] = c, ![p] = Increment(@, p)]
      BY <1>6 DEF VThreadStart
    <2> QED BY <1>1, <1>6, <2>4, <2>6, <2>7 DEF VThreadStart
  <1>7. CASE VRealJoin(t)
    <2>1. arg[t] \in Thread
      BY <1>7 DEF VRealJoin, RealJoin, CallInv
    <2> QED BY <1>1, <1>2, <1>7, <2>1 DEF VRealJoin, Learn
  <1>8. CASE VAfterPthreadJoin(t)
    <2>1. arg[t] \in Thread
      BY <1>8 DEF VAfterPthreadJoin, AfterPthreadJoin, CallInv
    <2>2. Increment(Join(vc[t], vc[arg[t]]), t) \in Clock
      BY <1>1, <1>2, <1>3, <2>1
    <2> QED BY <1>1, <1>8, <2>2 DEF VAfterPthreadJoin
  <1>9. CASE ProcessPostMutexLock(t)
    <2>1. arg[t] \in Mutex
      BY <1>9 DEF ProcessPostMutexLock, AfterPthreadMutexLock, CallInv
    <2> QED BY <1>1, <1>9, <2>1 DEF ProcessPostMutexLock, Lock
  <1>10. CASE \/ \E m \in Mutex : ProcessPreMutexUnlock(t, m)
              \/ ProcessPostRwlockRdlock(t) \/ ProcessPostRwlockWrlock(t)
              \/ ProcessPreRwlockUnlock(t)
    BY <1>1, <1>10 DEF ProcessPreMutexUnlock, ProcessPostRwlockRdlock,
       ProcessPostRwlockWrlock, ProcessPreRwlockUnlock, Lock
  <1>11. CASE VOther(t)
    BY <1>1, <1>11 DEF VOther
  <1> QED BY <1>5, <1>6, <1>7, <1>8, <1>9, <1>10, <1>11 DEF VSync

\* The table of postponed metas has an entry for whoever has postponed units.
MetasMatch == ppmetas = {t \in Thread : ppUnits[t] # {}}

\* One more unit, or none any more, for one thread.
LEMMA UnitAdded ==
  ASSUME ppUnits \in [Thread -> SUBSET Unit], MetasMatch, NEW t \in Thread, NEW x \in Unit,
         ppmetas' = ppmetas \cup {t}, ppUnits' = [ppUnits EXCEPT ![t] = @ \cup {x}]
  PROVE  ppUnits' \in [Thread -> SUBSET Unit] /\ MetasMatch'
  <1>1. ppUnits' \in [Thread -> SUBSET Unit]
    OBVIOUS
  <1>2. \A u \in Thread : u \in ppmetas' <=> ppUnits'[u] # {}
    BY DEF MetasMatch
  <1>3. ppmetas' \subseteq Thread
    BY DEF MetasMatch
  <1> QED BY <1>1, <1>2, <1>3 DEF MetasMatch

\* The units of a thread go into its history when its postponed metas are cleared.
LEMMA UnitsFollow ==
  ASSUME ppUnits \in [Thread -> SUBSET Unit], hist \in [Thread -> SUBSET Unit], MetasMatch,
         NEW t \in Thread, ppmetas' \in {ppmetas, ppmetas \ {t}}, Follow(t)
  PROVE  /\ ppUnits' \in [Thread -> SUBSET Unit] /\ hist' \in [Thread -> SUBSET Unit]
         /\ MetasMatch'
  <1>1. CASE t \in ppmetas'
    BY <1>1 DEF Follow, MetasMatch
  <1>2. CASE t \notin ppmetas'
    <2>1. ppUnits' = [ppUnits EXCEPT ![t] = {}] /\ hist' = [hist EXCEPT ![t] = @ \cup ppUnits[t]]
      BY <1>2 DEF Follow
    <2>2. \A u \in Thread : u \in ppmetas' <=> ppUnits'[u] # {}
      BY <1>2, <2>1 DEF MetasMatch
    <2>3. ppmetas' \subseteq Thread
      BY DEF MetasMatch
    <2> QED BY <2>1, <2>2, <2>3 DEF MetasMatch
  <1> QED BY <1>1, <1>2

\* The step that starts an access has a visit for the trace.
LEMMA VisitType ==
  ASSUME NEW t \in Thread, NEW i \in Inst, NEW x \in Unit
  PROVE  [inst |-> i, unit |-> x, wr |-> HeldWrite(t), rd |-> HeldRead(t)] \in Visit
  BY DEF Visit, HeldWrite, HeldRead, Lock

\* A step keeps the types.
LEMMA VTypeOKStep ==
  ASSUME IInv, VTypeOK, UnitsInv, SnapsKept, NEW t \in Thread, VStep(t)
  PROVE  VTypeOK'
  <1> USE DEF IInv
  <1>0. MetasMatch /\ ppUnits \in [Thread -> SUBSET Unit] /\ hist \in [Thread -> SUBSET Unit]
    BY DEF VTypeOK, MetasMatch
  <1>1. CASE VSync(t) \/ VOther(t)
    BY SMTT(20), <1>1, SyncFrame, SyncTypes DEF VTypeOK
  <1>2. CASE VBeforeMem(t)
    <2>1. PICK i \in Inst, x \in Unit :
            /\ at' = [at EXCEPT ![t] = <<i, x>>]
            /\ trace' = [trace EXCEPT ![t] = Append(@,
                 [inst |-> i, unit |-> x, wr |-> HeldWrite(t), rd |-> HeldRead(t)])]
      BY <1>2 DEF VBeforeMem, HeldWrite, HeldRead
    <2>2. at' \in [Thread -> Inst \X Unit]
      BY <2>1 DEF VTypeOK
    <2>3. trace' \in [Thread -> Seq(Visit)]
      BY <2>1, VisitType DEF VTypeOK
    <2>4. hb' \in [Thread -> Clock]
      BY <1>2 DEF VBeforeMem, VTypeOK, Clock
    <2>5. UNCHANGED <<metaVars, unitVars, foundVars, vc, parent, lsVars, ppmetas>>
      BY <1>2 DEF VBeforeMem, BeforeMem
    <2> QED BY <2>2, <2>3, <2>4, <2>5 DEF VTypeOK
  <1>3. CASE VPass(t)
    <2>1. ppUnits' \in [Thread -> SUBSET Unit] /\ hist' \in [Thread -> SUBSET Unit] /\ MetasMatch'
      <3>1. ppmetas' \in {ppmetas, ppmetas \ {t}} /\ Follow(t)
        BY <1>3, PassFrame
      <3> QED BY <1>0, <3>1, UnitsFollow
    <2> QED BY <1>3, <2>1, PassFrame DEF VTypeOK, MetasMatch
  <1>4. Where(t) \in Unit /\ Stmt(t) \in PStmt
    BY InstAssumption DEF VTypeOK, Where, Stmt
  <1>5. ASSUME AddMetaSnapshot(t)
        PROVE  /\ snaps' \in [Unit -> [Thread -> Seq(Snapshot)]]
               /\ \A x \in Unit, u \in Thread : Len(snaps'[x][u]) <= SnapLen
    <2>1. PICK s \in Seq(Snapshot) :
            snaps' = [snaps EXCEPT ![Where(t)][t] = Append(s, Taken(t))] /\ Len(s) < SnapLen
      BY <1>5, SnapshotAdded
    <2>2. Append(s, Taken(t)) \in Seq(Snapshot) /\ Len(Append(s, Taken(t))) <= SnapLen
      BY <1>5, <2>1, SnapAssumption, SnapshotAdded
    <2> DEFINE longer == Append(s, Taken(t))
    <2> HIDE DEF longer
    <2>3. snaps' = [snaps EXCEPT ![Where(t)][t] = longer]
      BY <2>1 DEF longer
    <2>4. longer \in Seq(Snapshot) /\ Len(longer) <= SnapLen
      BY <2>2 DEF longer
    <2> QED BY <1>4, <2>3, <2>4 DEF VTypeOK
  <1>6. ASSUME RecordFirst(t)
        PROVE  /\ accessed' \subseteq PStmt
               /\ stmtMetas' \in [PStmt -> SUBSET Unit]
               /\ \A s \in PStmt \ accessed' : stmtMetas'[s] = {}
    BY <1>4, <1>6 DEF RecordFirst, VTypeOK
  <1>7. CASE AccessFirst(t)
    <2>1. ppUnits' \in [Thread -> SUBSET Unit] /\ MetasMatch'
      <3>1. ppmetas' = ppmetas \cup {t} /\ ppUnits' = [ppUnits EXCEPT ![t] = @ \cup {Where(t)}]
        BY <1>7 DEF AccessFirst, RecordAndPostpone
      <3> QED BY <1>0, <1>4, <3>1, UnitAdded
    <2> QED BY <1>5, <1>6, <1>7, <2>1 DEF AccessFirst, RecordFirst, VTypeOK, MetasMatch
  <1>8. CASE AccessFirstAgain(t) \/ AccessSecondAgain(t)
    <2>1. ppUnits[t] = {}
      BY <1>8 DEF AccessFirstAgain, AccessSecondAgain, LeaveRegion, UnitsInv, Recorded, PpPC
    <2>2. ppmetas' = ppmetas
      BY <1>8, <2>1 DEF AccessFirstAgain, AccessSecondAgain, LeaveRegion, VTypeOK
    <2> QED BY <1>6, <1>8, <2>2 DEF AccessFirstAgain, AccessSecondAgain, RecordFirst, VTypeOK
  <1>9. CASE Verify(t)
    <2>1. PICK f, R, past, freed : VerifyEffect(t, f, R, past, freed)
      BY <1>9, VerifyFinds
    <2>2. /\ UNCHANGED <<at, hist, clockVars, lsVars, trace>>
          /\ ppmetas' = ppmetas \cup {t} /\ ppUnits' = [ppUnits EXCEPT ![t] = @ \cup {Where(t)}]
          /\ AddMetaSnapshot(t)
      BY <1>9 DEF Verify
    <2>3. ppUnits' \in [Thread -> SUBSET Unit] /\ MetasMatch'
      BY <1>0, <1>4, <2>2, UnitAdded
    <2>4. pairs' \subseteq PotentialPairs
      BY <2>1 DEF VerifyEffect, VTypeOK
    <2>5. /\ accessed' \subseteq PStmt
          /\ stmtMetas' \in [PStmt -> SUBSET Unit]
          /\ \A s \in PStmt \ accessed' : stmtMetas'[s] = {}
      BY <1>4, <2>1 DEF VerifyEffect, VTypeOK
    <2>6. usedFreed' \in BOOLEAN
      BY <2>1 DEF VerifyEffect
    <2>7. raced' \in [Unit -> SUBSET {{i, j} : i, j \in Inst}]
      <3>1. at[t][1] \in Inst
        BY DEF VTypeOK
      <3>2. \A j \in past : j \in Inst
        BY <2>1 DEF VerifyEffect, HistoryRaces
      <3>3. \A u \in R : Latest(Where(t), u).inst \in Inst
        <4> SUFFICES ASSUME NEW u \in R PROVE Latest(Where(t), u).inst \in Inst
          OBVIOUS
        <4>1. u \in Thread /\ Where(t) \in ppUnits[u]
          BY <2>1 DEF VerifyEffect, RacingWith, WaitingAt, TypeOK
        <4> DEFINE seen == snaps[Where(t)][u]
        <4>2. seen \in Seq(Snapshot) /\ seen # << >>
          BY <1>4, <4>1 DEF VTypeOK, SnapsKept
        <4> HIDE DEF seen
        <4>3. seen[Len(seen)] \in Snapshot
          BY <4>2
        <4> QED BY <4>3 DEF Latest, Snapshot, seen
      <3> DEFINE new == {{Latest(Where(t), u).inst, at[t][1]} : u \in R} \cup {{j, at[t][1]} : j \in past}
      <3>4. new \subseteq {{i, j} : i, j \in Inst}
        BY <3>1, <3>2, <3>3
      <3>5. raced' = [raced EXCEPT ![Where(t)] = @ \cup new]
        BY <2>1 DEF VerifyEffect
      <3> HIDE DEF new
      <3> QED BY <1>4, <3>4, <3>5 DEF VTypeOK
    <2>8. /\ snaps' \in [Unit -> [Thread -> Seq(Snapshot)]]
          /\ \A x \in Unit, u \in Thread : Len(snaps'[x][u]) <= SnapLen
      BY <1>5, <2>2
    <2>9. /\ at' \in [Thread -> Inst \X Unit] /\ hist' \in [Thread -> SUBSET Unit]
          /\ vc' \in [Thread -> Clock] /\ parent' \in [Thread -> Thread] /\ hb' \in [Thread -> Clock]
          /\ ls' \in [Thread -> SUBSET Lock] /\ rdls' \in [Thread -> SUBSET {Rwlock}]
          /\ trace' \in [Thread -> Seq(Visit)]
      BY <2>2 DEF VTypeOK
    <2> QED BY ONLY <2>3, <2>4, <2>5, <2>6, <2>7, <2>8, <2>9 DEF VTypeOK, MetasMatch
  <1> QED BY <1>1, <1>2, <1>3, <1>7, <1>8, <1>9 DEF VStep, VAccess
\* A verification ends in a recorded access.
LEMMA VerifyRecords ==
  ASSUME TypeOK, VTypeOK, NEW t \in Thread, Verify(t)
  PROVE  pc[t] = "region" /\ pc'[t] \in Recorded /\ \A u \in Thread \ {t} : pc'[u] = pc[u]
  <1>1. pc \in [Thread -> PC]
    BY DEF TypeOK
  <1> QED BY <1>1, VerifyFinds DEF HandleRace, RecordAndPostpone, RecordAndKeepup, Recorded

\* The units of an access are added when it is recorded, and leave with it.
LEMMA UnitsInvStep ==
  ASSUME IInv, VTypeOK, UnitsInv, NEW t \in Thread, VStep(t)
  PROVE  UnitsInv'
  <1>0. TypeOK /\ CallInv /\ pc \in [Thread -> PC]
    BY DEF IInv, TypeOK
  <1> USE <1>0
  <1>1. ppUnits \in [Thread -> SUBSET Unit] /\ at \in [Thread -> Inst \X Unit]
    BY DEF VTypeOK
  <1>2. Recorded \subseteq AccessPC
    BY DEF Recorded, AccessPC, RegionPC
  <1>3. CASE VSync(t) \/ VOther(t)
    BY <1>2, <1>3, SyncFrame DEF UnitsInv, Where
  <1>4. CASE VBeforeMem(t)
    <2>1. /\ pc[t] = "run" /\ pc' = [pc EXCEPT ![t] = "choose"] /\ ppUnits' = ppUnits
          /\ \E a \in Inst \X Unit : at' = [at EXCEPT ![t] = a]
      BY <1>4 DEF VBeforeMem, BeforeMem
    <2> QED BY <1>1, <2>1 DEF UnitsInv, Where, Recorded, PpPC
  <1>5. CASE VPass(t)
    <2>1. at' = at /\ Follow(t) /\ \A u \in Thread \ {t} : pc'[u] = pc[u]
      BY <1>5, PassFrame
    <2>2. pc[t] \notin Recorded \/ pc'[t] \in Recorded \/ t \notin ppmetas'
      BY <1>5, PassFrame DEF Recorded, PpPC
    <2>3. ppUnits'[t] \subseteq IF pc'[t] \in Recorded THEN {Where(t)} ELSE {}
      BY <1>1, <2>1, <2>2 DEF Follow, UnitsInv
    <2>4. \A u \in Thread \ {t} : ppUnits'[u] = ppUnits[u]
      BY <1>1, <2>1 DEF Follow
    <2> QED BY <2>1, <2>3, <2>4 DEF UnitsInv, Where
  <1>6. CASE AccessFirst(t)
    BY <1>1, <1>6 DEF AccessFirst, RecordAndPostpone, RecordFirst, UnitsInv, Where, Recorded, PpPC
  <1>7. CASE AccessFirstAgain(t) \/ AccessSecondAgain(t)
    BY <1>1, <1>7 DEF AccessFirstAgain, AccessSecondAgain, LeaveRegion, RecordFirst, UnitsInv,
       Where, Recorded, PpPC
  <1>8. CASE Verify(t)
    <2>1. at' = at /\ ppUnits' = [ppUnits EXCEPT ![t] = @ \cup {Where(t)}]
      BY <1>8 DEF Verify
    <2>2. ppUnits[t] = {}
      BY <1>8, VerifyRecords DEF UnitsInv, Recorded, PpPC
    <2> QED BY <1>1, <1>8, <2>1, <2>2, VerifyRecords DEF UnitsInv, Where
  <1> QED BY <1>3, <1>4, <1>5, <1>6, <1>7, <1>8 DEF VStep, VAccess

\* Snapshots are replaced, not removed.
LEMMA SnapsKeptStep ==
  ASSUME IInv, VTypeOK, SnapsKept, NEW t \in Thread, VStep(t)
  PROVE  SnapsKept'
  <1>0. TypeOK /\ CallInv
    BY DEF IInv
  <1> USE <1>0
  <1>1. /\ ppUnits \in [Thread -> SUBSET Unit] /\ hist \in [Thread -> SUBSET Unit]
        /\ snaps \in [Unit -> [Thread -> Seq(Snapshot)]]
    BY DEF VTypeOK
  <1>2. ASSUME UNCHANGED <<ppUnits, hist, snaps>> PROVE SnapsKept'
    BY <1>2 DEF SnapsKept
  <1>3. CASE VSync(t) \/ VOther(t)
    BY <1>2, <1>3, SyncFrame
  <1>4. CASE VBeforeMem(t) \/ AccessFirstAgain(t) \/ AccessSecondAgain(t)
    BY <1>2, <1>4 DEF VBeforeMem, AccessFirstAgain, RecordFirst, AccessSecondAgain
  <1>5. CASE VPass(t)
    <2>1. snaps' = snaps /\ Follow(t)
      BY <1>5, PassFrame
    <2>2. \A u \in Thread : ppUnits'[u] \cup hist'[u] \subseteq ppUnits[u] \cup hist[u]
      BY <1>1, <2>1 DEF Follow
    <2> QED BY <2>1, <2>2 DEF SnapsKept
  <1>6. CASE AccessFirst(t) \/ Verify(t)
    <2>0. AddMetaSnapshot(t)
      BY <1>6 DEF AccessFirst, Verify
    <2>1. hist' = hist /\ ppUnits' = [ppUnits EXCEPT ![t] = @ \cup {Where(t)}]
      BY <1>6 DEF AccessFirst, RecordFirst, Verify
    <2>6. Taken(t) \in Snapshot /\ Where(t) \in Unit
      BY <2>0, SnapshotAdded
    <2>2. PICK s \in Seq(Snapshot) : snaps' = [snaps EXCEPT ![Where(t)][t] = Append(s, Taken(t))]
      BY <2>0, SnapshotAdded
    <2> DEFINE longer == Append(s, Taken(t))
    <2>3. longer # << >>
      <3>1. Len(longer) = Len(s) + 1 /\ Len(s) \in Nat
        BY <2>6
      <3>2. Len(<< >>) = 0
        OBVIOUS
      <3> HIDE DEF longer
      <3> QED BY <3>1, <3>2
    <2>4. snaps' = [snaps EXCEPT ![Where(t)][t] = longer]
      BY <2>2
    <2> HIDE DEF longer
    <2>5. ASSUME NEW u \in Thread, NEW x \in ppUnits'[u] \cup hist'[u] PROVE snaps'[x][u] # << >>
      <3>1. x \in Unit
        BY <1>1, <2>1, <2>6
      <3>2. CASE u = t /\ x = Where(t)
        BY <1>1, <2>6, <2>3, <2>4, <3>2
      <3>3. CASE ~ (u = t /\ x = Where(t))
        <4>1. x \in ppUnits[u] \cup hist[u]
          BY <1>1, <2>1, <3>3
        <4>2. snaps'[x][u] = snaps[x][u]
          BY <1>1, <2>6, <2>4, <3>1, <3>3
        <4> QED BY <4>1, <4>2 DEF SnapsKept
      <3> QED BY <3>2, <3>3
    <2> QED BY <2>5 DEF SnapsKept
  <1> QED BY <1>3, <1>4, <1>5, <1>6 DEF VStep, VAccess

\* A step keeps locksets and locks together.
LEMMA LockIInvStep ==
  ASSUME IInv, VTypeOK, LockIInv, NEW t \in Thread, VStep(t)
  PROVE  LockIInv'
  <1>0. TypeOK /\ CallInv
    BY DEF IInv
  <1>1. /\ pc \in [Thread -> PC] /\ realHolder \in [Mutex -> Thread \cup {NoThread}]
        /\ arg \in [Thread -> Mutex \cup Thread \cup {NoArg}]
        /\ realWriter \in Thread \cup {NoThread} /\ realReaders \subseteq Thread
    BY <1>0 DEF TypeOK
  <1>9. ls \in [Thread -> SUBSET Lock] /\ rdls \in [Thread -> SUBSET {Rwlock}]
    BY DEF VTypeOK
  <1> USE <1>0, <1>9, NullAssumption, LockAssumption
  <1>2. CASE VSync(t)
    <2>1. CASE (\E c \in Thread : VCreate(t, c)) \/ VThreadStart(t) \/ VRealJoin(t)
      BY <1>1, <1>2, <2>1 DEF VCreate, VThreadStart, VRealJoin, Create, ThreadStart, RealJoin,
         LockIInv, CallInv
    <2>2. CASE VAfterPthreadJoin(t) \/ ProcessPostMutexLock(t)
      BY <1>1, <1>2, <2>2 DEF VAfterPthreadJoin, ProcessPostMutexLock, AfterPthreadJoin,
         AfterPthreadMutexLock, LockIInv, CallInv
    <2>3. CASE \E m \in Mutex : ProcessPreMutexUnlock(t, m)
      BY <1>1, <1>2, <2>3 DEF ProcessPreMutexUnlock, RealMutexUnlock, LockIInv
    <2>4. CASE ProcessPostRwlockRdlock(t) \/ ProcessPostRwlockWrlock(t)
      BY <1>1, <1>2, <2>4 DEF ProcessPostRwlockRdlock, ProcessPostRwlockWrlock,
         AfterPthreadRwlockRdlock, AfterPthreadRwlockWrlock, LockIInv, CallInv
    <2>5. CASE ProcessPreRwlockUnlock(t)
      BY <1>1, <1>2, <2>5 DEF ProcessPreRwlockUnlock, RealRwlockUnlock, LockIInv
    <2> QED BY <1>2, <2>1, <2>2, <2>3, <2>4, <2>5 DEF VSync
  <1>3. CASE VOther(t)
    <2>1. UNCHANGED <<ls, rdls>>
      BY <1>3 DEF VOther
    <2>2. CASE RealMutexLock(t)
      BY <1>1, <2>1, <2>2 DEF RealMutexLock, LockIInv, CallInv
    <2>3. CASE RealRwlockRdlock(t)
      BY <1>1, <2>1, <2>3 DEF RealRwlockRdlock, LockIInv
    <2>6. CASE RealRwlockWrlock(t)
      BY <1>1, <2>1, <2>6 DEF RealRwlockWrlock, LockIInv
    <2>4. CASE \/ ThreadExit(t) \/ \E c \in Thread : BeforePthreadJoin(t, c)
               \/ \E m \in Mutex : BeforePthreadMutexLock(t, m)
      BY <1>1, <2>1, <2>4 DEF ThreadExit, BeforePthreadJoin, BeforePthreadMutexLock, LockIInv
    <2>5. CASE \/ \E there \in {"rdLocking", "rdTrying"} : BeforePthreadRwlockRdlock(t, there)
               \/ \E there \in {"wrLocking", "wrTrying"} : BeforePthreadRwlockWrlock(t, there)
               \/ AfterPthreadMutexUnlock(t) \/ RealRwlockTryFail(t) \/ AfterTryFailed(t)
               \/ AfterPthreadRwlockUnlock(t)
      BY <1>1, <2>1, <2>5 DEF BeforePthreadRwlockRdlock, BeforePthreadRwlockWrlock,
         AfterPthreadMutexUnlock, RealRwlockTryFail, AfterTryFailed, AfterPthreadRwlockUnlock,
         LockIInv
    <2> QED BY <1>3, <2>2, <2>3, <2>4, <2>5, <2>6 DEF VOther
  <1>4. CASE VAccess(t)
    BY <1>1, <1>4, AccessStepFrame DEF AccessPC, RegionPC, PpPC, LockIInv
  <1> QED BY <1>2, <1>3, <1>4 DEF VStep

\* What a thread in an access holds does not change.
LEMMA HeldFrame ==
  ASSUME IInv, VTypeOK, NEW t \in Thread, VStep(t), NEW u \in Thread, pc[u] \in AccessPC
  PROVE  HeldWrite(u)' = HeldWrite(u) /\ HeldRead(u)' = HeldRead(u)
  <1> USE NullAssumption DEF IInv, HeldWrite, HeldRead
  <1>1. /\ realHolder \in [Mutex -> Thread \cup {NoThread}]
        /\ arg \in [Thread -> Mutex \cup Thread \cup {NoArg}]
    BY DEF TypeOK
  <1>2. CASE VAccess(t)
    BY <1>2, AccessStepFrame
  <1>3. CASE VSync(t)
    BY <1>1, <1>3 DEF AccessPC, RegionPC, PpPC, VSync, VCreate, VThreadStart, VRealJoin,
       VAfterPthreadJoin, ProcessPostMutexLock, ProcessPreMutexUnlock, ProcessPostRwlockRdlock,
       ProcessPostRwlockWrlock, ProcessPreRwlockUnlock, Create, ThreadStart, RealJoin,
       AfterPthreadJoin, AfterPthreadMutexLock, RealMutexUnlock,
       AfterPthreadRwlockRdlock, AfterPthreadRwlockWrlock, RealRwlockUnlock
  <1>4. CASE VOther(t)
    BY <1>1, <1>4 DEF AccessPC, RegionPC, PpPC, VOther, ThreadExit, BeforePthreadJoin,
       BeforePthreadMutexLock, RealMutexLock, AfterPthreadMutexUnlock, BeforePthreadRwlockRdlock,
       BeforePthreadRwlockWrlock, RealRwlockRdlock, RealRwlockWrlock, RealRwlockTryFail,
       AfterTryFailed, AfterPthreadRwlockUnlock, CallInv
  <1> QED BY <1>2, <1>3, <1>4 DEF VStep
\* The kinds of steps in an access that change neither where threads are in
\* their accesses nor what they have done.
LEMMA TraceFrame ==
  ASSUME NEW t \in Thread, VPass(t) \/ AccessFirst(t) \/ AccessFirstAgain(t)
                             \/ AccessSecondAgain(t) \/ Verify(t)
  PROVE  UNCHANGED <<at, trace, clockVars>> /\ pc[t] \in AccessPC
  <1>1. CASE VPass(t)
    BY <1>1 DEF VPass, AccessPC, RegionPC, PpPC, ChooseRandomThreadBeforeProcess, WakeUpOne,
       WakeUpDone, KeepupThread, PostponeThread, TakePermit, TimeOut, AfterWait
  <1>2. CASE AccessFirst(t) \/ AccessFirstAgain(t) \/ AccessSecondAgain(t) \/ Verify(t)
    BY <1>2 DEF AccessFirst, AccessFirstAgain, AccessSecondAgain, Verify, RecordFirst,
       RecordAndPostpone, LeaveRegion, AccessPC, RegionPC
  <1> QED BY <1>1, <1>2

\* The visit a thread adds when it starts an access.
LEMMA VisitAdded ==
  ASSUME VTypeOK, NEW t \in Thread, VBeforeMem(t)
  PROVE  /\ at'[t] \in Inst \X Unit
         /\ at' = [at EXCEPT ![t] = at'[t]]
         /\ trace' = [trace EXCEPT ![t] = Append(@,
              [inst |-> at'[t][1], unit |-> at'[t][2], wr |-> HeldWrite(t), rd |-> HeldRead(t)])]
         /\ hb' = [hb EXCEPT ![t][t] = @ + 1]
         /\ pc' = [pc EXCEPT ![t] = "choose"] /\ pc[t] = "run"
         /\ UNCHANGED <<metaVars, unitVars, foundVars, vc, parent, lsVars, arg, syncVars>>
  <1>1. at \in [Thread -> Inst \X Unit]
    BY DEF VTypeOK
  <1>2. PICK i \in Inst, x \in Unit :
          /\ at' = [at EXCEPT ![t] = <<i, x>>]
          /\ trace' = [trace EXCEPT ![t] = Append(@,
               [inst |-> i, unit |-> x, wr |-> HeldWrite(t), rd |-> HeldRead(t)])]
    BY DEF VBeforeMem, HeldWrite, HeldRead
  <1>3. at'[t] = <<i, x>>
    BY <1>1, <1>2
  <1>4. at'[t][1] = i /\ at'[t][2] = x /\ at'[t] \in Inst \X Unit
    BY <1>3
  <1>5. /\ hb' = [hb EXCEPT ![t][t] = @ + 1]
        /\ pc' = [pc EXCEPT ![t] = "choose"] /\ pc[t] = "run"
        /\ UNCHANGED <<metaVars, unitVars, foundVars, vc, parent, lsVars, arg, syncVars>>
    BY DEF VBeforeMem, BeforeMem
  <1> QED BY <1>2, <1>3, <1>4, <1>5

\* An access stays the last of its trace until it is over.
LEMMA AccessInvStep ==
  ASSUME IInv, VTypeOK, AccessInv, NEW t \in Thread, VStep(t)
  PROVE  AccessInv'
  <1>0. TypeOK /\ CallInv /\ pc \in [Thread -> PC]
    BY DEF IInv, TypeOK
  <1>1. trace \in [Thread -> Seq(Visit)] /\ at \in [Thread -> Inst \X Unit]
    BY DEF VTypeOK
  <1> USE <1>0
  <1>2. ASSUME UNCHANGED <<at, trace>>, \A u \in Thread : pc'[u] \in AccessPC => pc[u] \in AccessPC
        PROVE  AccessInv'
    BY <1>2, HeldFrame DEF AccessInv, Where
  <1>3. CASE VSync(t) \/ VOther(t)
    BY <1>2, <1>3, SyncFrame
  <1>4. CASE VBeforeMem(t)
    <2> DEFINE v == [inst |-> at'[t][1], unit |-> at'[t][2], wr |-> HeldWrite(t), rd |-> HeldRead(t)]
    <2>1. /\ trace' = [trace EXCEPT ![t] = Append(@, v)] /\ at'[t] \in Inst \X Unit
          /\ at' = [at EXCEPT ![t] = at'[t]]
          /\ pc' = [pc EXCEPT ![t] = "choose"] /\ UNCHANGED syncVars
      BY <1>4, VisitAdded
    <2>2. v \in Visit
      BY <2>1, VisitType
    <2>3. HeldWrite(t)' = HeldWrite(t) /\ HeldRead(t)' = HeldRead(t)
      BY <2>1 DEF HeldWrite, HeldRead
    <2>4. Len(trace'[t]) > 0 /\ trace'[t][Len(trace'[t])] = v
      <3> HIDE DEF v
      <3> QED BY <1>1, <2>1, <2>2
    <2>5. \A u \in Thread \ {t} : trace'[u] = trace[u] /\ at'[u] = at[u] /\ pc'[u] = pc[u]
      BY <1>1, <2>1
    <2>6. ASSUME NEW u \in Thread, pc'[u] \in AccessPC
          PROVE  /\ Len(trace'[u]) > 0
                 /\ trace'[u][Len(trace'[u])] = [inst |-> at'[u][1], unit |-> at'[u][2],
                                  wr |-> HeldWrite(u)', rd |-> HeldRead(u)']
      BY <2>3, <2>4, <2>5, <2>6, HeldFrame DEF AccessInv, Where
    <2> QED BY <2>6 DEF AccessInv, Where
  <1>5. CASE VPass(t) \/ AccessFirst(t) \/ AccessFirstAgain(t) \/ AccessSecondAgain(t) \/ Verify(t)
    <2>1. UNCHANGED <<at, trace>> /\ pc[t] \in AccessPC
      BY <1>5, TraceFrame
    <2>2. \A u \in Thread \ {t} : pc'[u] = pc[u]
      BY <1>5, AccessStepFrame DEF VAccess
    <2> QED BY <1>2, <2>1, <2>2
  <1> QED BY <1>3, <1>4, <1>5 DEF VStep, VAccess

\* A postponed thread can be found until its access is over.
LEMMA FoundInvStep ==
  ASSUME IInv, VTypeOK, FoundInv, NEW t \in Thread, VStep(t)
  PROVE  FoundInv'
  <1>0. TypeOK /\ CallInv /\ pc \in [Thread -> PC]
    BY DEF IInv, TypeOK
  <1> USE <1>0
  <1>1. /\ ppUnits \in [Thread -> SUBSET Unit] /\ at \in [Thread -> Inst \X Unit]
        /\ snaps \in [Unit -> [Thread -> Seq(Snapshot)]] /\ stmtMetas \in [PStmt -> SUBSET Unit]
        /\ ppmetas = {u \in Thread : ppUnits[u] # {}}
        /\ \A u \in Thread : Stmt(u) \in PStmt /\ Where(u) \in Unit
    BY InstAssumption DEF VTypeOK, Stmt, Where
  <1>2. Recorded \subseteq AccessPC
    BY DEF Recorded, AccessPC, RegionPC
  <1>3. CASE VSync(t) \/ VOther(t)
    BY <1>2, <1>3, SyncFrame DEF FoundInv, Where, Stmt, Latest
  <1>4. CASE VBeforeMem(t)
    <2>1. /\ pc' = [pc EXCEPT ![t] = "choose"]
          /\ UNCHANGED <<ppUnits, snaps, pairs, stmtMetas>>
          /\ at' = [at EXCEPT ![t] = at'[t]]
      BY <1>4, VisitAdded
    <2> QED BY ZenonT(20), <1>1, <2>1 DEF FoundInv, Where, Stmt, Latest, Recorded, PpPC
  <1>5. CASE VPass(t)
    <2>1. UNCHANGED <<at, snaps, pairs, stmtMetas>> /\ \A u \in Thread \ {t} : pc'[u] = pc[u]
      BY <1>5, PassFrame
    <2>2. pc'[t] \in Recorded => pc[t] \in Recorded /\ ppmetas' = ppmetas
      BY <1>5, PassFrame DEF Recorded, PpPC
    <2>3. \A u \in Thread : pc'[u] \in Recorded => ppUnits'[u] = ppUnits[u]
      BY <1>1, <1>5, <2>2, PassFrame DEF Follow, FoundInv
    <2> QED BY <2>1, <2>2, <2>3 DEF FoundInv, Where, Stmt, Latest
  <1>6. CASE AccessFirstAgain(t) \/ AccessSecondAgain(t)
    <2>1. /\ pc' = [pc EXCEPT ![t] = "run"]
          /\ UNCHANGED <<at, snaps, pairs, ppUnits>>
          /\ \A q \in PStmt : stmtMetas[q] \subseteq stmtMetas'[q]
      BY ZenonT(20), <1>1, <1>6 DEF AccessFirstAgain, AccessSecondAgain, LeaveRegion, RecordFirst
    <2> QED BY <1>1, <2>1 DEF FoundInv, Where, Stmt, Latest, Recorded, PpPC
  <1>7. CASE AccessFirst(t) \/ Verify(t)
    <2>1. /\ at' = at /\ ppUnits' = [ppUnits EXCEPT ![t] = @ \cup {Where(t)}]
          /\ AddMetaSnapshot(t)
      BY <1>7 DEF AccessFirst, RecordFirst, Verify
    <2>2. Latest(Where(t), t)' = Taken(t)
      <3>1. PICK s \in Seq(Snapshot) : snaps' = [snaps EXCEPT ![Where(t)][t] = Append(s, Taken(t))]
        BY <2>1, SnapshotAdded
      <3>2. Taken(t) \in Snapshot
        BY <2>1, SnapshotAdded
      <3> DEFINE new == Taken(t)
                 x == Where(t)
      <3>3. snaps'[x][t] = Append(s, new) /\ x' = x
        BY <1>1, <2>1, <3>1 DEF Where
      <3> HIDE DEF new, x
      <3>4. Append(s, new)[Len(Append(s, new))] = new
        BY <3>2 DEF new
      <3> QED BY <3>3, <3>4 DEF Latest, new, x
    <2>3. \A u \in Thread \ {t} : Latest(Where(u), u)' = Latest(Where(u), u)
      <3>1. \A u \in Thread \ {t} : \A x \in Unit : snaps'[x][u] = snaps[x][u]
        BY <1>1, <2>1 DEF AddMetaSnapshot
      <3> QED BY <1>1, <2>1, <3>1 DEF Latest, Where
    <2>4. \A u \in Thread \ {t} : pc'[u] = pc[u]
      BY <1>7, AccessStepFrame DEF VAccess
    <2>5. ASSUME NEW u \in Thread, u = t \/ Where(u) \in stmtMetas[Stmt(u)],
                 \E p \in pairs' : Stmt(u) \in p
          PROVE  Where(u) \in stmtMetas'[Stmt(u)]
      <3>1. CASE AccessFirst(t)
        BY <1>1, <2>5, <3>1 DEF AccessFirst, RecordFirst
      <3>2. CASE Verify(t)
        <4>1. PICK f, R, past, freed : VerifyEffect(t, f, R, past, freed)
          BY <3>2, VerifyFinds
        <4>2. Stmt(u) \notin freed
          BY <2>5, <4>1 DEF VerifyEffect, HasFullyVerified
        <4> QED BY <1>1, <2>5, <4>1, <4>2 DEF VerifyEffect
      <3> QED BY <1>7, <3>1, <3>2
    <2>6. pairs' \subseteq pairs
      <3>1. CASE AccessFirst(t)
        BY <3>1 DEF AccessFirst, RecordFirst
      <3>2. CASE Verify(t)
        BY <3>2, VerifyFinds DEF VerifyEffect
      <3> QED BY <1>7, <3>1, <3>2
    <2>7. ASSUME NEW u \in Thread, pc'[u] \in Recorded
          PROVE  /\ Where(u) \in ppUnits'[u]
                 /\ Latest(Where(u), u)'.inst = at[u][1]
                 /\ (\E p \in pairs' : Stmt(u) \in p) => Where(u) \in stmtMetas'[Stmt(u)]
      <3>1. CASE u = t
        BY <1>1, <2>1, <2>2, <2>5, <3>1 DEF Taken
      <3>2. CASE u # t
        BY <1>1, <2>1, <2>3, <2>4, <2>5, <2>6, <2>7, <3>2 DEF FoundInv
      <3> QED BY <3>1, <3>2
    <2>8. \A u \in Thread : Where(u)' = Where(u) /\ Stmt(u)' = Stmt(u)
      BY <2>1 DEF Where, Stmt
    <2> QED BY <2>1, <2>7, <2>8 DEF FoundInv
  <1> QED BY <1>3, <1>4, <1>5, <1>6, <1>7 DEF VStep, VAccess
\* The database forgets the pairs of what is reported.
LEMMA DatabaseStep ==
  ASSUME IInv, VTypeOK, FoundInv, DatabaseInv, NEW t \in Thread, VStep(t)
  PROVE  DatabaseInv'
  <1>0. TypeOK /\ CallInv
    BY DEF IInv
  <1> USE <1>0
  <1>1. ASSUME UNCHANGED <<pairs, raced>> PROVE DatabaseInv'
    BY <1>1 DEF DatabaseInv
  <1>2. CASE VSync(t) \/ VOther(t)
    BY <1>1, <1>2, SyncFrame
  <1>3. CASE VBeforeMem(t) \/ VPass(t) \/ AccessFirst(t) \/ AccessFirstAgain(t) \/ AccessSecondAgain(t)
    <2>1. UNCHANGED <<pairs, raced>>
      BY <1>3 DEF VBeforeMem, VPass, AccessFirst, AccessFirstAgain, AccessSecondAgain, RecordFirst
    <2> QED BY <1>1, <2>1
  <1>4. CASE Verify(t)
    <2> DEFINE x == Where(t)
               i == at[t][1]
               stmts(p) == {StmtOf[j] : j \in p}
    <2>1. PICK f, R, past, freed : VerifyEffect(t, f, R, past, freed)
      BY <1>4, VerifyFinds
    <2> DEFINE new == {{Latest(x, u).inst, i} : u \in R} \cup {{j, i} : j \in past}
               gone == {{StmtOf[j], Stmt(t)} : j \in past} \cup {p \in {{f, Stmt(t)}} : R # {}}
    <2>2. raced' = [raced EXCEPT ![x] = @ \cup new] /\ pairs' = pairs \ gone
      BY <2>1 DEF VerifyEffect
    <2>3. \A u \in R : StmtOf[Latest(x, u).inst] = f
      BY <2>1 DEF VerifyEffect, RacingWith
    <2>4. {stmts(p) : p \in new} = gone
      <3>1. \A j : stmts({j, i}) = {StmtOf[j], Stmt(t)}
        BY DEF Stmt
      <3> HIDE DEF stmts, x, i
      <3>2. \A u \in R : stmts({Latest(x, u).inst, i}) = {f, Stmt(t)}
        BY <2>3, <3>1
      <3>3. {stmts(p) : p \in {{Latest(x, u).inst, i} : u \in R}} = {p \in {{f, Stmt(t)}} : R # {}}
        BY <3>2
      <3>4. {stmts(p) : p \in {{j, i} : j \in past}} = {{StmtOf[j], Stmt(t)} : j \in past}
        BY <3>1
      <3> QED BY <3>3, <3>4
    <2>5. x \in Unit /\ raced \in [Unit -> SUBSET {{j, k} : j, k \in Inst}]
      BY DEF VTypeOK, Where
    <2> HIDE DEF x, new, gone, stmts
    <2>6. \A q : (\E y \in Unit : \E p \in raced'[y] : q = stmts(p))
                   <=> (\E y \in Unit : \E p \in raced[y] : q = stmts(p)) \/ q \in gone
      BY <2>2, <2>4, <2>5
    <2>7. \A q : q \in pairs <=> /\ q \in PotentialPairs
                                  /\ ~ \E y \in Unit : \E p \in raced[y] : q = stmts(p)
      BY DEF DatabaseInv, stmts
    <2>8. \A q : q \in pairs' <=> /\ q \in PotentialPairs
                                   /\ ~ \E y \in Unit : \E p \in raced'[y] : q = stmts(p)
      BY <2>2, <2>6, <2>7
    <2>9. pairs' = PotentialPairs \ UNION {{stmts(p) : p \in raced'[y]} : y \in Unit}
      BY <2>8
    <2> QED BY <2>9 DEF DatabaseInv, stmts
  <1> QED BY <1>2, <1>3, <1>4 DEF VStep, VAccess

\* The calls that neither create a thread nor wait for one.
Quiet(t) ==
  \/ ProcessPostMutexLock(t) \/ \E m \in Mutex : ProcessPreMutexUnlock(t, m)
  \/ ProcessPostRwlockRdlock(t) \/ ProcessPostRwlockWrlock(t)
  \/ ProcessPreRwlockUnlock(t) \/ VOther(t)

\* They move one thread between places that have nothing to do with that.
LEMMA QuietCalls ==
  ASSUME TypeOK, pc \in [Thread -> PC], NEW t \in Thread, Quiet(t)
  PROVE  /\ \E there \in PC \ {"unborn", "starting", "joined", "reaped"} :
              pc' = [pc EXCEPT ![t] = there]
         /\ pc[t] \in PC \ {"unborn", "starting", "joined", "reaped"}
         /\ \A u \in Thread \ {t} : arg'[u] = arg[u]
  <1>1. arg \in [Thread -> Mutex \cup Thread \cup {NoArg}]
    BY DEF TypeOK
  <1>2. CASE \/ ProcessPostMutexLock(t) \/ \E m \in Mutex : ProcessPreMutexUnlock(t, m)
             \/ ProcessPostRwlockRdlock(t) \/ ProcessPostRwlockWrlock(t)
             \/ ProcessPreRwlockUnlock(t)
    BY <1>1, <1>2 DEF ProcessPostMutexLock, ProcessPreMutexUnlock,
       ProcessPostRwlockRdlock, ProcessPostRwlockWrlock, ProcessPreRwlockUnlock,
       AfterPthreadMutexLock, RealMutexUnlock, AfterPthreadRwlockRdlock,
       AfterPthreadRwlockWrlock, RealRwlockUnlock, PC, AvailPC, BlkPC
  <1>3. CASE VOther(t)
    <2>1. CASE \/ ThreadExit(t) \/ \E c \in Thread : BeforePthreadJoin(t, c)
               \/ \E m \in Mutex : BeforePthreadMutexLock(t, m)
               \/ RealMutexLock(t) \/ AfterPthreadMutexUnlock(t)
      BY <1>1, <2>1 DEF ThreadExit, BeforePthreadJoin, BeforePthreadMutexLock,
         RealMutexLock, AfterPthreadMutexUnlock, PC, AvailPC, BlkPC, GonePC
    <2>2. CASE \/ \E there \in {"rdLocking", "rdTrying"} : BeforePthreadRwlockRdlock(t, there)
               \/ \E there \in {"wrLocking", "wrTrying"} : BeforePthreadRwlockWrlock(t, there)
               \/ RealRwlockRdlock(t) \/ RealRwlockWrlock(t) \/ RealRwlockTryFail(t)
               \/ AfterTryFailed(t) \/ AfterPthreadRwlockUnlock(t)
      BY <1>1, <2>2 DEF BeforePthreadRwlockRdlock, BeforePthreadRwlockWrlock,
         RealRwlockRdlock, RealRwlockWrlock, RealRwlockTryFail, AfterTryFailed,
         AfterPthreadRwlockUnlock, PC, AvailPC, BlkPC
    <2> QED BY <1>3, <2>1, <2>2 DEF VOther
  <1> QED BY <1>2, <1>3 DEF Quiet

\* A step of a thread creates another, or reaps it, by the rules of pthread.
LEMMA BirthInvStep ==
  ASSUME IInv, VTypeOK, BirthInv, NEW t \in Thread, VStep(t)
  PROVE  BirthInv'
  <1>0. TypeOK /\ CallInv
    BY DEF IInv
  <1> USE <1>0
  <1>1. pc \in [Thread -> PC] /\ arg \in [Thread -> Mutex \cup Thread \cup {NoArg}]
    BY DEF TypeOK
  <1>2. /\ parent \in [Thread -> Thread] /\ hb \in [Thread -> Clock]
        /\ trace \in [Thread -> Seq(Visit)]
    BY DEF VTypeOK
  <1>3. CASE \E c \in Thread : VCreate(t, c)
    <2>1. PICK c \in Thread : VCreate(t, c)
      BY <1>3
    <2>2. /\ pc[t] = "run" /\ pc[c] = "unborn" /\ pc' = [pc EXCEPT ![c] = "starting"]
          /\ parent' = [parent EXCEPT ![c] = t] /\ UNCHANGED <<arg, trace>>
          /\ hb' = [hb EXCEPT ![c] = Join(@, hb[t])]
      BY <2>1 DEF VCreate, Create, Learn
    <2>3. c # Main
      BY <2>2 DEF BirthInv
    <2> QED BY <1>1, <1>2, <2>2, <2>3, MainAssumption DEF BirthInv
  <1>4. CASE VThreadStart(t)
    BY <1>1, <1>2, <1>4, MainAssumption DEF VThreadStart, ThreadStart, BirthInv
  <1>5. CASE VRealJoin(t)
    <2>1. /\ pc[t] = "joining" /\ arg[t] \in Thread /\ pc[arg[t]] = "exited"
          /\ pc' = [pc EXCEPT ![t] = "joined", ![arg[t]] = "reaped"]
          /\ UNCHANGED <<arg, parent, trace>> /\ hb' = [hb EXCEPT ![t] = Join(@, hb[arg[t]])]
      BY <1>5 DEF VRealJoin, RealJoin, Learn, CallInv
    <2>2. \A u \in Thread \ {t} : hb'[u] = hb[u]
      BY <1>2, <2>1
    <2>3. \A u \in Thread : pc'[u] = IF u = t THEN "joined" ELSE IF u = arg[t] THEN "reaped" ELSE pc[u]
      BY <1>1, <2>1
    <2>4. pc'[Main] # "unborn"
      BY <2>3, MainAssumption DEF BirthInv
    <2>5. ASSUME NEW u \in Thread
          PROVE  /\ pc'[u] = "starting" /\ u # Main => pc'[parent[u]] \notin {"unborn", "starting"}
                 /\ pc'[u] = "joined" => pc'[arg[u]] = "reaped"
                 /\ pc'[u] \in {"unborn", "starting"} => trace[u] = << >>
                 /\ pc'[u] = "unborn" \/ (pc'[u] = "starting" /\ u = Main) => hb'[u] = Zero
      <3>1. parent[u] \in Thread /\ (pc[u] = "joined" => arg[u] \in Thread)
        BY <1>2 DEF CallInv
      <3>2. pc[t] = "joining" /\ pc[arg[t]] = "exited" /\ UNCHANGED <<arg, parent, trace>>
        BY <2>1
      <3>3. pc'[u] = "starting" \/ pc'[u] = "unborn" => pc'[u] = pc[u] /\ hb'[u] = hb[u]
        BY <2>2, <2>3, <3>2
      <3>4. pc'[u] = "joined" /\ u # t => pc[u] = "joined"
        BY <2>3, <3>2
      <3>5. \A w \in Thread : pc'[w] \in {"unborn", "starting"} => pc[w] \in {"unborn", "starting"}
        BY <2>3
      <3>6. pc'[u] = "joined" => pc'[arg[u]] = "reaped"
        <4>1. CASE u = t
          BY <2>1, <2>3, <3>2, <4>1
        <4>2. ASSUME u # t, pc'[u] = "joined" PROVE pc'[arg[u]] = "reaped"
          <5>1. arg[u] \in Thread /\ pc[arg[u]] = "reaped" /\ arg[u] # t
            BY <3>1, <3>2, <3>4, <4>2 DEF BirthInv
          <5> QED BY <2>3, <5>1
        <4> QED BY <4>1, <4>2
      <3>7. pc'[u] = "starting" /\ u # Main => pc'[parent[u]] \notin {"unborn", "starting"}
        BY <3>1, <3>3, <3>5 DEF BirthInv
      <3>8. /\ pc'[u] \in {"unborn", "starting"} => trace[u] = << >>
            /\ pc'[u] = "unborn" \/ (pc'[u] = "starting" /\ u = Main) => hb'[u] = Zero
        BY <3>3 DEF BirthInv
      <3> QED BY <3>6, <3>7, <3>8
    <2> QED BY <2>1, <2>4, <2>5 DEF BirthInv
  <1>6. CASE VAfterPthreadJoin(t)
    BY <1>1, <1>2, <1>6, MainAssumption DEF VAfterPthreadJoin, AfterPthreadJoin, BirthInv
  <1>7. ASSUME UNCHANGED <<parent, hb>>, NEW here \in PC \ {"unborn", "starting", "joined", "reaped"},
               NEW there \in PC \ {"unborn", "starting", "joined", "reaped"},
               pc[t] = here, pc' = [pc EXCEPT ![t] = there],
               \A u \in Thread \ {t} : arg'[u] = arg[u] /\ trace'[u] = trace[u]
        PROVE  BirthInv'
    BY <1>1, <1>2, <1>7, MainAssumption DEF BirthInv
  <1>8. CASE Quiet(t)
    <2>1. UNCHANGED <<parent, hb, trace>>
      BY <1>8 DEF Quiet, ProcessPostMutexLock, ProcessPreMutexUnlock,
         ProcessPostRwlockRdlock, ProcessPostRwlockWrlock, ProcessPreRwlockUnlock, VOther
    <2> QED BY <1>1, <1>7, <1>8, <2>1, QuietCalls
  <1>10. CASE VAccess(t)
    <2>1. /\ UNCHANGED <<arg, parent>>
          /\ \E there \in {"run"} \cup AccessPC : pc' = [pc EXCEPT ![t] = there]
          /\ pc[t] \in {"run"} \cup AccessPC
      BY <1>10, AccessStepFrame
    <2>2. {"run"} \cup AccessPC \subseteq PC \ {"unborn", "starting", "joined", "reaped"}
      BY DEF AccessPC, PC, AvailPC, RegionPC, PpPC
    <2>3. CASE VBeforeMem(t)
      <3>1. /\ pc' = [pc EXCEPT ![t] = "choose"] /\ pc[t] = "run"
            /\ \A u \in Thread \ {t} : hb'[u] = hb[u] /\ trace'[u] = trace[u]
        BY <1>2, <2>3, VisitAdded
      <3> QED BY <1>1, <1>2, <2>1, <3>1, MainAssumption DEF BirthInv
    <2>4. CASE ~VBeforeMem(t)
      <3>1. UNCHANGED <<trace, hb>>
        BY <1>10, <2>4, TraceFrame DEF VAccess
      <3> QED BY <1>7, <2>1, <2>2, <3>1
    <2> QED BY <2>3, <2>4
  <1> QED BY <1>3, <1>4, <1>5, <1>6, <1>8, <1>10 DEF VStep, VSync, Quiet
\* A thread learns what its creator, or the thread it joins, knows.
LEMMA LearnBound ==
  ASSUME VTypeOK, NEW t \in Thread, NEW v \in Thread, Learn(t, hb[v])
  PROVE  /\ \A w \in Thread \ {t} : hb'[w] = hb[w]
         /\ \A u \in Thread : hb'[t][u] = hb[t][u] \/ hb'[t][u] = hb[v][u]
         /\ \A u \in Thread : hb'[t][u] >= hb[t][u]
  <1>1. hb \in [Thread -> Clock]
    BY DEF VTypeOK
  <1>2. hb' = [hb EXCEPT ![t] = Join(hb[t], hb[v])]
    BY DEF Learn
  <1>3. \A u \in Thread : hb'[t][u] = IF hb[t][u] < hb[v][u] THEN hb[v][u] ELSE hb[t][u]
    BY <1>1, <1>2 DEF Join
  <1>4. \A u \in Thread : hb[t][u] \in Nat /\ hb[v][u] \in Nat
    BY <1>1 DEF Clock
  <1> QED BY <1>1, <1>2, <1>3, <1>4

\* What is known of a thread's accesses stays behind the access it is in.
LEMMA KnownInvStep ==
  ASSUME IInv, VTypeOK, BirthInv, KnownInv, NEW t \in Thread, VStep(t)
  PROVE  KnownInv'
  <1>0. TypeOK /\ CallInv
    BY DEF IInv
  <1> USE <1>0
  <1>1. pc \in [Thread -> PC]
    BY DEF TypeOK
  <1>2. hb \in [Thread -> Clock] /\ trace \in [Thread -> Seq(Visit)]
    BY DEF VTypeOK
  <1>3. \A w, u \in Thread : hb[w][u] \in Nat
    BY <1>2 DEF Clock
  <1>4. ASSUME UNCHANGED <<hb, trace>>, \A u \in Thread : pc'[u] \in AccessPC => pc[u] \in AccessPC
        PROVE  KnownInv'
    BY <1>4 DEF KnownInv
  <1>5. ASSUME NEW c \in Thread, NEW v \in Thread, Learn(c, hb[v]), UNCHANGED trace,
               pc[c] \notin AccessPC, pc[v] \notin AccessPC,
               \A u \in Thread : pc'[u] \in AccessPC => pc[u] \in AccessPC
        PROVE  KnownInv'
    <2>1. /\ \A w \in Thread \ {c} : hb'[w] = hb[w]
          /\ \A u \in Thread : hb'[c][u] = hb[c][u] \/ hb'[c][u] = hb[v][u]
          /\ \A u \in Thread : hb'[c][u] >= hb[c][u]
      BY <1>5, LearnBound
    <2>2. \A w, u \in Thread : hb[w][u] <= Len(trace[u])
      BY <1>2, <1>3 DEF KnownInv
    <2>3. hb'[c][c] = Len(trace[c])
      BY SMTT(20), <1>2, <1>3, <2>1, <2>2 DEF KnownInv
    <2>4. ASSUME NEW u \in Thread, NEW w \in Thread \ {u}
          PROVE  hb'[w][u] <= Len(trace[u]) /\ (pc'[u] \in AccessPC => hb'[w][u] < Len(trace[u]))
      <3>1. CASE w # c
        BY <1>5, <2>1, <3>1 DEF KnownInv
      <3>2. CASE w = c
        <4>1. hb'[w][u] <= Len(trace[u])
          BY <2>1, <2>2, <3>2
        <4>2. ASSUME pc'[u] \in AccessPC PROVE hb'[w][u] < Len(trace[u])
          <5>1. u # v /\ u # c /\ pc[u] \in AccessPC
            BY <1>5, <4>2
          <5> QED BY <2>1, <3>2, <5>1 DEF KnownInv
        <4> QED BY <4>1, <4>2
      <3> QED BY <3>1, <3>2
    <2>5. \A u \in Thread : hb'[u][u] = Len(trace[u])
      BY <2>1, <2>3 DEF KnownInv
    <2> QED BY <1>5, <2>4, <2>5 DEF KnownInv
  <1>6. CASE VSync(t) \/ VOther(t)
    <2>1. trace' = trace /\ \A u \in Thread : pc'[u] \in AccessPC => pc[u] \in AccessPC
      BY <1>6, SyncFrame
    <2>2. CASE \E c \in Thread : VCreate(t, c)
      <3>1. PICK c \in Thread : VCreate(t, c)
        BY <2>2
      <3>2. Learn(c, hb[t]) /\ pc[c] = "unborn" /\ pc[t] = "run"
        BY <3>1 DEF VCreate, Create
      <3> QED BY <1>5, <2>1, <3>2 DEF AccessPC, RegionPC, PpPC
    <2>3. CASE VRealJoin(t)
      <3>1. /\ Learn(t, hb[arg[t]]) /\ arg[t] \in Thread
            /\ pc[t] = "joining" /\ pc[arg[t]] = "exited"
        BY <2>3 DEF VRealJoin, RealJoin, CallInv
      <3> QED BY <1>5, <2>1, <3>1 DEF AccessPC, RegionPC, PpPC
    <2>4. CASE hb' = hb
      BY <1>4, <2>1, <2>4
    <2> QED BY <1>6, <2>2, <2>3, <2>4 DEF VSync, VThreadStart, VAfterPthreadJoin,
       ProcessPostMutexLock, ProcessPreMutexUnlock, ProcessPostRwlockRdlock,
       ProcessPostRwlockWrlock, ProcessPreRwlockUnlock, VOther
  <1>7. CASE VBeforeMem(t)
    <2> DEFINE v == [inst |-> at'[t][1], unit |-> at'[t][2], wr |-> HeldWrite(t), rd |-> HeldRead(t)]
    <2>1. /\ trace' = [trace EXCEPT ![t] = Append(@, v)] /\ at'[t] \in Inst \X Unit
          /\ hb' = [hb EXCEPT ![t][t] = @ + 1] /\ pc' = [pc EXCEPT ![t] = "choose"]
      BY <1>7, VisitAdded
    <2>2. v \in Visit
      BY <2>1, VisitType
    <2>3. Len(trace'[t]) = Len(trace[t]) + 1
      <3> HIDE DEF v
      <3> QED BY <1>2, <2>1, <2>2
    <2>4. \A u \in Thread \ {t} : trace'[u] = trace[u] /\ pc'[u] = pc[u]
      BY <1>1, <1>2, <2>1
    <2>5. \A w, u \in Thread : hb'[w][u] = IF w = t /\ u = t THEN hb[t][t] + 1 ELSE hb[w][u]
      BY <1>2, <2>1 DEF Clock
    <2>6. \A u \in Thread : Len(trace[u]) \in Nat
      BY <1>2
    <2>7. \A u \in Thread : hb'[u][u] = Len(trace'[u])
      BY <2>3, <2>4, <2>5 DEF KnownInv
    <2>8. ASSUME NEW u \in Thread, NEW w \in Thread \ {u}
          PROVE  hb'[w][u] <= Len(trace'[u]) /\ (pc'[u] \in AccessPC => hb'[w][u] < Len(trace'[u]))
      <3>1. hb'[w][u] = hb[w][u] /\ hb[w][u] <= Len(trace[u]) /\ hb[w][u] \in Nat
        BY <1>3, <2>5 DEF KnownInv
      <3>2. CASE u = t
        BY <2>3, <2>6, <3>1, <3>2
      <3>3. CASE u # t
        BY <2>4, <3>1, <3>3 DEF KnownInv
      <3> QED BY <3>2, <3>3
    <2> QED BY <2>7, <2>8 DEF KnownInv
  <1>8. CASE VPass(t) \/ AccessFirst(t) \/ AccessFirstAgain(t) \/ AccessSecondAgain(t) \/ Verify(t)
    <2>1. UNCHANGED <<hb, trace>> /\ pc[t] \in AccessPC
      BY <1>8, TraceFrame
    <2>2. \A u \in Thread \ {t} : pc'[u] = pc[u]
      BY <1>1, <1>8, AccessStepFrame DEF VAccess
    <2> QED BY <1>4, <2>1, <2>2
  <1> QED BY <1>6, <1>7, <1>8 DEF VStep, VAccess
\* Nobody learns of more accesses, and nobody's epoch is heard of less, than in
\* the clocks of the threads it comes from: whoever knows k accesses of u after
\* the step had, or had been told by someone who had, heard of u's epochs.
Heard(w, u, k) ==
  \E v \in Thread :
    /\ k <= hb[v][u]
    /\ IF v = u THEN vc[u][u] <= Known(w)'[u] ELSE Known(v)[u] <= Known(w)'[u]

\* Joining clocks.
LEMMA JoinUpper ==
  ASSUME NEW c \in Clock, NEW d \in Clock, NEW u \in Thread
  PROVE  /\ c[u] \in Nat /\ d[u] \in Nat /\ Join(c, d)[u] \in Nat
         /\ c[u] <= Join(c, d)[u] /\ d[u] <= Join(c, d)[u]
         /\ \A t \in Thread : Increment(c, t)[u] \in Nat /\ c[u] <= Increment(c, t)[u]
         /\ \A k \in Nat : k <= Join(c, d)[u] => k <= c[u] \/ k <= d[u]
  BY DEF Clock, Join, Increment

\* Clocks follow creation and join.
LEMMA SyncHeard ==
  ASSUME IInv, VTypeOK, BirthInv, KnownInv, NEW t \in Thread, VSync(t) \/ VOther(t),
         NEW u \in Thread, NEW w \in Thread \ {u}, NEW k \in Nat \ {0}, k <= hb'[w][u]
  PROVE  Heard(w, u, k)
  <1>0. TypeOK /\ CallInv
    BY DEF IInv
  <1>1. pc \in [Thread -> PC]
    BY <1>0 DEF TypeOK
  <1>2. /\ vc \in [Thread -> Clock] /\ hb \in [Thread -> Clock] /\ parent \in [Thread -> Thread]
        /\ trace \in [Thread -> Seq(Visit)]
    BY DEF VTypeOK
  <1>3. \A v \in Thread : vc[v] \in Clock /\ hb[v] \in Clock /\ Len(trace[v]) \in Nat
    BY <1>2
  <1>4. \A v \in Thread : pc[v] = "joined" => arg[v] \in Thread
    BY <1>0 DEF CallInv
  <1>5. \A v \in Thread : Known(v)[u] \in Nat
    <2> SUFFICES ASSUME NEW v \in Thread PROVE Known(v)[u] \in Nat
      OBVIOUS
    <2>1. CASE pc[v] = "starting"
      BY <1>2, <1>3, <2>1, JoinUpper DEF Known
    <2>2. CASE pc[v] = "joined"
      BY <1>3, <1>4, <2>2, JoinUpper DEF Known
    <2>3. CASE pc[v] \notin {"starting", "joined"}
      BY <1>3, <2>3, JoinUpper DEF Known
    <2> QED BY <2>1, <2>2, <2>3
  <1>6. ASSUME hb'[w][u] = hb[w][u], Known(w)'[u] >= Known(w)[u] PROVE Heard(w, u, k)
    BY <1>5, <1>6 DEF Heard
  <1>10. \A v \in Thread : vc'[v] \in Clock
    BY <1>0, SyncTypes
  <1>11. \A c, c2, d, d2 \in Clock :
           c[u] <= c2[u] /\ d[u] <= d2[u] => Join(c, d)[u] <= Join(c2, d2)[u]
    BY DEF Join, Clock
  <1>7. CASE \E c \in Thread : VCreate(t, c)
    <2>1. PICK c \in Thread : VCreate(t, c)
      BY <1>7
    <2>2. /\ pc[t] = "run" /\ pc[c] = "unborn" /\ pc' = [pc EXCEPT ![c] = "starting"]
          /\ parent' = [parent EXCEPT ![c] = t] /\ UNCHANGED <<arg, vc>>
          /\ Learn(c, hb[t])
      BY <2>1 DEF VCreate, Create
    <2>3. CASE w = c
      <3>1. Known(w)' = vc[t] /\ Known(t) = vc[t]
        BY <1>1, <1>2, <2>2, <2>3 DEF Known
      <3>2. k <= hb[t][u]
        <4>1. hb'[c][u] = hb[c][u] \/ hb'[c][u] = hb[t][u]
          BY <2>2, LearnBound
        <4>2. hb[c][u] = 0
          BY <2>2 DEF BirthInv, Zero
        <4> QED BY <2>3, <4>1, <4>2
      <3>3. vc[t][u] <= vc[t][u]
        BY <1>3, JoinUpper
      <3> QED BY <3>1, <3>2, <3>3 DEF Heard
    <2>4. CASE w # c
      <3>1. hb'[w][u] = hb[w][u]
        BY <2>2, <2>4, LearnBound
      <3>2. Known(w)' = Known(w)
        BY <1>1, <1>2, <2>2, <2>4 DEF Known
      <3> QED BY <1>5, <1>6, <3>1, <3>2
    <2> QED BY <2>3, <2>4
  <1>8. CASE VRealJoin(t)
    <2>1. /\ pc[t] = "joining" /\ arg[t] \in Thread /\ pc[arg[t]] = "exited"
          /\ pc' = [pc EXCEPT ![t] = "joined", ![arg[t]] = "reaped"]
          /\ UNCHANGED <<arg, parent, vc>> /\ Learn(t, hb[arg[t]])
      BY <1>0, <1>8 DEF VRealJoin, RealJoin, CallInv
    <2>2. CASE w = t
      <3>1. Known(w)' = Join(vc[t], vc[arg[t]]) /\ Known(t) = vc[t] /\ Known(arg[t]) = vc[arg[t]]
        BY <1>1, <1>2, <2>1, <2>2 DEF Known
      <3>2. k <= hb[t][u] \/ k <= hb[arg[t]][u]
        BY <2>1, <2>2, LearnBound
      <3>3. vc[t][u] <= Known(w)'[u] /\ vc[arg[t]][u] <= Known(w)'[u]
        BY <1>3, <2>1, <3>1, JoinUpper
      <3> QED BY <2>1, <2>2, <3>1, <3>2, <3>3 DEF Heard
    <2>3. CASE w # t
      <3>1. hb'[w][u] = hb[w][u]
        BY <2>1, <2>3, LearnBound
      <3>2. Known(w)' = Known(w)
        BY <1>1, <1>2, <2>1, <2>3 DEF Known
      <3> QED BY <1>5, <1>6, <3>1, <3>2
    <2> QED BY <2>2, <2>3
  <1>9. CASE VThreadStart(t)
    <2>1. /\ pc[t] = "starting" /\ pc' = [pc EXCEPT ![t] = "run"]
          /\ UNCHANGED <<arg, parent, hb>>
      BY <1>9 DEF VThreadStart, ThreadStart
    <2>2. w # Main \/ pc[w] # "starting"
      BY <1>9 DEF VThreadStart, BirthInv, Zero
    <2> DEFINE p == parent[t]
    <2>3. t # Main => vc' = [vc EXCEPT ![t] = Join(Increment(Zero, t), vc[p]), ![p] = Increment(@, p)]
      BY <1>9 DEF VThreadStart
    <2>4. CASE w = t
      <3>1. p \in Thread /\ p # t /\ Zero \in Clock
        BY <1>2, <2>1, <2>2, <2>4 DEF BirthInv, Zero, Clock
      <3>2. Known(w)' = Join(Increment(Zero, t), vc[p]) /\ Known(w) = vc[p]
        BY <1>1, <1>2, <2>1, <2>2, <2>3, <2>4, <3>1 DEF Known
      <3>3. Increment(Zero, t) \in Clock
        BY <3>1 DEF Increment, Clock
      <3>4. Known(w)'[u] >= Known(w)[u]
        BY <1>3, <3>1, <3>2, <3>3, JoinUpper
      <3> QED BY <1>6, <2>1, <3>4
    <2>5. CASE w # t
      <3>1. \A v \in Thread \ {t} : vc'[v][u] >= vc[v][u]
        <4>1. CASE t = Main
          BY <1>2, <1>3, <1>9, <4>1, JoinUpper DEF VThreadStart
        <4>2. CASE t # Main
          <5> DEFINE c == Join(Increment(Zero, t), vc[p])
                     d == Increment(vc[p], p)
          <5> HIDE DEF c, d, p
          <5>1. vc' = [vc EXCEPT ![t] = c, ![p] = d] /\ p \in Thread
            BY <1>2, <2>3, <4>2 DEF c, d, p
          <5>2. d[u] >= vc[p][u]
            BY <1>3, <5>1, JoinUpper DEF d
          <5>3. \A v \in Thread \ {t} : vc'[v] = IF v = p THEN d ELSE vc[v]
            BY <1>2, <5>1
          <5> QED BY <1>3, <5>2, <5>3, JoinUpper
        <4> QED BY <4>1, <4>2
      <3>2. pc'[w] = pc[w]
        BY <1>1, <2>1, <2>5
      <3>3. CASE pc[w] = "starting"
        <4>1. parent[w] \in Thread \ {t}
          BY <1>2, <2>1, <2>2, <3>3 DEF BirthInv
        <4>2. Known(w) = vc[parent[w]] /\ Known(w)' = vc'[parent[w]]
          BY <2>1, <3>2, <3>3 DEF Known
        <4> QED BY <1>6, <2>1, <3>1, <4>1, <4>2
      <3>4. CASE pc[w] = "joined"
        <4>1. arg[w] \in Thread \ {t}
          BY <1>4, <2>1, <3>4 DEF BirthInv
        <4>2. vc'[w][u] >= vc[w][u] /\ vc'[arg[w]][u] >= vc[arg[w]][u]
          BY <2>5, <3>1, <4>1
        <4>3. Known(w) = Join(vc[w], vc[arg[w]]) /\ Known(w)' = Join(vc'[w], vc'[arg[w]])
          BY <2>1, <3>2, <3>4 DEF Known
        <4>4. vc'[w] \in Clock /\ vc'[arg[w]] \in Clock
          BY <1>10, <4>1
        <4>5. Known(w)'[u] >= Known(w)[u]
          BY <1>3, <1>11, <4>1, <4>2, <4>3, <4>4
        <4> QED BY <1>6, <2>1, <4>5
      <3>5. CASE pc[w] \notin {"starting", "joined"}
        BY <1>6, <2>1, <2>5, <3>1, <3>2, <3>5 DEF Known
      <3> QED BY <3>3, <3>4, <3>5
    <2> QED BY <2>4, <2>5
  <1>12. CASE VAfterPthreadJoin(t)
    <2> DEFINE d == Increment(Join(vc[t], vc[arg[t]]), t)
    <2>1. /\ pc[t] = "joined" /\ pc' = [pc EXCEPT ![t] = "run"] /\ arg[t] \in Thread
          /\ arg' = [arg EXCEPT ![t] = NoArg] /\ UNCHANGED <<parent, hb>>
          /\ vc' = [vc EXCEPT ![t] = d]
      BY <1>4, <1>12 DEF VAfterPthreadJoin, AfterPthreadJoin
    <2>2. Join(vc[t], vc[arg[t]]) \in Clock
      BY <1>3, <2>1 DEF Join, Clock
    <2>3. d[u] >= Join(vc[t], vc[arg[t]])[u] /\ d[u] >= vc[t][u]
      BY <1>3, <2>1, <2>2, JoinUpper
    <2> HIDE DEF d
    <2>4. \A v \in Thread : vc'[v][u] >= vc[v][u]
      BY <1>2, <1>3, <2>1, <2>3, JoinUpper
    <2>5. CASE w = t
      <3>1. Known(w) = Join(vc[t], vc[arg[t]]) /\ Known(w)' = d
        BY <1>1, <1>2, <2>1, <2>5 DEF Known
      <3> QED BY <1>6, <2>1, <2>3, <3>1
    <2>6. CASE w # t
      <3>1. pc'[w] = pc[w] /\ (pc[w] = "joined" => arg'[w] = arg[w])
        BY <1>0, <1>1, <2>1, <2>6 DEF TypeOK
      <3>2. CASE pc[w] = "starting"
        <4>1. Known(w) = vc[parent[w]] /\ Known(w)' = vc'[parent[w]]
          BY <2>1, <3>1, <3>2 DEF Known
        <4> QED BY <1>2, <1>6, <2>1, <2>4, <4>1
      <3>3. CASE pc[w] = "joined"
        <4>1. Known(w) = Join(vc[w], vc[arg[w]]) /\ Known(w)' = Join(vc'[w], vc'[arg[w]])
          BY <3>1, <3>3 DEF Known
        <4>2. Known(w)'[u] >= Known(w)[u]
          BY <1>3, <1>4, <1>10, <1>11, <2>4, <3>3, <4>1
        <4> QED BY <1>6, <2>1, <4>2
      <3>4. CASE pc[w] \notin {"starting", "joined"}
        BY <1>6, <2>1, <2>4, <3>1, <3>4 DEF Known
      <3> QED BY <3>2, <3>3, <3>4
    <2> QED BY <2>5, <2>6
  <1>13. CASE Quiet(t)
    <2>1. UNCHANGED <<vc, hb, parent>>
      BY <1>13 DEF Quiet, ProcessPostMutexLock, ProcessPreMutexUnlock, ProcessPostRwlockRdlock,
         ProcessPostRwlockWrlock, ProcessPreRwlockUnlock, VOther
    <2>2. \A v \in Thread :
            /\ pc'[v] = "starting" <=> pc[v] = "starting"
            /\ pc'[v] = "joined" <=> pc[v] = "joined"
            /\ pc[v] = "joined" => arg'[v] = arg[v]
      BY <1>0, <1>1, <1>13, QuietCalls
    <2>3. Known(w)' = Known(w)
      BY <2>1, <2>2 DEF Known
    <2> QED BY <1>5, <1>6, <2>1, <2>3
  <1> QED BY <1>7, <1>8, <1>9, <1>12, <1>13 DEF VSync, Quiet
\* What is known is a number, ...
LEMMA KnownType ==
  ASSUME VTypeOK, CallInv, NEW v \in Thread, NEW u \in Thread
  PROVE  Known(v)[u] \in Nat
  <1>1. \A w \in Thread : vc[w] \in Clock /\ parent[w] \in Thread
    BY DEF VTypeOK
  <1>2. pc[v] = "joined" => arg[v] \in Thread
    BY DEF CallInv
  <1> QED BY <1>1, <1>2, JoinUpper DEF Known

\* ... and stays one.
LEMMA KnownTypeNext ==
  ASSUME VTypeOK', CallInv', NEW v \in Thread, NEW u \in Thread
  PROVE  Known(v)'[u] \in Nat
  <1>1. \A w \in Thread : vc'[w] \in Clock /\ parent'[w] \in Thread
    BY DEF VTypeOK
  <1>2. pc'[v] = "joined" => arg'[v] \in Thread
    BY DEF CallInv
  <1>3. CASE pc'[v] = "starting"
    BY <1>1, <1>3, JoinUpper DEF Known
  <1>4. CASE pc'[v] = "joined"
    BY <1>1, <1>2, <1>4, JoinUpper DEF Known
  <1>5. CASE pc'[v] \notin {"starting", "joined"}
    BY <1>1, <1>5, JoinUpper DEF Known
  <1> QED BY <1>3, <1>4, <1>5

\* A thread's own clock does not go back once it has done something.
LEMMA OwnClock ==
  ASSUME IInv, VTypeOK, BirthInv, NEW t \in Thread, VStep(t), NEW u \in Thread, trace[u] # << >>
  PROVE  vc'[u][u] >= vc[u][u]
  <1>0. TypeOK /\ CallInv
    BY DEF IInv
  <1>1. vc \in [Thread -> Clock] /\ parent \in [Thread -> Thread]
    BY DEF VTypeOK
  <1>2. \A v \in Thread : vc[v] \in Clock
    BY <1>1
  <1>3. CASE vc' = vc
    BY <1>2, <1>3, JoinUpper
  <1>4. CASE VThreadStart(t)
    <2> DEFINE p == parent[t]
               c == Join(Increment(Zero, t), vc[p])
               d == Increment(vc[p], p)
    <2>1. u # t
      BY <1>4 DEF VThreadStart, ThreadStart, BirthInv
    <2>2. CASE t = Main
      BY <1>1, <1>2, <1>4, <2>1, <2>2, JoinUpper DEF VThreadStart
    <2>3. CASE t # Main
      <3>1. vc' = [vc EXCEPT ![t] = c, ![p] = d] /\ p \in Thread
        BY <1>1, <1>4, <2>3 DEF VThreadStart
      <3>2. d[u] >= vc[p][u]
        BY <1>2, <3>1, JoinUpper
      <3> HIDE DEF c, d, p
      <3>3. vc'[u] = IF u = p THEN d ELSE vc[u]
        BY <1>1, <2>1, <3>1
      <3> QED BY <1>2, <3>2, <3>3, JoinUpper
    <2> QED BY <2>2, <2>3
  <1>5. CASE VAfterPthreadJoin(t)
    <2> DEFINE d == Increment(Join(vc[t], vc[arg[t]]), t)
    <2>1. arg[t] \in Thread /\ vc' = [vc EXCEPT ![t] = d]
      BY <1>0, <1>5 DEF VAfterPthreadJoin, AfterPthreadJoin, CallInv
    <2>2. Join(vc[t], vc[arg[t]]) \in Clock
      BY <1>2, <2>1 DEF Join, Clock
    <2> DEFINE c == Join(vc[t], vc[arg[t]])
    <2>4. vc[t][u] \in Nat /\ c[u] \in Nat /\ vc[t][u] <= c[u]
      BY <1>2, <2>1, JoinUpper
    <2>5. d[u] \in Nat /\ c[u] <= d[u]
      BY <2>2, JoinUpper
    <2>3. d[u] >= vc[t][u]
      <3> HIDE DEF c, d
      <3> QED BY <2>4, <2>5
    <2> HIDE DEF d
    <2> QED BY <1>1, <1>2, <2>1, <2>3, JoinUpper
  <1>6. vc' = vc \/ VThreadStart(t) \/ VAfterPthreadJoin(t)
    <2>1. CASE VSync(t) \/ VOther(t)
      BY <2>1 DEF VSync, VCreate, VRealJoin, ProcessPostMutexLock,
         ProcessPreMutexUnlock, ProcessPostRwlockRdlock, ProcessPostRwlockWrlock,
         ProcessPreRwlockUnlock, VOther
    <2>2. CASE VAccess(t)
      BY <1>0, <2>2, AccessStepFrame
    <2> QED BY <2>1, <2>2 DEF VStep
  <1> QED BY <1>3, <1>4, <1>5, <1>6

\* Within an access nobody learns of another.
LEMMA AccessHeard ==
  ASSUME IInv, VTypeOK, NEW t \in Thread, VAccess(t),
         NEW u \in Thread, NEW w \in Thread \ {u}
  PROVE  hb'[w][u] = hb[w][u] /\ Known(w)' = Known(w)
  <1>0. TypeOK /\ pc \in [Thread -> PC]
    BY DEF IInv, TypeOK
  <1>1. UNCHANGED <<arg, vc, parent>>
    BY <1>0, AccessStepFrame
  <1>2. \/ pc'[w] = pc[w]
        \/ pc'[w] \notin {"starting", "joined"} /\ pc[w] \notin {"starting", "joined"}
    BY <1>0, AccessStepFrame DEF AccessPC, RegionPC, PpPC
  <1>3. Known(w)' = Known(w)
    BY <1>1, <1>2 DEF Known
  <1>4. CASE VBeforeMem(t)
    <2>0. hb \in [Thread -> Clock]
      BY DEF VTypeOK
    <2>1. hb' = [hb EXCEPT ![t][t] = @ + 1]
      BY <1>4, VisitAdded
    <2> QED BY <1>3, <2>0, <2>1 DEF Clock
  <1>5. CASE ~VBeforeMem(t)
    BY <1>3, <1>5, TraceFrame DEF VAccess
  <1> QED BY <1>4, <1>5

\* A snapshot stays one of the access it was made of.
LEMMA SnapshotKept ==
  ASSUME VTypeOK, VTypeOK', CallInv, CallInv', NEW x \in Unit, NEW u \in Thread,
         NEW s \in Snapshot, NEW k \in 1..Len(trace[u]), MadeOf(s, x, u, k),
         Len(trace'[u]) >= Len(trace[u]), trace'[u][k] = trace[u][k], vc'[u][u] >= vc[u][u],
         \A w \in Thread \ {u} : k <= hb'[w][u] => Heard(w, u, k)
  PROVE  k \in 1..Len(trace'[u]) /\ MadeOf(s, x, u, k)'
  <1>1. /\ trace[u] \in Seq(Visit) /\ trace'[u] \in Seq(Visit)
        /\ vc[u] \in Clock /\ vc'[u] \in Clock /\ s.clk \in Nat
    BY DEF VTypeOK, Snapshot
  <1>2. k \in 1..Len(trace'[u])
    BY <1>1
  <1>3. vc[u][u] \in Nat /\ vc'[u][u] \in Nat
    BY <1>1, JoinUpper
  <1>4. ASSUME NEW w \in Thread \ {u}, k <= hb'[w][u]
        PROVE  s.clk <= Known(w)'[u]
    <2>1. PICK v \in Thread :
            /\ k <= hb[v][u]
            /\ IF v = u THEN vc[u][u] <= Known(w)'[u] ELSE Known(v)[u] <= Known(w)'[u]
      BY <1>4 DEF Heard
    <2>2. Known(w)'[u] \in Nat /\ Known(v)[u] \in Nat
      BY KnownType, KnownTypeNext
    <2>3. CASE v = u
      BY <1>1, <1>3, <2>1, <2>2, <2>3 DEF MadeOf
    <2>4. CASE v # u
      <3>1. s.clk <= Known(v)[u]
        BY <2>1, <2>4 DEF MadeOf
      <3> QED BY <1>1, <2>1, <2>2, <2>4, <3>1
    <2> QED BY <2>3, <2>4
  <1>5. s.clk <= vc'[u][u]
    BY <1>1, <1>3 DEF MadeOf
  <1> QED BY <1>2, <1>4, <1>5 DEF MadeOf

\* Snapshots stay of accesses, and each new one is of the access its thread is in.
LEMMA SnapInvStep ==
  ASSUME IInv, IInv', VTypeOK, VTypeOK', LockIInv, AccessInv, BirthInv, KnownInv, SnapInv,
         NEW t \in Thread, VStep(t)
  PROVE  SnapInv'
  <1>0. TypeOK /\ CallInv /\ CallInv' /\ pc \in [Thread -> PC]
    BY DEF IInv, TypeOK
  <1>1. /\ trace \in [Thread -> Seq(Visit)] /\ snaps \in [Unit -> [Thread -> Seq(Snapshot)]]
        /\ at \in [Thread -> Inst \X Unit] /\ hb \in [Thread -> Clock]
    BY DEF VTypeOK
  <1>2. ASSUME NEW u \in Thread, NEW k \in 1..Len(trace[u])
        PROVE  Len(trace'[u]) >= Len(trace[u]) /\ trace'[u][k] = trace[u][k]
    <2>0. trace[u] \in Seq(Visit) /\ Len(trace[u]) \in Nat
      BY <1>1
    <2>1. CASE trace' = trace
      BY <2>0, <2>1
    <2>2. CASE VBeforeMem(t)
      <3> DEFINE v == [inst |-> at'[t][1], unit |-> at'[t][2], wr |-> HeldWrite(t), rd |-> HeldRead(t)]
      <3>1. trace' = [trace EXCEPT ![t] = Append(@, v)] /\ v \in Visit
        BY <2>2, VisitAdded, VisitType
      <3> HIDE DEF v
      <3> QED BY <1>1, <2>0, <3>1
    <2>3. trace' = trace \/ VBeforeMem(t)
      BY <1>0, SyncFrame, TraceFrame DEF VStep, VAccess
    <2> QED BY <2>1, <2>2, <2>3
  <1>3. ASSUME NEW u \in Thread, NEW k \in 1..Len(trace[u]), NEW w \in Thread \ {u}, k <= hb'[w][u]
        PROVE  Heard(w, u, k)
    <2>1. k \in Nat \ {0}
      BY <1>1
    <2>2. CASE VSync(t) \/ VOther(t)
      BY <1>3, <2>1, <2>2, SyncHeard
    <2>3. CASE VAccess(t)
      <3>1. hb'[w][u] = hb[w][u] /\ Known(w)' = Known(w) /\ Known(w)[u] \in Nat
        BY <1>0, <2>3, AccessHeard, KnownType
      <3> QED BY <1>3, <3>1 DEF Heard
    <2> QED BY <2>2, <2>3 DEF VStep
  <1>4. ASSUME NEW x \in Unit, NEW u \in Thread, NEW j \in 1..Len(snaps[x][u]),
               NEW s \in Snapshot, s = snaps[x][u][j]
        PROVE  \E k \in 1..Len(trace'[u]) : MadeOf(s, x, u, k)'
    <2>1. PICK k \in 1..Len(trace[u]) : MadeOf(s, x, u, k)
      BY <1>4 DEF SnapInv
    <2>2. vc'[u][u] >= vc[u][u]
      BY <1>1, <2>1, OwnClock
    <2>3. Len(trace'[u]) >= Len(trace[u]) /\ trace'[u][k] = trace[u][k]
      BY <1>2
    <2>4. \A w \in Thread \ {u} : k <= hb'[w][u] => Heard(w, u, k)
      BY <1>3
    <2>5. k \in 1..Len(trace'[u]) /\ MadeOf(s, x, u, k)'
      BY <1>0, <2>1, <2>2, <2>3, <2>4, SnapshotKept
    <2> QED BY <2>5
  <1>5. ASSUME NEW x \in Unit, NEW u \in Thread, NEW j \in 1..Len(snaps'[x][u]),
               NEW s \in Snapshot, s = snaps'[x][u][j], AddMetaSnapshot(t), VAccess(t),
               pc[t] = "region", UNCHANGED <<trace, vc, at>>, x = Where(t), u = t
        PROVE  \E k \in 1..Len(trace'[u]) : MadeOf(s, x, u, k)'
    <2>1. PICK seq \in Seq(Snapshot) :
            /\ snaps' = [snaps EXCEPT ![Where(t)][t] = Append(seq, Taken(t))]
            /\ \A i \in 1..Len(seq) : \E k \in 1..Len(snaps[Where(t)][t]) :
                 seq[i] = snaps[Where(t)][t][k]
      BY <1>5, SnapshotAdded
    <2> DEFINE new == Taken(t)
    <2>2. new \in Snapshot
      BY <1>5, SnapshotAdded
    <2> HIDE DEF new
    <2>3. snaps'[x][u] = Append(seq, new)
      BY <1>1, <1>5, <2>1 DEF new
    <2>4. CASE j \in 1..Len(seq)
      <3>1. s = seq[j]
        BY <1>5, <2>2, <2>3, <2>4
      <3>2. \E i \in 1..Len(snaps[x][u]) : s = snaps[x][u][i]
        BY <1>5, <2>1, <2>4, <3>1
      <3> QED BY <1>4, <3>2
    <2>5. CASE j \notin 1..Len(seq)
      <3>1. s = new
        BY <1>5, <2>2, <2>3, <2>5
      <3> DEFINE k == Len(trace[t])
      <3>2. /\ k > 0 /\ trace[t][k] = [inst |-> at[t][1], unit |-> Where(t),
                                       wr |-> HeldWrite(t), rd |-> HeldRead(t)]
        BY <1>5 DEF AccessInv, AccessPC, RegionPC
      <3>3. k \in 1..Len(trace[t])
        BY <1>1, <3>2
      <3>4. ls[t] = HeldWrite(t) /\ rdls[t] = HeldRead(t)
        BY <1>5 DEF LockIInv, HeldWrite, HeldRead
      <3>5. trace[t][k] = [inst |-> s.inst, unit |-> x, wr |-> s.wr, rd |-> s.rd]
        BY <1>5, <3>1, <3>2, <3>4 DEF new, Taken
      <3>6. s.clk = vc[t][t] /\ vc[t][t] \in Nat
        BY <2>2, <3>1 DEF new, Taken, Snapshot
      <3>7. ASSUME NEW w \in Thread \ {t}, k <= hb'[w][t] PROVE FALSE
        <4>1. hb'[w][t] = hb[w][t] /\ hb[w][t] < k
          BY <1>5, AccessHeard DEF KnownInv, AccessPC, RegionPC
        <4>2. hb[w][t] \in Nat /\ k \in Nat
          BY <1>1 DEF Clock
        <4> QED BY <3>7, <4>1, <4>2
      <3>8. MadeOf(s, x, u, k)'
        BY <1>5, <3>5, <3>6, <3>7 DEF MadeOf
      <3> QED BY <1>5, <3>3, <3>8
    <2> QED BY <2>4, <2>5
  <1>6. ASSUME NEW x \in Unit, NEW u \in Thread, NEW j \in 1..Len(snaps'[x][u]),
               NEW s \in Snapshot, s = snaps'[x][u][j]
        PROVE  \E k \in 1..Len(trace'[u]) : MadeOf(s, x, u, k)'
    <2>1. CASE snaps'[x][u] = snaps[x][u]
      BY <1>4, <1>6, <2>1
    <2>2. CASE snaps'[x][u] # snaps[x][u]
      <3>1. AccessFirst(t) \/ Verify(t)
        BY <1>0, <2>2, SyncFrame DEF VStep, VAccess, VBeforeMem, VPass, AccessFirstAgain,
           RecordFirst, AccessSecondAgain
      <3>2. /\ AddMetaSnapshot(t) /\ VAccess(t) /\ pc[t] = "region"
        BY <3>1 DEF AccessFirst, Verify, RecordAndPostpone, VAccess
      <3>3. UNCHANGED <<trace, vc, at>>
        BY <3>1, TraceFrame
      <3>4. x = Where(t) /\ u = t
        BY <1>1, <2>2, <3>2 DEF AddMetaSnapshot
      <3> QED BY <1>5, <1>6, <3>2, <3>3, <3>4
    <2> QED BY <2>1, <2>2
  <1>7. snaps' \in [Unit -> [Thread -> Seq(Snapshot)]]
    BY DEF VTypeOK
  <1>8. ASSUME NEW x \in Unit, NEW u \in Thread, NEW j \in 1..Len(snaps'[x][u])
        PROVE  \E k \in 1..Len(trace'[u]) : MadeOf(snaps[x][u][j], x, u, k)'
    <2>1. snaps'[x][u][j] \in Snapshot
      BY <1>7
    <2>2. PICK s \in Snapshot : s = snaps'[x][u][j]
      BY <2>1
    <2>3. PICK k \in 1..Len(trace'[u]) : MadeOf(s, x, u, k)'
      BY <1>6, <2>2
    <2> QED BY <2>2, <2>3 DEF MadeOf
  <1> QED BY <1>8 DEF SnapInv
\* Initially nobody has done anything.
LEMMA InitVIInv == VInit => VIInv
  <1> SUFFICES ASSUME VInit PROVE VIInv
    OBVIOUS
  <1>1. IInv
    BY InitIInv DEF VInit
  <1>2. \A t \in Thread : pc[t] \in {"unborn", "starting"} /\ pc[Main] = "starting"
    BY MainAssumption DEF VInit, Init
  <1>3. Zero \in Clock
    BY DEF Zero, Clock
  <1>4. at \in [Thread -> Inst \X Unit]
    <2>0. PICK i \in Inst, x \in Unit : TRUE
      BY SomeAssumption
    <2>1. \E p : p \in Inst \X Unit
      <3>1. <<i, x>> \in Inst \X Unit
        OBVIOUS
      <3> QED BY <3>1
    <2>2. (CHOOSE p \in Inst \X Unit : TRUE) \in Inst \X Unit
      BY <2>1
    <2> QED BY <2>2 DEF VInit
  <1>5. VTypeOK
    <2>1. \A x \in Unit, t \in Thread : Len(snaps[x][t]) <= SnapLen
      BY SnapAssumption DEF VInit
    <2>2. /\ pairs \subseteq PotentialPairs /\ accessed \subseteq PStmt
          /\ stmtMetas \in [PStmt -> SUBSET Unit]
          /\ \A s \in PStmt \ accessed : stmtMetas[s] = {}
          /\ ppUnits \in [Thread -> SUBSET Unit] /\ hist \in [Thread -> SUBSET Unit]
          /\ ppmetas = {t \in Thread : ppUnits[t] # {}}
      BY DEF VInit, Init
    <2>3. snaps \in [Unit -> [Thread -> Seq(Snapshot)]]
      BY DEF VInit
    <2>6. raced \in [Unit -> SUBSET {{i, j} : i, j \in Inst}]
      <3> DEFINE P == {{i, j} : i, j \in Inst}
      <3> HIDE DEF P
      <3>1. raced \in [Unit -> SUBSET P]
        BY DEF VInit
      <3> QED BY <3>1 DEF P
    <2>4. /\ vc \in [Thread -> Clock] /\ parent \in [Thread -> Thread] /\ hb \in [Thread -> Clock]
          /\ ls \in [Thread -> SUBSET Lock] /\ rdls \in [Thread -> SUBSET {Rwlock}]
          /\ usedFreed \in BOOLEAN
      BY <1>3 DEF VInit
    <2>5. trace \in [Thread -> Seq(Visit)]
      BY DEF VInit
    <2> QED BY <1>4, <2>1, <2>2, <2>3, <2>4, <2>5, <2>6 DEF VTypeOK
  <1>6. LockIInv
    BY <1>2, NullAssumption DEF VInit, Init, LockIInv
  <1>7. AccessInv /\ FoundInv /\ UnitsInv
    BY <1>2 DEF AccessInv, FoundInv, UnitsInv, AccessPC, RegionPC, PpPC, Recorded, VInit
  <1>8. SnapsKept
    BY DEF SnapsKept, VInit
  <1>9. DatabaseInv
    BY DEF DatabaseInv, VInit
  <1>10. BirthInv
    BY <1>2, MainAssumption DEF BirthInv, VInit, Init
  <1>11. KnownInv
    <2>1. \A t, u \in Thread : hb[t][u] = 0 /\ trace[u] = << >>
      BY DEF VInit, Zero
    <2>2. \A t \in Thread : pc[t] \notin AccessPC
      BY <1>2 DEF AccessPC, RegionPC, PpPC
    <2>3. Len(<< >>) = 0
      OBVIOUS
    <2> QED BY <2>1, <2>2, <2>3 DEF KnownInv
  <1>12. SnapInv
    BY DEF SnapInv, VInit
  <1> QED BY <1>5, <1>6, <1>7, <1>8, <1>9, <1>10, <1>11, <1>12 DEF VIInv

\* The invariant, together with that of the scheduler, is inductive.
LEMMA NextVIInv == IInv /\ IInv' /\ VIInv /\ [VNext]_allVars => VIInv'
  <1> SUFFICES ASSUME IInv, IInv', VIInv, [VNext]_allVars PROVE VIInv'
    OBVIOUS
  <1>1. CASE UNCHANGED allVars
    <2>1. VTypeOK'
      BY <1>1 DEF VIInv, allVars, vars, VTypeOK
    <2>2. LockIInv'
      BY <1>1 DEF VIInv, allVars, vars, LockIInv
    <2>3. AccessInv'
      BY <1>1 DEF VIInv, allVars, vars, AccessInv, Where, HeldWrite, HeldRead
    <2>4. FoundInv'
      BY <1>1 DEF VIInv, allVars, vars, FoundInv, Latest, Where, Stmt
    <2>5. UnitsInv' /\ SnapsKept' /\ DatabaseInv'
      BY <1>1 DEF VIInv, allVars, vars, UnitsInv, SnapsKept, DatabaseInv, Where
    <2>6. BirthInv' /\ KnownInv'
      BY <1>1 DEF VIInv, allVars, vars, BirthInv, KnownInv
    <2>7. SnapInv'
      BY <1>1 DEF VIInv, allVars, vars, SnapInv, MadeOf, Known
    <2> QED BY <2>1, <2>2, <2>3, <2>4, <2>5, <2>6, <2>7 DEF VIInv
  <1>2. CASE VNext
    <2>1. PICK t \in Thread : VStep(t)
      BY <1>2 DEF VNext, VStep
    <2>2. /\ VTypeOK /\ LockIInv /\ AccessInv /\ FoundInv /\ UnitsInv /\ SnapsKept
          /\ DatabaseInv /\ BirthInv /\ KnownInv /\ SnapInv
      BY DEF VIInv
    <2>3. VTypeOK'
      BY <2>1, <2>2, VTypeOKStep
    <2>4. LockIInv' /\ AccessInv' /\ FoundInv' /\ UnitsInv'
      BY <2>1, <2>2, LockIInvStep, AccessInvStep, FoundInvStep, UnitsInvStep
    <2>5. SnapsKept' /\ DatabaseInv' /\ BirthInv' /\ KnownInv'
      BY <2>1, <2>2, SnapsKeptStep, DatabaseStep, BirthInvStep, KnownInvStep
    <2>6. SnapInv'
      BY <2>1, <2>2, <2>3, SnapInvStep
    <2> QED BY <2>3, <2>4, <2>5, <2>6 DEF VIInv
  <1> QED BY <1>1, <1>2

\* And so is the scheduler's, under the steps of the verification.
LEMMA NextSched == IInv /\ VTypeOK /\ [VNext]_allVars => [Next]_vars
  <1> SUFFICES ASSUME IInv, VTypeOK, VNext PROVE Next
    BY DEF allVars
  <1>1. PICK t \in Thread : VStep(t) /\ ~crashed
    BY DEF VNext, VStep
  <1>2. Step(t)
    BY <1>1, StepRefines DEF IInv
  <1> QED BY <1>1, <1>2 DEF Next

\* Both invariants hold in every state of a verification.
THEOREM Verifying == VSpec => [](IInv /\ VIInv)
  <1>1. VInit => IInv /\ VIInv
    BY InitVIInv, InitIInv DEF VInit
  <1>2. IInv /\ VIInv /\ [VNext]_allVars => (IInv /\ VIInv)'
    BY NextSched, NextIInv, NextVIInv DEF VIInv
  <1> QED BY <1>1, <1>2, PTL DEF VSpec

\* Whatever the database, the snapshots, the clocks and the locksets say, the
\* threads move only as the scheduler may move them.
THEOREM Implements == VSpec => ImplementsScheduler
  <1>1. VInit => Init
    BY DEF VInit
  <1>2. IInv /\ VIInv /\ [VNext]_allVars => [Next]_vars
    BY NextSched DEF VIInv
  <1> QED BY <1>1, <1>2, Verifying, PTL DEF VSpec, ImplementsScheduler, Spec

\* Between two calls, the locksets of a thread are the locks it holds.
THEOREM LockSetsCorrect == VSpec => []LockSetSound
  <1>1. VIInv => LockSetSound
    BY DEF VIInv, LockIInv, LockSetSound, RegionPC, PpPC
  <1> QED BY <1>1, Verifying, PTL

\* The database forgets the pairs of what is reported and no others.
THEOREM DatabaseCorrect == VSpec => []DatabaseInv
  <1>1. VIInv => DatabaseInv
    BY DEF VIInv
  <1> QED BY <1>1, Verifying, PTL

\* A thread that is postponed at a statement with pairs left can be found by the
\* other half of the pair.
THEOREM WaitingCorrect == VSpec => []WaitingFindable
  <1>1. VIInv => WaitingFindable
    BY DEF VIInv, FoundInv, WaitingFindable, Recorded
  <1> QED BY <1>1, Verifying, PTL
-----------------------------------------------------------------------------
(* Every report is a race.                                                  *)

\* What makes of p, reported for unit x, a race of t with another thread.
IsRaceOf(x, p, t) ==
  \E u \in Thread \ {t} : \E k \in 1..Len(trace[u]) :
    LET a == trace[u][k]   b == trace[t][Len(trace[t])] IN
    /\ k > hb[t][u]
    /\ a.unit = x /\ b.unit = x /\ p = {a.inst, b.inst}
    /\ Writes(a.inst) \/ Writes(b.inst)
    /\ Unprotected(a, b)

\* Two threads hold no lock between them that would keep their accesses apart.
LEMMA NoCommonLock ==
  ASSUME IInv, LockIInv, NEW t \in Thread, NEW u \in Thread \ {t}
  PROVE  /\ Disjoint(HeldWrite(u), HeldWrite(t)) /\ Disjoint(HeldWrite(u), HeldRead(t))
         /\ Disjoint(HeldRead(u), HeldWrite(t))
  <1>1. realWriter # NoThread => realReaders = {}
    BY DEF LockIInv
  <1>2. HeldWrite(u) \cap HeldWrite(t) = {}
    BY LockAssumption DEF HeldWrite
  <1>3. HeldWrite(u) \cap HeldRead(t) = {} /\ HeldRead(u) \cap HeldWrite(t) = {}
    BY <1>1, LockAssumption, NullAssumption DEF HeldWrite, HeldRead
  <1> QED BY <1>2, <1>3 DEF Disjoint

\* A postponed thread found to race is in the access it is reported for.
LEMMA WaitingRace ==
  ASSUME IInv, VIInv, NEW t \in Thread, pc[t] = "region",
         NEW f, NEW u \in RacingWith(t, f)
  PROVE  IsRaceOf(Where(t), {Latest(Where(t), u).inst, at[t][1]}, t)
  <1> DEFINE x == Where(t)
             a == [inst |-> at[u][1], unit |-> Where(u), wr |-> HeldWrite(u), rd |-> HeldRead(u)]
             b == [inst |-> at[t][1], unit |-> x, wr |-> HeldWrite(t), rd |-> HeldRead(t)]
  <1>1. u \in pp /\ x \in ppUnits[u] /\ (Writes(Latest(x, u).inst) \/ Writes(at[t][1]))
    BY DEF RacingWith, WaitingAt
  <1>2. u \in Thread \ {t} /\ pc[u] \in PpPC
    BY <1>1 DEF IInv, ThreadSets, PpPC
  <1>3. Where(u) = x
    BY <1>1, <1>2 DEF VIInv, UnitsInv
  <1>4. Latest(x, u).inst = at[u][1]
    BY <1>2, <1>3 DEF VIInv, FoundInv, Recorded
  <1>5. /\ Len(trace[u]) > 0 /\ trace[u][Len(trace[u])] = a
        /\ Len(trace[t]) > 0 /\ trace[t][Len(trace[t])] = b
    BY <1>2 DEF VIInv, AccessInv, AccessPC, RegionPC
  <1>6. Len(trace[u]) > hb[t][u]
    BY <1>2 DEF VIInv, KnownInv, AccessPC
  <1>7. Unprotected(a, b)
    <2>1. LockIInv
      BY DEF VIInv
    <2>2. /\ Disjoint(HeldWrite(u), HeldWrite(t)) /\ Disjoint(HeldWrite(u), HeldRead(t))
          /\ Disjoint(HeldRead(u), HeldWrite(t))
      BY <1>2, <2>1, NoCommonLock
    <2> QED BY <2>2 DEF Unprotected, Disjoint
  <1>8. Len(trace[u]) \in 1..Len(trace[u])
    BY <1>2, <1>5 DEF VIInv, VTypeOK
  <1>9. a.inst = at[u][1] /\ a.unit = x /\ b.inst = at[t][1] /\ b.unit = x
    BY <1>3
  <1> HIDE DEF a, b
  <1> QED BY <1>1, <1>2, <1>4, <1>5, <1>6, <1>7, <1>8, <1>9 DEF IsRaceOf

\* A past access found to race is one that does not happen before the access of t.
LEMMA PastRace ==
  ASSUME IInv, VIInv, NEW t \in Thread, pc[t] = "region", NEW j \in HistoryRaces(t, {})
  PROVE  IsRaceOf(Where(t), {j, at[t][1]}, t)
  <1> DEFINE x == Where(t)
             b == [inst |-> at[t][1], unit |-> x, wr |-> ls[t], rd |-> rdls[t]]
  <1>1. PICK u \in Thread \ {t} : \E n \in 1..Len(snaps[x][u]) :
          snaps[x][u][n].inst = j /\ HistoryRace(snaps[x][u][n], u, t)
    BY DEF HistoryRaces
  <1>2. PICK n \in 1..Len(snaps[x][u]) :
          snaps[x][u][n].inst = j /\ HistoryRace(snaps[x][u][n], u, t)
    BY <1>1
  <1> DEFINE s == snaps[x][u][n]
             a(k) == [inst |-> s.inst, unit |-> x, wr |-> s.wr, rd |-> s.rd]
  <1>3. x \in Unit /\ s \in Snapshot
    BY DEF VIInv, VTypeOK, Where
  <1>4. PICK k \in 1..Len(trace[u]) : MadeOf(s, x, u, k)
    BY <1>3 DEF VIInv, SnapInv
  <1>5. k > hb[t][u]
    <2>1. Known(t) = vc[t]
      BY DEF Known
    <2>2. s.clk > vc[t][u]
      BY <1>2 DEF HistoryRace
    <2>3. vc[t][u] \in Nat /\ s.clk \in Nat /\ hb[t][u] \in Nat /\ k \in Nat
      <3>1. vc[t] \in Clock /\ hb[t] \in Clock /\ u \in Thread /\ trace[u] \in Seq(Visit)
        BY DEF VIInv, VTypeOK
      <3>2. vc[t][u] \in Nat /\ hb[t][u] \in Nat
        BY <3>1, JoinUpper
      <3>3. s.clk \in Nat
        BY <1>3 DEF Snapshot
      <3> QED BY <3>1, <3>2, <3>3
    <2>4. k <= hb[t][u] => s.clk <= vc[t][u]
      BY <1>4, <2>1 DEF MadeOf
    <2> QED BY <2>2, <2>3, <2>4
  <1>6. trace[u][k] = a(k)
    BY <1>4 DEF MadeOf
  <1>7. trace[t][Len(trace[t])] = b
    <2>1. ls[t] = HeldWrite(t) /\ rdls[t] = HeldRead(t)
      BY DEF VIInv, LockIInv, HeldWrite, HeldRead
    <2> QED BY <2>1 DEF VIInv, AccessInv, AccessPC, RegionPC
  <1>8. Unprotected(a(k), b) /\ (Writes(s.inst) \/ Writes(at[t][1]))
    <2> HIDE DEF s
    <2>1. /\ Disjoint(s.wr, ls[t])
          /\ \/ Writes(s.inst) /\ Writes(at[t][1])
             \/ /\ Writes(s.inst) # Writes(at[t][1])
                /\ Disjoint(s.wr, rdls[t]) /\ Disjoint(s.rd, ls[t])
      BY <1>2 DEF HistoryRace, s
    <2>2. /\ a(k).inst = s.inst /\ a(k).wr = s.wr /\ a(k).rd = s.rd
          /\ b.inst = at[t][1] /\ b.wr = ls[t] /\ b.rd = rdls[t]
      OBVIOUS
    <2> HIDE DEF a, b
    <2>3. s.wr \cap ls[t] = {}
      BY <2>1 DEF Disjoint
    <2>4. CASE Writes(s.inst) /\ Writes(at[t][1])
      BY <2>2, <2>3, <2>4 DEF Unprotected, Disjoint
    <2>5. CASE /\ Writes(s.inst) # Writes(at[t][1])
               /\ Disjoint(s.wr, rdls[t]) /\ Disjoint(s.rd, ls[t])
      <3>1. s.wr \cap rdls[t] = {} /\ s.rd \cap ls[t] = {}
        BY <2>5 DEF Disjoint
      <3>2. s.wr \cap (ls[t] \cup rdls[t]) = {}
        BY <2>3, <3>1
      <3>3. ~ (Writes(s.inst) /\ Writes(at[t][1])) /\ (Writes(s.inst) \/ Writes(at[t][1]))
        BY <2>5 DEF Writes
      <3> QED BY <2>2, <3>1, <3>2, <3>3 DEF Unprotected, Disjoint
    <2> QED BY <2>1, <2>4, <2>5
  <1>9. a(k).inst = j /\ a(k).unit = x /\ b.inst = at[t][1] /\ b.unit = x /\ a(k).inst = s.inst
    BY <1>2
  <1> HIDE DEF a, b, s
  <1> QED BY <1>1, <1>4, <1>5, <1>6, <1>7, <1>8, <1>9 DEF IsRaceOf

\* What a step reports is a race of the thread that makes it.
LEMMA StepReports ==
  ASSUME IInv, VIInv, NEW t \in Thread, VStep(t),
         NEW x \in Unit, NEW p \in raced'[x] \ raced[x]
  PROVE  pc[t] = "region" /\ IsRaceOf(x, p, t)
  <1>0. TypeOK /\ CallInv /\ VTypeOK
    BY DEF IInv, VIInv
  <1>1. Verify(t)
    <2>1. raced' # raced
      OBVIOUS
    <2> QED BY <1>0, <2>1, SyncFrame DEF VStep, VAccess, VBeforeMem, VPass, AccessFirst,
      AccessFirstAgain, RecordFirst, AccessSecondAgain
  <1>2. pc[t] = "region"
    BY <1>1 DEF Verify
  <1>3. PICK f, R, past, freed : VerifyEffect(t, f, R, past, freed)
    BY <1>0, <1>1, VerifyFinds
  <1> DEFINE new == {{Latest(Where(t), u).inst, at[t][1]} : u \in R} \cup {{j, at[t][1]} : j \in past}
  <1>4. raced' = [raced EXCEPT ![Where(t)] = @ \cup new]
        /\ R \subseteq RacingWith(t, f) /\ past \subseteq HistoryRaces(t, {})
    BY <1>3 DEF VerifyEffect
  <1>5. x = Where(t) /\ p \in new
    <2> HIDE DEF new
    <2>1. raced \in [Unit -> SUBSET {{i, j} : i, j \in Inst}]
      BY <1>0 DEF VTypeOK
    <2> QED BY <1>4, <2>1
  <1>6. CASE \E u \in R : p = {Latest(Where(t), u).inst, at[t][1]}
    BY <1>2, <1>4, <1>5, <1>6, WaitingRace
  <1>7. CASE \E j \in past : p = {j, at[t][1]}
    BY <1>2, <1>4, <1>5, <1>7, PastRace
  <1> QED BY <1>2, <1>5, <1>6, <1>7

\* Every race that is reported, of a postponed thread or of the history, is one.
THEOREM ReportsCorrect == VSpec => ReportsSound
  <1> DEFINE Sound == \A x \in Unit : \A p \in raced'[x] \ raced[x] :
       \E t, u \in Thread :
         /\ t # u /\ pc[t] = "region"
         /\ \E k \in 1..Len(trace[u]) :
              LET a == trace[u][k]   b == trace[t][Len(trace[t])] IN
              /\ k > hb[t][u]
              /\ a.unit = x /\ b.unit = x /\ p = {a.inst, b.inst}
              /\ Writes(a.inst) \/ Writes(b.inst)
              /\ Unprotected(a, b)
  <1>1. ASSUME IInv, VIInv, VNext PROVE Sound
    <2>1. PICK t \in Thread : VStep(t)
      BY <1>1 DEF VNext, VStep
    <2>2. ASSUME NEW x \in Unit, NEW p \in raced'[x] \ raced[x]
          PROVE  pc[t] = "region" /\ IsRaceOf(x, p, t)
      BY <1>1, <2>1, <2>2, StepReports
    <2> QED BY <2>2 DEF IsRaceOf
  <1>2. IInv /\ VIInv /\ [VNext]_allVars => [Sound]_allVars
    BY <1>1
  <1>3. VSpec => [][Sound]_allVars
    <2> HIDE DEF Sound
    <2> QED BY <1>2, Verifying, PTL DEF VSpec
  <1> QED BY <1>3 DEF ReportsSound
=============================================================================
