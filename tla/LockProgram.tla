------------------------------ MODULE LockProgram ------------------------------
(***************************************************************************)
(* What the lockset and hybrid detectors (eraser.cc, race_track.cc,        *)
(* acculock.cc, multilock_hb.cc, simple_lock.cc, simplelock_plus.cc) know  *)
(* of a thread: the locks it holds, or how many.  They inherit the clocks  *)
(* of module Detector for creation and join and override the callbacks of  *)
(* mutexes and of the rwlock, which move no clock here but the one         *)
(* AccuLock increments when a lock is released.                            *)
(*                                                                         *)
(* Eraser and RaceTrack keep two sets per thread, the locks that protect   *)
(* its writes and those that protect its reads; AccuLock and MultiLock-HB  *)
(* keep the locks held for writing and the read locks; SimpleLock and      *)
(* SimpleLock+ count.  Detectors that do the same share a variable.        *)
(*                                                                         *)
(* Beside them runs the truth: seen is the set of all accesses, and hb     *)
(* says which of them creation and join order before what a thread does    *)
(* now; the lock steps of this module leave hb alone, because these        *)
(* detectors are after the accesses that only the schedule has ordered.    *)
(***************************************************************************)
EXTENDS Detector

VARIABLES
  wls, rls, lockRef,  \* writer_/reader_lock_set_table_, lock_reference_map_
  ls, rdls, locked,   \* curr_lockset_table_, curr_reader_lockset_table_; the
                      \* threads with an entry in the first
  lc,                 \* curr_lc_table_
  accuVc,             \* AccuLock's curr_vc_map_
  seen                \* the accesses made

tableVars   == <<wls, rls, lockRef, ls, rdls, locked, lc>>
rwTruth     == <<rwVc, rwWait, rwRef, hbWriter, hbReaders>>
programVars == <<tableVars, accuVc, seen>>

Rw   == "rw"                   \* the rwlock among the locks
Lock == Mutex \cup {Rw}
Kind == {"R", "W"}

\* The rwlock's name is no mutex's.
ASSUME RwAssumption == Rw \notin Mutex

\* An access: whose, which kind, its number and the thread's clock then, the
\* locks held for writing and for reading.
Access == [thd : Thread, kind : Kind, n : Nat, clk : Nat, wr : SUBSET Lock, rd : SUBSET Lock]

ProgramTypeOK ==
  /\ TypeOK
  /\ wls \in [Thread -> SUBSET Lock] /\ rls \in [Thread -> SUBSET Lock]
  /\ lockRef \in Nat
  /\ ls \in [Thread -> SUBSET Lock] /\ rdls \in [Thread -> SUBSET Lock]
  /\ locked \subseteq Thread
  /\ lc \in [Thread -> Nat]
  /\ accuVc \in [Thread -> Clock]
  /\ seen \subseteq Access

ProgramInit ==
  /\ Init
  /\ wls = [t \in Thread |-> {}] /\ rls = [t \in Thread |-> {}] /\ lockRef = 0
  /\ ls = [t \in Thread |-> {}] /\ rdls = [t \in Thread |-> {}] /\ locked = {}
  /\ lc = [t \in Thread |-> 0]
  /\ accuVc = vc
  /\ seen = {}

-----------------------------------------------------------------------------
HeldWrite(t) == {m \in Mutex : holder[m] = t} \cup (IF writer = t THEN {Rw} ELSE {})
HeldRead(t)  == IF t \in readers THEN {Rw} ELSE {}

Add(table, t, l)    == [table EXCEPT ![t] = @ \cup {l}]
Remove(table, t, l) == [table EXCEPT ![t] = @ \ {l}]

(* What each family of detectors does in the callbacks of the locks.       *)

\* Eraser, RaceTrack, Helgrind+, ThreadSanitizer: AfterPthreadMutexLock (and,
\* through it, a successful trylock) and AfterPthreadRwlockWrlock.
SetsTake(t, l) == wls' = Add(wls, t, l) /\ rls' = Add(rls, t, l)
SetsDrop(t, l) == wls' = Remove(wls, t, l) /\ rls' = Remove(rls, t, l)
SetsTakeRead(t) == rls' = Add(rls, t, Rw) /\ lockRef' = lockRef + 1

\* Mutant: the rwlock leaves the sets with the first holder that releases it.
RwUnlockFirst(t) ==
  /\ wls' = Remove(wls, t, Rw) /\ rls' = [u \in Thread |-> rls[u] \ {Rw}]
  /\ lockRef' = lockRef - 1

\* They take the rwlock out of the thread's sets when nobody else holds it: of
\* two overlapping readers, the first one to leave keeps it.
RwUnlockReference(t) ==
  /\ IF lockRef = 1 THEN SetsDrop(t, Rw) ELSE UNCHANGED <<wls, rls>>
  /\ lockRef' = lockRef - 1

\* AccuLock, MultiLock-HB: the entry of a thread appears with its first lock.
HeldTake(t, l) == ls' = Add(ls, t, l) /\ locked' = locked \cup {t}

\* AccuLock's clock moves on with a release.
AccuUnlock(t) == accuVc' = [accuVc EXCEPT ![t] = Increment(@, t)]
HeldDrop(t, m) == ls' = Remove(ls, t, m) /\ AccuUnlock(t)
HeldDropRw(t) == ls' = Remove(ls, t, Rw) /\ rdls' = Remove(rdls, t, Rw) /\ AccuUnlock(t)

\* SimpleLock, SimpleLock+.
CountUp(t)   == lc' = [lc EXCEPT ![t] = @ + 1]
CountDown(t) == lc' = [lc EXCEPT ![t] = @ - 1]

\* pthread_mutex_lock and the callback after it are one step, and so are the
\* callback before a release and the release: the tables are the thread's own,
\* lock_reference_map_ moves in the callbacks only, and what others can do
\* between the two leads to the same when done before or after.
LockMutexLock(t, m) ==
  /\ pc[t] = "run" /\ holder[m] = NoThread
  /\ Raise("mutex")
  /\ holder' = [holder EXCEPT ![m] = t]
  /\ SetsTake(t, m) /\ HeldTake(t, m) /\ CountUp(t)
  /\ UNCHANGED <<pc, arg, vc, mutexVc, hbMutex, rwVars, condVars, barVars, semVars, epochs, hb,
                 lockRef, rdls, accuVc, seen>>

LockMutexUnlock(t, m) ==
  /\ pc[t] = "run" /\ holder[m] = t
  /\ holder' = [holder EXCEPT ![m] = NoThread]
  /\ SetsDrop(t, m) /\ HeldDrop(t, m) /\ CountDown(t)
  /\ UNCHANGED <<callVars, vc, mutexVc, hbMutex, rwVars, condVars, barVars, semVars, epochs, hb,
                 rdls, locked, lockRef, seen>>

LockRdlock(t) ==
  /\ pc[t] = "run" /\ writer = NoThread /\ t \notin readers
  /\ Raise("rwlock")
  /\ readers' = readers \cup {t}
  /\ SetsTakeRead(t) /\ rdls' = Add(rdls, t, Rw) /\ CountUp(t)
  /\ UNCHANGED <<pc, arg, vc, writer, rwTruth, lockVars, condVars, barVars, semVars, epochs, hb,
                 wls, ls, locked, accuVc, seen>>

LockWrlock(t) ==
  /\ pc[t] = "run" /\ writer = NoThread /\ readers = {}
  /\ Raise("rwlock")
  /\ writer' = t
  /\ SetsTake(t, Rw) /\ HeldTake(t, Rw) /\ CountUp(t)
  /\ lockRef' = 1
  /\ UNCHANGED <<pc, arg, vc, readers, rwTruth, lockVars, condVars, barVars, semVars, epochs, hb,
                 rdls, accuVc, seen>>

LockRwlockUnlock(t) ==
  /\ pc[t] = "run" /\ (writer = t \/ t \in readers)
  /\ writer' = (IF writer = t THEN NoThread ELSE writer)
  /\ readers' = readers \ {t}
  /\ RwUnlockReference(t) /\ HeldDropRw(t) /\ CountDown(t)
  /\ UNCHANGED <<callVars, vc, rwTruth, lockVars, condVars, barVars, semVars, epochs, hb,
                 locked, seen>>

-----------------------------------------------------------------------------
(* Creation and join: Detector's callbacks, on AccuLock's clocks as well.   *)

Started(clocks, c, parent) ==
  [clocks EXCEPT ![c] = Join(Increment(Zero, c), clocks[parent]),
                 ![parent] = Increment(@, parent)]

\* pthread_create and the child's ThreadStart (what can come between them is
\* the matter of module Races).
LockCreate(t, c) ==
  /\ pc[t] = "run"
  /\ Move(c, "unborn", "run")
  /\ vc' = Started(vc, c, t) /\ accuVc' = Started(accuVc, c, t)
  /\ Learn(c, hb[t])
  /\ UNCHANGED <<arg, left, lockVars, rwVars, condVars, barVars, semVars, epochs, tableVars, seen>>

LockExit(t) ==
  /\ Move(t, "run", "exited")
  /\ "join" \in Ops /\ left > 0
  /\ HeldWrite(t) \cup HeldRead(t) = {}
  /\ UNCHANGED <<arg, left, vc, lockVars, rwVars, condVars, barVars, semVars, epochs, hb,
                 programVars>>

\* pthread_join and Detector's callback after it; the child's clock is deleted.
Joined(clocks, t, c) == [clocks EXCEPT ![t] = Increment(Join(@, clocks[c]), t), ![c] = Zero]

LockJoin(t, c) ==
  /\ pc[t] = "run"
  /\ Move(c, "exited", "reaped")
  /\ vc' = Joined(vc, t, c) /\ accuVc' = Joined(accuVc, t, c)
  /\ Learn(t, hb[c])
  /\ UNCHANGED <<arg, left, lockVars, rwVars, condVars, barVars, semVars, epochs, tableVars, seen>>

-----------------------------------------------------------------------------
\* The access t is about to make.
Making(t, k) ==
  [thd |-> t, kind |-> k, n |-> Len(epochs[t]) + 1, clk |-> vc[t][t],
   wr |-> HeldWrite(t), rd |-> HeldRead(t)]

LockTouch(t, k) ==
  /\ Touch(t)
  /\ seen' = seen \cup {Making(t, k)}
  /\ UNCHANGED <<tableVars, accuVc>>

\* The earlier accesses that creation and join do not order before the one t is
\* about to make, of whatever kind.
Unordered(t, k) ==
  {<<a.thd, a.kind, t, k>> : a \in {b \in seen : b.thd # t /\ b.n > hb[t][b.thd]}}

-----------------------------------------------------------------------------
(* Properties. *)

\* A lock held at every access, for writing at every write, so that no two
\* conflicting accesses overlap.
Protected ==
  \E l \in Lock : \A a \in seen : l \in a.wr \/ (a.kind = "R" /\ l \in a.rd)

\* A thread between two calls has in the tables the locks pthread says it
\* holds; AccuLock's and MultiLock-HB's locksets, and the counts, name no
\* others.  What Eraser and RaceTrack may have kept too much is the rwlock among
\* the locks for reading.
TablesFollowLocks ==
  \A t \in Thread : pc[t] = "run" =>
    /\ ls[t] = HeldWrite(t) /\ rdls[t] = HeldRead(t)
    /\ lc[t] = Cardinality(HeldWrite(t) \cup HeldRead(t))
    /\ wls[t] = HeldWrite(t)
    /\ HeldWrite(t) \cup HeldRead(t) \subseteq rls[t]
    /\ rls[t] \ (HeldWrite(t) \cup HeldRead(t)) \subseteq {Rw}
=============================================================================
