-------------------------------- MODULE Hybrids --------------------------------
(***************************************************************************)
(* The hybrid detectors, which look for two concurrent accesses without a  *)
(* common lock: AccuLock (acculock.cc), MultiLock-HB (multilock_hb.cc),    *)
(* SimpleLock (simple_lock.cc) and SimpleLock+ (simplelock_plus.cc).  They *)
(* and the detectors of module LockStates watch the same program, on one   *)
(* memory unit.                                                            *)
(*                                                                         *)
(* Each keeps of the accesses only what it takes to matter: AccuLock one   *)
(* write and a read per thread, MultiLock-HB the accesses that no later    *)
(* one of the thread subsumes, SimpleLock the lowest lock count of each of *)
(* the last epochs, SimpleLock+ whether the last epoch had an unlocked     *)
(* access.  reports[d] collects what detector d has reported, unpruned and *)
(* unlocked what it would have, had all accesses been kept.                *)
(***************************************************************************)
EXTENDS LockStates

CONSTANT MaxListLen   \* SlMeta::max_list_len

ASSUME ListAssumption == MaxListLen \in Nat \ {0}

VARIABLES
  accu,         \* AccuLockMeta: the last write, the reads since
  ml,           \* MlMeta: per thread, pairs of clock and lockset
  sl,           \* SlMeta: per thread, pairs of clock and lock count
  slp,          \* SlpMeta: per thread, the last clock and whether unlocked
  reports,      \* the races each detector has reported
  unpruned, unlocked, unordered   \* what all the accesses give

metaVars  == <<er, rt, accu, ml, sl, slp>>
hybridVars == <<metaVars, reports, unpruned, unlocked, unordered>>
allVars   == <<vars, programVars, hg, hybridVars>>

Detectors == {"Eraser", "RaceTrack", "Helgrind", "AccuLock", "MultiLockHb", "SimpleLock", "SimpleLockPlus"}
ClockSet  == [clk : Nat, locks : SUBSET Lock]
ClockCnt  == [clk : Nat, cnt : Nat]

HybridsTypeOK ==
  /\ ProgramTypeOK /\ StatesTypeOK
  /\ accu \in [thd : Thread \cup {NoThread}, clk : Nat, locks : SUBSET Lock,
               reads : [Thread -> ClockSet]]
  /\ ml \in [Kind -> [Thread -> SUBSET ClockSet]]
  /\ sl \in [Kind -> [Thread -> Seq(ClockCnt)]]
  /\ slp \in [Kind -> [Thread -> [clk : Nat, iszero : BOOLEAN]]]
  /\ \A k \in Kind, t \in Thread : Len(sl[k][t]) <= MaxListLen
  /\ reports \in [Detectors -> SUBSET Race]
  /\ unpruned \subseteq Race /\ unlocked \subseteq Race /\ unordered \subseteq Race

HybridsInit ==
  /\ ProgramInit /\ StatesInit
  /\ accu = [thd |-> NoThread, clk |-> 0, locks |-> {},
             reads |-> [t \in Thread |-> [clk |-> 0, locks |-> {}]]]
  /\ ml = [k \in Kind |-> [t \in Thread |-> {}]]
  /\ sl = [k \in Kind |-> [t \in Thread |-> << >>]]
  /\ slp = [k \in Kind |-> [t \in Thread |-> [clk |-> 0, iszero |-> TRUE]]]
  /\ reports = [d \in Detectors |-> {}]
  /\ unpruned = {} /\ unlocked = {} /\ unordered = {}

Disjoint(a, b) == a \cap b = {}

\* The kinds of access that conflict with one of kind k.
Against(k) == IF k = "R" THEN {"W"} ELSE Kind

\* The locks that protect t's access of kind k.
Protecting(t, k) == IF k = "R" THEN ls[t] \cup rdls[t] ELSE ls[t]

-----------------------------------------------------------------------------
(* AccuLock.  A read or write in the epoch of the last one is not looked at; *)
(* its clocks move on at every unlock.  A thread that has never locked has   *)
(* no lockset, and what its entry held before stays.                        *)

AccuNow(t) == accuVc[t][t]

AccuSeenRead(t) ==
  accu.reads[t].clk = AccuNow(t) \/ (accu.thd = t /\ accu.clk = AccuNow(t))
AccuSeenWrite(t) == accu.thd = t /\ accu.clk = AccuNow(t)

AccuWriterAhead(t) == accu.thd \in Thread \ {t} /\ accu.clk > accuVc[t][accu.thd]

AccuReadLocks(t) == (IF t \in locked THEN ls[t] ELSE accu.reads[t].locks) \cup rdls[t]

\* Concurrent writes are protected by what all of them hold.
AccuWriteLocks(t) ==
  IF AccuWriterAhead(t) THEN accu.locks \cap ls[t]
  ELSE IF t \in locked THEN ls[t] ELSE accu.locks

AccuAfter(t, k) ==
  CASE k = "R" /\ ~AccuSeenRead(t) ->
         [accu EXCEPT !.reads[t] = [clk |-> AccuNow(t), locks |-> AccuReadLocks(t)]]
    [] k = "W" /\ ~AccuSeenWrite(t) ->
         [thd |-> t, clk |-> AccuNow(t), locks |-> AccuWriteLocks(t),
          reads |-> [u \in Thread |-> [clk |-> 0, locks |-> {}]]]
    [] OTHER -> accu

AccuReports(t, k) ==
  LET racing == {u \in Thread \ {t} : /\ accu.reads[u].clk > accuVc[t][u]
                                      /\ Disjoint(accu.reads[u].locks, ls[t])} IN
  CASE k = "R" /\ ~AccuSeenRead(t) ->
         IF AccuWriterAhead(t) /\ Disjoint(accu.locks, AccuReadLocks(t))
         THEN {<<accu.thd, "W", t, "R">>} ELSE {}
    [] k = "W" /\ ~AccuSeenWrite(t) ->
         (IF AccuWriterAhead(t) /\ AccuWriteLocks(t) = {} THEN {<<accu.thd, "W", t, "W">>} ELSE {})
         \cup RacesWith(racing, "R", t, "W")
    [] OTHER -> {}

-----------------------------------------------------------------------------
(* MultiLock-HB.  An access is not recorded when one of the same epoch with *)
(* fewer locks is (for a read, a write will do); those it makes redundant    *)
(* leave.                                                                    *)

MlRedundant(t, k) ==
  \E j \in {k, "W"} : \E p \in ml[j][t] : p.clk = Now(t) /\ p.locks \subseteq Protecting(t, k)

\* Mutant: an access subsumes those with fewer locks.
MlSubsumedByMore(t, k) ==
  {p \in UNION {ml[j][t] : j \in Kind} : p.clk <= Now(t) /\ p.locks \subseteq Protecting(t, k)}

MlSubsumed(t, k) ==
  {p \in UNION {ml[j][t] : j \in Kind} : p.clk <= Now(t) /\ Protecting(t, k) \subseteq p.locks}

\* update_on_read, update_on_write: a read only replaces reads.
MlAfter(t, k) ==
  LET new == [clk |-> Now(t), locks |-> Protecting(t, k)] IN
  IF MlRedundant(t, k) THEN ml
  ELSE [j \in Kind |->
          IF j = "W" /\ k = "R" THEN ml[j]
          ELSE [ml[j] EXCEPT ![t] = (@ \ MlSubsumed(t, k)) \cup (IF j = k THEN {new} ELSE {})]]

MlReports(t, k) ==
  UNION {RacesWith({u \in Thread \ {t} :
                      \E p \in ml[j][u] : p.clk > vc[t][u] /\ Disjoint(p.locks, Protecting(t, k))},
                   j, t, k) : j \in Against(k)}

-----------------------------------------------------------------------------
(* SimpleLock.  Per epoch the lowest lock count, for the last epochs. *)

\* Mutant: the count of an epoch is that of its last access.
SlNotedLast(list, t) ==
  LET new == [clk |-> Now(t), cnt |-> lc[t]]
      long == Append(list, new) IN
  IF list # << >> /\ list[Len(list)].clk = Now(t)
  THEN [list EXCEPT ![Len(list)] = new]
  ELSE IF Len(long) > MaxListLen THEN Tail(long) ELSE long

SlNoted(list, t) ==
  LET new == [clk |-> Now(t), cnt |-> lc[t]]
      long == Append(list, new) IN
  IF list # << >> /\ list[Len(list)].clk = Now(t)
  THEN IF list[Len(list)].cnt > lc[t] THEN [list EXCEPT ![Len(list)] = new] ELSE list
  ELSE IF Len(long) > MaxListLen THEN Tail(long) ELSE long

SlAfter(t, k) == [sl EXCEPT ![k][t] = SlNoted(@, t)]

SlReports(t, k) ==
  UNION {RacesWith({u \in Thread \ {t} :
                      \E i \in 1..Len(sl[j][u]) :
                        sl[j][u][i].clk > vc[t][u] /\ (sl[j][u][i].cnt = 0 \/ lc[t] = 0)},
                   j, t, k) : j \in Against(k)}

(* SimpleLock+ keeps the last epoch only, and looks at an access that is the *)
(* first of its epoch, or the first unlocked one.                            *)

SlpSkips(t, k) == slp[k][t].clk = Now(t) /\ (slp[k][t].iszero \/ lc[t] # 0)

SlpAfter(t, k) ==
  IF SlpSkips(t, k) THEN slp ELSE [slp EXCEPT ![k][t] = [clk |-> Now(t), iszero |-> lc[t] = 0]]

SlpReports(t, k) ==
  IF SlpSkips(t, k) THEN {}
  ELSE UNION {RacesWith({u \in Thread \ {t} :
                           slp[j][u].clk > vc[t][u] /\ (slp[j][u].iszero \/ lc[t] = 0)},
                        j, t, k) : j \in Against(k)}

-----------------------------------------------------------------------------
(* The truth: t's access of kind k against all earlier ones. *)

\* The races of t's access with the recorded accesses that pass the test.
Against_(t, k, Test(_)) ==
  {<<a.thd, a.kind, t, k>> : a \in {b \in seen : b.thd # t /\ b.kind \in Against(k) /\ Test(b)}}

LocksOf(a) == IF a.kind = "R" THEN a.wr \cup a.rd ELSE a.wr

\* The last MaxListLen epochs in which thread u made an access of kind j.
LastEpochs(u, j) ==
  LET clks == {a.clk : a \in {b \in seen : b.thd = u /\ b.kind = j}} IN
  {c \in clks : Cardinality({d \in clks : d > c}) < MaxListLen}

Unpruned(t, k) ==
  LET mine == LocksOf(Making(t, k))
      Test(a) == a.clk > vc[t][a.thd] /\ Disjoint(LocksOf(a), mine)
  IN  Against_(t, k, Test)

Unlocked(t, k) ==
  LET free == HeldWrite(t) \cup HeldRead(t) = {}
      Test(a) == /\ a.clk > vc[t][a.thd] /\ a.clk \in LastEpochs(a.thd, a.kind)
                 /\ free \/ a.wr \cup a.rd = {}
  IN  Against_(t, k, Test)

Touching(t, k) ==
  /\ LockTouch(t, k)
  /\ er' = ErAfter(t, k) /\ rt' = RtAfter(t, k) /\ hg' = HgAfter(t, k)
  /\ accu' = AccuAfter(t, k) /\ ml' = MlAfter(t, k)
  /\ sl' = SlAfter(t, k) /\ slp' = SlpAfter(t, k)
  /\ reports' = [reports EXCEPT
       !["Eraser"] = @ \cup ErReports(t, k), !["RaceTrack"] = @ \cup RtReports(t, k),
       !["Helgrind"] = @ \cup HgReports(t, k),
       !["AccuLock"] = @ \cup AccuReports(t, k), !["MultiLockHb"] = @ \cup MlReports(t, k),
       !["SimpleLock"] = @ \cup SlReports(t, k), !["SimpleLockPlus"] = @ \cup SlpReports(t, k)]
  /\ unpruned' = unpruned \cup Unpruned(t, k)
  /\ unlocked' = unlocked \cup Unlocked(t, k)
  /\ unordered' = unordered \cup Unordered(t, k)

\* Lock operations, creation and join; a join tells Helgrind+'s metas.
LockSync(t) ==
  \/ \E c \in Thread : LockJoin(t, c) /\ hg' = HgJoined(c)
  \/ /\ \/ \E c \in Thread : LockCreate(t, c)
        \/ LockExit(t)
        \/ \E m \in Mutex : LockMutexLock(t, m) \/ LockMutexUnlock(t, m)
        \/ LockRdlock(t) \/ LockWrlock(t) \/ LockRwlockUnlock(t)
     /\ UNCHANGED hg

HybridsNext ==
  \E t \in Thread :
    \/ LockSync(t) /\ UNCHANGED hybridVars
    \/ \E k \in Kind : Touching(t, k)

HybridsSpec == HybridsInit /\ [][HybridsNext]_allVars

-----------------------------------------------------------------------------
(* Properties. *)

\* No false alarm about properly locked data: as long as one lock protects all
\* accesses, none of the detectors reports, whatever its state machine goes
\* through, whatever locks it intersects and whichever accesses it has dropped.
QuietWhenLocked == Protected => \A d \in Detectors : reports[d] = {}

\* What the detectors leave out of their tables loses nothing.  MultiLock-HB, which
\* prunes accesses and skips redundant ones, has reported a race between two threads
\* exactly if some two of their accesses are concurrent, conflict and share no lock,
\* though it may name a write where the read it dropped raced.  SimpleLock, which
\* keeps the lowest lock count of an epoch, reports exactly the pairs, one of which
\* holds no lock, among the last MaxListLen epochs.
PruningLosesNothing ==
  /\ reports["MultiLockHb"] \subseteq unpruned
  /\ \A r \in unpruned : \E k \in {r[2], "W"} : <<r[1], k, r[3], r[4]>> \in reports["MultiLockHb"]
  /\ reports["SimpleLock"] = unlocked

\* The hybrid detectors report pairs of accesses that creation and join leave
\* unordered, of the kinds they name.  RaceTrack, whose sets of writers and
\* readers are never pruned, names two threads that do have such accesses.
\* Helgrind+ may blame the wrong thread, since a join hands the segment of one
\* to another, but the access it reports at does race with an earlier one.
ReportsConcurrent ==
  /\ \A d \in Detectors \ {"Eraser", "RaceTrack", "Helgrind"} : reports[d] \subseteq unordered
  /\ \A r \in reports["RaceTrack"] : \E s \in unordered : s[1] = r[1] /\ s[3] = r[3]
  /\ \A r \in reports["Helgrind"] : \E s \in unordered : s[3] = r[3] /\ s[4] = r[4]
=============================================================================
