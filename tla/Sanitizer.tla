------------------------------- MODULE Sanitizer -------------------------------
(***************************************************************************)
(* ThreadSanitizer (thread_sanitizer.cc) on one memory unit.  A thread's   *)
(* accesses between two synchronisations are one segment, with the clock   *)
(* and the locksets of its beginning; the unit keeps the segments that     *)
(* read and those that wrote it.  Segments are counted references, and are *)
(* freed when the thread and all units have let go of them.                *)
(*                                                                         *)
(* Lock operations advance the thread's own clock; the rwlock carries      *)
(* clocks from the threads that released it to the next ones.              *)
(*                                                                         *)
(* A segment is a number, its signature; the C++ sets of segments are      *)
(* ordered by address, which is any order.                                 *)
(***************************************************************************)
EXTENDS LockProgram

VARIABLES
  tsVc, rwEpochs,     \* curr_vc_map_, the rwlock's entry in lock_epoch_map_
  fresh, current,     \* create_segment_map_, segment_table_ (0 for NULL)
  segments, refs,     \* per signature: the segment, its reference_count_
  expired, freed,     \* expired_segment_set_; the segments deleted
  units,              \* reader_ and writer_segment_set
  touched,            \* segment_read_ and segment_write_access_set
  found,              \* the races reported
  unlike,             \* the pairs of accesses that creation and join leave unordered
  setBack             \* whether some clock has gone backwards

segmentVars == <<current, segments, refs, expired, freed, units, touched, found, unlike>>
sanVars     == <<vars, programVars, tsVc, rwEpochs, fresh, setBack, segmentVars>>

SegmentRec == [thd : Thread, clock : Clock, wr : SUBSET Lock, rd : SUBSET Lock]

SanitizerTypeOK ==
  /\ ProgramTypeOK
  /\ tsVc \in [Thread -> Clock]
  /\ rwEpochs \in Seq(Thread \X Nat)
  /\ fresh \in [Thread -> BOOLEAN]
  /\ segments \in Seq(SegmentRec) /\ refs \in [DOMAIN segments -> Nat]
  /\ current \in [Thread -> DOMAIN segments \cup {0}]
  /\ expired \subseteq DOMAIN segments /\ freed \subseteq DOMAIN segments
  /\ units \in [Kind -> SUBSET DOMAIN segments]
  /\ touched \in [Kind -> SUBSET DOMAIN segments]
  /\ found \subseteq Race /\ unlike \subseteq Race
  /\ setBack \in BOOLEAN

SanitizerInit ==
  /\ ProgramInit
  /\ tsVc = vc
  /\ rwEpochs = << >>
  /\ fresh = [t \in Thread |-> TRUE]
  /\ current = [t \in Thread |-> 0]
  /\ segments = << >> /\ refs = << >>
  /\ expired = {} /\ freed = {}
  /\ units = [k \in Kind |-> {}] /\ touched = [k \in Kind |-> {}]
  /\ found = {} /\ unlike = {}
  /\ setBack = FALSE

-----------------------------------------------------------------------------
(* Synchronisation. *)

\* A synchronisation of t: its clock becomes c and its segment ends.
NewSegment(t, c) ==
  /\ tsVc' = [tsVc EXCEPT ![t] = c]
  /\ fresh' = [fresh EXCEPT ![t] = TRUE]
  /\ setBack' = (setBack \/ ~HappensBefore(tsVc[t], c))

\* SyncEvent.
Tick(t) == NewSegment(t, Increment(tsVc[t], t)) /\ UNCHANGED rwEpochs

\* SetClock assigns: what the thread had learned since is forgotten.
SetClocks(c, es) ==
  [u \in Thread |->
     LET own == {i \in DOMAIN es : es[i][1] = u} IN
     IF own = {} THEN c[u] ELSE es[CHOOSE i \in own : \A j \in own : j <= i][2]]

TsRdlock(t) ==
  /\ NewSegment(t, Increment(SetClocks(tsVc[t], IF rwEpochs = << >> THEN << >> ELSE <<Head(rwEpochs)>>), t))
  /\ UNCHANGED rwEpochs
TsWrlock(t) ==
  /\ NewSegment(t, Increment(SetClocks(tsVc[t], rwEpochs), t))
  /\ UNCHANGED rwEpochs

\* The release that leaves no holder drops the entries of earlier ones.
TsRwlockUnlock(t) ==
  LET c == Increment(tsVc[t], t) IN
  /\ NewSegment(t, c)
  /\ rwEpochs' = Append(IF lockRef' = 0 THEN << >> ELSE rwEpochs, <<t, c[t]>>)

TsCreate(t, c) ==
  /\ tsVc' = Started(tsVc, c, t)
  /\ fresh' = [fresh EXCEPT ![t] = TRUE, ![c] = TRUE]
  /\ UNCHANGED <<rwEpochs, setBack>>
TsJoin(t, c) ==
  /\ tsVc' = Joined(tsVc, t, c)
  /\ fresh' = [fresh EXCEPT ![t] = TRUE]
  /\ UNCHANGED <<rwEpochs, setBack>>

-----------------------------------------------------------------------------
(* Accesses. *)

\* Mutant: the segments compare their own clocks only.
PartHappensBeforeOwn(a, b) == a.clock[a.thd] < b.clock[b.thd]

\* Each segment's own clock and the other's.
PartHappensBefore(a, b) ==
  /\ a.clock[a.thd] <= b.clock[a.thd]
  /\ a.clock[b.thd] < b.clock[b.thd]

\* GetSegment: t's segment, a new one if it has synchronised.
SegmentOf(t) == IF fresh[t] THEN Len(segments) + 1 ELSE current[t]

SegmentsWith(t) ==
  IF fresh[t]
  THEN Append(segments, [thd |-> t, clock |-> tsVc[t], wr |-> wls[t], rd |-> rls[t]])
  ELSE segments

\* ClearExpiredSegments, before every access.
Inactive == {s \in expired : refs[s] = 0}

Replaced(t) == IF fresh[t] /\ current[t] # 0 THEN {current[t]} ELSE {}

\* The segments in the units' sets that t's access orders out of them: a read
\* only those that read.
Dropped(t, k) ==
  [j \in Kind |->
     IF SegmentOf(t) \in touched[k] \/ (k = "R" /\ j = "W") THEN {}
     ELSE {s \in units[j] : PartHappensBefore(segments[s], SegmentsWith(t)[SegmentOf(t)])}]

UnitsWith(t, k) ==
  [j \in Kind |-> (units[j] \ Dropped(t, k)[j]) \cup (IF j = k THEN {SegmentOf(t)} ELSE {})]

\* Mutant: the segment a synchronisation has ended keeps its count.
CountedTwice(t, k) ==
  [s \in DOMAIN SegmentsWith(t) |->
     (IF s \in DOMAIN refs THEN refs[s] ELSE 1)
       - Cardinality({j \in Kind : s \in Dropped(t, k)[j]})
       + (IF s = SegmentOf(t) /\ s \notin touched[k] THEN 1 ELSE 0)]

\* UpReference, DownReference: one for the thread, one for each set.
Counted(t, k) ==
  [s \in DOMAIN SegmentsWith(t) |->
     (IF s \in DOMAIN refs THEN refs[s] ELSE 1)
       - Cardinality(Replaced(t) \cap {s})
       - Cardinality({j \in Kind : s \in Dropped(t, k)[j]})
       + (IF s = SegmentOf(t) /\ s \notin touched[k] THEN 1 ELSE 0)]

\* Racy: two writers without a common lock, whatever their clocks; the readers
\* are compared with the first writer only, for the iterator over them is not
\* set back.
TsWriteWrite(segs, sets) ==
  {<<segs[p[1]].thd, "W", segs[p[2]].thd, "W">> :
     p \in {q \in sets["W"] \X sets["W"] :
              /\ q[1] < q[2] /\ segs[q[1]].thd # segs[q[2]].thd
              /\ segs[q[1]].wr \cap segs[q[2]].wr = {}}}

\* Mutant: the readers' locks for writing are compared.
TsWriteReadByWriter(segs, w, readSet) ==
  {<<segs[r].thd, "R", segs[w].thd, "W">> :
     r \in {s \in readSet : /\ segs[s].thd # segs[w].thd
                           /\ ~PartHappensBefore(segs[w], segs[s])
                           /\ segs[w].wr \cap segs[s].wr = {}}}

TsWriteRead(segs, w, readSet) ==
  {<<segs[r].thd, "R", segs[w].thd, "W">> :
     r \in {s \in readSet : /\ segs[s].thd # segs[w].thd
                           /\ ~PartHappensBefore(segs[w], segs[s])
                           /\ segs[w].wr \cap segs[s].rd = {}}}

\* What t's access may have reported, by the order of the segments' addresses.
TsReports(t, k) ==
  LET segs == SegmentsWith(t)
      sets == UnitsWith(t, k) IN
  IF SegmentOf(t) \in touched[k] \/ sets["W"] = {} THEN {{}}
  ELSE {TsWriteWrite(segs, sets) \cup TsWriteRead(segs, w, sets["R"]) : w \in sets["W"]}

\* ProcessRead, ProcessWrite.  Only the first read and write of a segment count.
TsAccess(t, k) ==
  /\ LockTouch(t, k)
  /\ segments' = SegmentsWith(t)
  /\ current' = [current EXCEPT ![t] = SegmentOf(t)]
  /\ fresh' = [fresh EXCEPT ![t] = FALSE]
  /\ touched' = [j \in Kind |-> (touched[j] \ Dropped(t, k)[j])
                                \cup (IF j = k THEN {SegmentOf(t)} ELSE {})]
  /\ units' = UnitsWith(t, k)
  /\ refs' = Counted(t, k)
  /\ freed' = freed \cup Inactive
  /\ expired' = (expired \ Inactive) \cup Replaced(t) \cup UNION {Dropped(t, k)[j] : j \in Kind}
  /\ \E races \in TsReports(t, k) : found' = found \cup races
  /\ unlike' = unlike \cup Unordered(t, k)
  /\ UNCHANGED <<tsVc, rwEpochs, setBack>>

TsSync(t) ==
  \/ \E c \in Thread : LockCreate(t, c) /\ TsCreate(t, c)
  \/ \E c \in Thread : LockJoin(t, c) /\ TsJoin(t, c)
  \/ LockExit(t) /\ UNCHANGED <<tsVc, rwEpochs, fresh, setBack>>
  \/ \E m \in Mutex : (LockMutexLock(t, m) \/ LockMutexUnlock(t, m)) /\ Tick(t)
  \/ LockRdlock(t) /\ TsRdlock(t)
  \/ LockWrlock(t) /\ TsWrlock(t)
  \/ LockRwlockUnlock(t) /\ TsRwlockUnlock(t)

SanitizerNext ==
  \E t \in Thread :
    \/ TsSync(t) /\ UNCHANGED segmentVars
    \/ \E k \in Kind : TsAccess(t, k)

SanitizerSpec == SanitizerInit /\ [][SanitizerNext]_sanVars

-----------------------------------------------------------------------------
(* Properties. *)

\* The reference counts are right: a segment is counted once for the thread
\* whose current one it is and once for each set of the unit it is in, so that
\* none of these is deleted while in use, and one nobody refers to any more is
\* deleted or waits to be.
SegmentsCounted ==
  \A s \in DOMAIN segments :
    /\ refs[s] = Cardinality({t \in Thread : current[t] = s})
                 + Cardinality({k \in Kind : s \in units[k]})
    /\ s \in freed => refs[s] = 0
    /\ refs[s] = 0 => s \in freed \cup expired

\* No false alarm: properly locked data are never reported, whatever the clocks
\* say; and while no clock has gone backwards, the pairs reported are of accesses
\* that creation and join leave unordered, in the order they were made or in the other.
TsReportsSound ==
  /\ Protected => found = {}
  /\ ~setBack => \A r \in found : r \in unlike \/ <<r[3], r[4], r[1], r[2]>> \in unlike

\* "check concurrent pairs" (thread_sanitizer.cc): two accesses that creation and
\* join order are never reported.
ChecksConcurrentPairs ==
  \A r \in found : r \in unlike \/ <<r[3], r[4], r[1], r[2]>> \in unlike

\* "check all write-read pairs": every writer in the unit's set is compared with
\* every reader in it.
ChecksAllPairs ==
  \A w \in units["W"] : TsWriteRead(segments, w, units["R"]) \subseteq found
=============================================================================
