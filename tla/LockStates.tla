------------------------------ MODULE LockStates ------------------------------
(***************************************************************************)
(* Eraser, RaceTrack and Helgrind+: a state machine and candidate locksets *)
(* per memory unit (eraser.cc, race_track.cc, helgrind.cc), on one unit.   *)
(* Eraser uses no clocks; RaceTrack keeps the set of threads whose last    *)
(* accesses are concurrent, and has a second round of states in which only *)
(* concurrent accesses count; Helgrind+ keeps one access, the segment, and *)
(* intersects locksets only once a concurrent access was seen.             *)
(*                                                                         *)
(* er, rt and hg are the metas.  The operators describe what one access makes  *)
(* of a meta; module Hybrids turns them into actions.                      *)
(***************************************************************************)
EXTENDS LockProgram

VARIABLES er, rt, hg

ErState == {"UNKNOWN", "VIRGIN", "EXCLUSIVE", "READ_SHARED", "SHARED_MODIFIED"}
RtState == {"VIRGIN", "EXCLUSIVE1", "READ_SHARED", "SHARED_MODIFIED1", "EXCLUSIVE2",
            "SHARED_MODIFIED2", "RACY"}
HgState == {"NEW", "EXCLUSIVE_READ", "EXCLUSIVE_WRITE", "SHARED_READ", "SHARED_MODIFIED", "RACE"}

StatesTypeOK ==
  /\ er \in [state : ErState, owner : Thread \cup {NoThread}, racy : BOOLEAN,
             wr : SUBSET Lock, rd : SUBSET Lock,
             writers : SUBSET Thread, readers : SUBSET Thread]
  /\ rt \in [state : RtState, stop : BOOLEAN, racy : BOOLEAN,
             wr : SUBSET Lock, rd : SUBSET Lock, threads : Clock,
             writers : SUBSET Thread, readers : SUBSET Thread]
  /\ hg \in [state : HgState, clock : Clock, thd : Thread \cup {NoThread}, kind : Kind,
             threads : SUBSET Thread, locks : SUBSET Lock,
             lastop : [Thread -> Kind \cup {NoArg}]]

\* EraserMeta::thread_id has no initialiser; it is assigned before it is read.
StatesInit ==
  /\ er = [state |-> "UNKNOWN", owner |-> NoThread, racy |-> FALSE,
           wr |-> {}, rd |-> {}, writers |-> {}, readers |-> {}]
  /\ rt = [state |-> "VIRGIN", stop |-> FALSE, racy |-> FALSE,
           wr |-> {}, rd |-> {}, threads |-> Zero, writers |-> {}, readers |-> {}]
  /\ hg = [state |-> "NEW", clock |-> Zero, thd |-> NoThread, kind |-> "R",
           threads |-> {}, locks |-> {}, lastop |-> [t \in Thread |-> NoArg]]

-----------------------------------------------------------------------------
(* Eraser. *)

\* The candidate locks after a write: those in either set that protect it.
JoinAndMerge(e, t) == (e.wr \cup e.rd) \cap wls[t]

\* UpdateMemoryState.
ErMoved(e, t, k) ==
  LET shared == IF k = "W" THEN "SHARED_MODIFIED" ELSE "READ_SHARED" IN
  CASE e.state = "UNKNOWN" ->
         [e EXCEPT !.state = IF k = "W" THEN "EXCLUSIVE" ELSE "VIRGIN",
                   !.owner = t, !.wr = wls[t], !.rd = rls[t]]
    [] e.state = "VIRGIN" /\ e.owner = t ->
         [e EXCEPT !.state = IF k = "W" THEN "EXCLUSIVE" ELSE "VIRGIN"]
    [] e.state \in {"VIRGIN", "EXCLUSIVE"} /\ e.owner # t -> [e EXCEPT !.state = shared]
    [] e.state = "READ_SHARED" /\ k = "W" -> [e EXCEPT !.state = "SHARED_MODIFIED"]
    [] OTHER -> e

\* Mutant: a write is refined by the thread's read locks.
ErMergedByRead(e, t, k) ==
  IF e.state \notin {"READ_SHARED", "SHARED_MODIFIED"} THEN e
  ELSE IF k = "R" THEN [e EXCEPT !.rd = @ \cap rls[t], !.wr = @ \cap wls[t]]
       ELSE [e EXCEPT !.wr = @ \cap wls[t]]

\* The candidate locksets, refined once the unit is shared.
ErMerged(e, t, k) ==
  IF e.state \notin {"READ_SHARED", "SHARED_MODIFIED"} THEN e
  ELSE IF k = "R" THEN [e EXCEPT !.rd = @ \cap rls[t], !.wr = @ \cap wls[t]]
       ELSE [e EXCEPT !.wr = JoinAndMerge(e, t)]

ErAlarm(e, k) ==
  e.state = "SHARED_MODIFIED" /\ e.wr = {} /\ (k = "R" => e.rd = {})

ErSeen(e, t, k) ==
  IF k = "R" THEN [e EXCEPT !.readers = @ \cup {t}] ELSE [e EXCEPT !.writers = @ \cup {t}]

\* ProcessRead and ProcessWrite: the meta after the access, and the races
\* reported; a racy unit is not looked at again.
ErAfter(t, k) ==
  IF er.racy THEN er
  ELSE LET e == ErMerged(ErMoved(er, t, k), t, k)
       IN  ErSeen([e EXCEPT !.racy = ErAlarm(e, k)], t, k)

\* It is not known which of the others conflict: all are reported.
ErReports(t, k) ==
  IF er.racy \/ ~ErAfter(t, k).racy THEN {}
  ELSE RacesWith(er.writers \ {t}, "W", t, k)
       \cup (IF k = "W" THEN RacesWith(er.readers \ {t}, "R", t, k) ELSE {})

-----------------------------------------------------------------------------
(* RaceTrack. *)

\* Mutant: every thread that ever accessed stays in the set.
RtThreadsKept(r, t) == [r EXCEPT !.threads[t] = vc[t][t]]

\* MergeThreadSet: what happens before the access leaves the set.
RtThreads(r, t) ==
  [r EXCEPT !.threads =
     [u \in Thread |-> IF u = t THEN vc[t][t]
                       ELSE IF @[u] <= vc[t][u] THEN 0 ELSE @[u]]]

\* MergeLockSet, InitializeLockSet.
RtLocks(r, t, k) ==
  IF k = "R" THEN [r EXCEPT !.rd = @ \cap rls[t], !.wr = @ \cap rls[t]]
             ELSE [r EXCEPT !.wr = JoinAndMerge(r, t)]
RtFresh(r, t, k) ==
  [r EXCEPT !.rd = IF k = "R" THEN rls[t] ELSE {}, !.wr = IF k = "W" THEN wls[t] ELSE {}]

RtAlone(r) == Cardinality({u \in Thread : r.threads[u] # 0}) = 1

\* The stages of UpdateMemoryState, in the order of the code: each may change
\* the state and fall through to the next, or return (stop).
RtVirgin(r, t, k) ==
  IF r.state # "VIRGIN" THEN r
  ELSE [RtFresh(RtThreads(r, t), t, k) EXCEPT !.state = "EXCLUSIVE1", !.stop = TRUE]

RtExclusive1(r, t, k) ==
  LET s == RtLocks(RtThreads(r, t), t, k) IN
  IF r.stop \/ r.state # "EXCLUSIVE1" THEN r
  ELSE IF RtAlone(s) THEN [s EXCEPT !.stop = TRUE]
  ELSE [s EXCEPT !.threads = Zero, !.stop = (k = "R"),
                 !.state = IF k = "R" THEN "READ_SHARED" ELSE "SHARED_MODIFIED1"]

RtReadShared(r, t, k) ==
  LET s == RtLocks(r, t, k) IN
  IF r.stop \/ r.state # "READ_SHARED" THEN r
  ELSE IF k = "W" /\ s.wr = {} THEN [RtFresh(s, t, k) EXCEPT !.state = "EXCLUSIVE2"]
  ELSE [s EXCEPT !.stop = TRUE, !.state = IF k = "W" THEN "SHARED_MODIFIED1" ELSE @]

RtSharedModified1(r, t, k) ==
  LET s == RtLocks(r, t, k) IN
  IF r.stop \/ r.state # "SHARED_MODIFIED1" THEN r
  ELSE IF s.wr = {} THEN [RtFresh(s, t, k) EXCEPT !.state = "EXCLUSIVE2"]
  ELSE [s EXCEPT !.stop = TRUE]

RtExclusive2(r, t, k) ==
  LET s == RtLocks(RtThreads(r, t), t, k) IN
  IF r.stop \/ r.state # "EXCLUSIVE2" THEN r
  ELSE IF RtAlone(s) THEN [s EXCEPT !.stop = TRUE]
  ELSE [s EXCEPT !.state = "SHARED_MODIFIED2"]

RtSharedModified2(r, t, k) ==
  LET s == RtLocks(RtThreads(r, t), t, k) IN
  IF r.stop \/ r.state # "SHARED_MODIFIED2" THEN r
  ELSE IF RtAlone(s) THEN [RtFresh(s, t, k) EXCEPT !.state = "EXCLUSIVE2"]
  ELSE IF s.wr = {} /\ (k = "R" => s.rd = {}) THEN [s EXCEPT !.state = "RACY"]
  ELSE s

RtMoved(r, t, k) ==
  LET first  == RtReadShared(RtExclusive1(RtVirgin(r, t, k), t, k), t, k)
      second == RtExclusive2(RtSharedModified1(first, t, k), t, k)
  IN  RtSharedModified2(second, t, k)

\* ProcessRead and ProcessWrite.
RtAfter(t, k) ==
  IF rt.racy THEN rt
  ELSE LET r == RtMoved(rt, t, k)
       IN  ErSeen([r EXCEPT !.stop = FALSE, !.racy = (r.state = "RACY")], t, k)

\* The threads still in the set that have ever written, or read, are
\* reported.  The race of a write with a read is reported as one of two reads.
RtReports(t, k) ==
  LET others == {u \in Thread \ {t} : RtAfter(t, k).threads[u] # 0} IN
  IF rt.racy \/ ~RtAfter(t, k).racy THEN {}
  ELSE RacesWith(others \cap rt.writers, "W", t, k)
       \cup (IF k = "W" THEN RacesWith(others \cap rt.readers, "R", t, "R") ELSE {})

-----------------------------------------------------------------------------
(* Helgrind+.  clock, thd and kind are the segment of the meta. *)

HgOrdered(h, t) == HappensBefore(h.clock, vc[t])

\* The locks of t that protect an access of kind k.
HgLocks(t, k) == IF k = "R" THEN rls[t] ELSE wls[t]

HgExclusive(k) == IF k = "R" THEN "EXCLUSIVE_READ" ELSE "EXCLUSIVE_WRITE"

\* The segment becomes t's access.
HgSegment(h, t, k) == [h EXCEPT !.clock = vc[t], !.thd = t, !.kind = k]

\* ChangeStateExclusiveRead and ChangeStateExclusiveWrite: an ordered access is
\* the new segment (unless a thread changes its own from reading to writing or
\* back, which leaves everything as it was); of two concurrent reads the first
\* stays the segment; any other concurrent access is a race if it has no lock.
HgFromExclusive(h, t, k) ==
  LET reads == h.state = "EXCLUSIVE_READ" /\ k = "R" IN
  CASE HgOrdered(h, t) /\ (h.thd # t \/ reads) ->
         [HgSegment(h, t, k) EXCEPT !.state = HgExclusive(k)]
    [] HgOrdered(h, t) /\ h.thd = t /\ ~reads -> h
    [] ~HgOrdered(h, t) /\ reads ->
         IF h.thd = t THEN h
         ELSE [h EXCEPT !.state = "SHARED_READ", !.threads = {h.thd, t}, !.locks = @ \cup rls[t]]
    [] ~HgOrdered(h, t) /\ ~reads ->
         IF HgLocks(t, k) = {} THEN [h EXCEPT !.state = "RACE"]
         ELSE [HgSegment(h, t, k) EXCEPT
                 !.state = "SHARED_MODIFIED", !.threads = {t},
                 !.locks = (IF k = "R" THEN @ ELSE {}) \cup HgLocks(t, k)]

\* ChangeStateSharedRead.
HgFromSharedRead(h, t, k) ==
  LET s == [h EXCEPT !.locks = @ \cap HgLocks(t, k)] IN
  CASE k = "R" -> [s EXCEPT !.threads = @ \cup {t}]
    [] k = "W" /\ (s.locks # {} \/ HgOrdered(h, t)) -> [s EXCEPT !.state = "SHARED_MODIFIED"]
    [] OTHER -> IF h.thd = t THEN s ELSE [s EXCEPT !.state = "RACE"]

\* ChangeStateSharedModified.
HgFromSharedModified(h, t, k) ==
  LET s == [h EXCEPT !.locks = @ \cap HgLocks(t, k)] IN
  CASE s.locks # {} -> s
    [] s.locks = {} /\ HgOrdered(h, t) ->
         [HgSegment(s, t, k) EXCEPT !.state = HgExclusive(k), !.threads = {}]
    [] OTHER -> [s EXCEPT !.state = "RACE"]

\* UpdateMemoryState.
HgAfter(t, k) ==
  LET h == [hg EXCEPT !.lastop[t] = k] IN
  CASE hg.state = "NEW" -> [HgSegment(h, t, k) EXCEPT !.state = HgExclusive(k)]
    [] hg.state \in {"EXCLUSIVE_READ", "EXCLUSIVE_WRITE"} -> HgFromExclusive(h, t, k)
    [] hg.state = "SHARED_READ" -> HgFromSharedRead(h, t, k)
    [] hg.state = "SHARED_MODIFIED" -> HgFromSharedModified(h, t, k)
    [] hg.state = "RACE" -> hg

\* ProcessRead and ProcessWrite: only a write races with a read.
HgReports(t, k) ==
  IF hg.state # "RACE" /\ HgAfter(t, k).state = "RACE" /\ hg.thd # t /\ "W" \in {k, hg.kind}
  THEN {<<hg.thd, hg.kind, t, k>>} ELSE {}

\* AfterPthreadJoin: the child leaves; if one thread is left the unit is its own
\* again, and the segment is its last access with the clock it had.
HgJoined(c) ==
  LET h    == [hg EXCEPT !.threads = @ \ {c}, !.lastop[c] = NoArg]
      last == CHOOSE u \in h.threads : TRUE IN
  IF Cardinality(h.threads) # 1 \/ h.lastop[last] = NoArg THEN h
  ELSE [h EXCEPT !.state = HgExclusive(h.lastop[last]), !.threads = {}, !.locks = {},
                 !.thd = last, !.kind = h.lastop[last]]
=============================================================================
