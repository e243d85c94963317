------------------------------ MODULE AdhocMetas ------------------------------
(***************************************************************************)
(* The three analyses that look for synchronisation made with plain        *)
(* variables (adhoc_sync.cc, loop.cc, cond_wait.cc) and add the clock edge *)
(* the happens-before core misses:                                         *)
(*   "dynamic"   a read in a loop that has returned the same value         *)
(*               Threshold times and then another one is ordered after the *)
(*               last write of its address;                                *)
(*   "spin"      when a thread leaves a spinning read loop, it is ordered  *)
(*               after the write found concurrent with the loop's read;    *)
(*   "condwait"  when it leaves a loop around pthread_cond_wait it is      *)
(*               ordered after the signal, if the condition it read was    *)
(*               written under the same lock before that signal.           *)
(*                                                                         *)
(* All they know is in one record d (declared in AdhocDetector); the       *)
(* operators below are the functions of the three classes, from d to d.    *)
(* An instruction is its index in Text, 0 the null pointer; one file.      *)
(***************************************************************************)
EXTENDS Integers, FiniteSets, Sequences, SequencesExt

CONSTANTS
  Thread,            \* thread ids, positive as in the code
  Lock, Addr,
  Text,              \* the program's instructions, [op, line, arg, val, next, zero]
  Ranges,            \* loop_range_lines: <<first, last>>
  SpinLoops, CondLoops,   \* [first, last, end, conds]: the loop, where its
                          \* procedure ends, the lines of its conditions
  ExitLines,         \* first lines of the nodes that leave a loop
  Threshold,         \* THRESHOLD
  ReadMetaLen,       \* AdhocSync::rd_metas_len
  WriteMetaLen       \* WRITE_META_LEN

ASSUME ThreadIds == IsFiniteSet(Thread) /\ Thread \subseteq Nat \ {0}
ASSUME Lengths   == {Threshold, ReadMetaLen, WriteMetaLen} \subseteq Nat \ {0}

NoThread == 0
NoInst   == 0
Wild     == 0 - 1     \* an uninitialised pointer
None     == [none |-> TRUE]
Kind     == {"R", "W"}

Line(i)           == Text[i].line
InLoop(l, i)      == Line(i) \in l.first..l.last
OutLoop(l, i)     == Line(i) \in (l.last + 1)..l.end
Conds(loops)      == UNION {l.conds : l \in loops}

Clock            == [Thread -> Nat]
Zero             == [u \in Thread |-> 0]
Join(c, e)       == [u \in Thread |-> IF c[u] < e[u] THEN e[u] ELSE c[u]]
Increment(c, t)  == [c EXCEPT ![t] = @ + 1]
HappensBefore(c, e) == \A u \in Thread : c[u] <= e[u]

On(d, analysis) == analysis \in d.on

Crash(d) == [d EXCEPT !.crashed = TRUE]

-----------------------------------------------------------------------------
(* The race database, as far as the analyses use it. *)

Event(t, i, k) == [thd |-> t, inst |-> i, kind |-> k]
Race(e, f)     == [one |-> e, other |-> f, benign |-> FALSE]

\* A static race: the instructions, whichever the threads.
Static(e) == <<e.inst, e.kind>>

\* FindRacesByOneSide, and the status set by ProcessWriteReadSync: the races of
\* the write with reads in the loop become benign.
MarkBenign(races, e, loop) ==
  {IF \/ r.one = e /\ r.other.kind = "R" /\ InLoop(loop, r.other.inst)
      \/ r.other = e /\ r.one.kind = "R" /\ InLoop(loop, r.one.inst)
   THEN [r EXCEPT !.benign = TRUE] ELSE r : r \in races}

-----------------------------------------------------------------------------
(* "dynamic".  d.reads[t] are the thread's read metas, d.writes[a] the last *)
(* write of an address, whose clock is the writer's at that write.          *)

\* The loop that starts last before the line; it may end before it.  If all the
\* file's loops start later, the end of the table is dereferenced: the range is
\* whatever is there (astray).
InRange(i, astray) ==
  LET starts == {r \in Ranges : r[1] <= Line(i)} IN
  \/ \E r \in starts : (\A q \in starts : q[1] <= r[1]) /\ Line(i) <= r[2]
  \/ Ranges # {} /\ starts = {} /\ astray

ReadMeta(i, a, value, n) == [inst |-> i, addr |-> a, value |-> value, count |-> n, spin |-> FALSE]

AddReadMeta(reads, m) == Append(IF Len(reads) = ReadMetaLen THEN Tail(reads) ELSE reads, m)

Counted(m) == IF m.spin THEN m ELSE [m EXCEPT !.count = @ + 1, !.spin = @ \/ m.count + 1 = Threshold]

\* The index of the read meta of instruction i, 0 if there is none.
ReadIndex(reads, i) == IF \E k \in DOMAIN reads : reads[k].inst = i
                       THEN CHOOSE k \in DOMAIN reads : reads[k].inst = i ELSE 0

\* The reading thread t has seen the value change after it had been spinning:
\* the write it is ordered after, if there is one.
SyncsWith(d, t, i, a, value) ==
  LET k == ReadIndex(d.reads[t], i) IN
  /\ i \notin d.syncInsts /\ k # 0
  /\ d.reads[t][k].addr = a /\ d.reads[t][k].value # value
  /\ d.reads[t][k].spin
  /\ d.writes[a] = None \/ d.writes[a].thd # t

\* What becomes of the read metas otherwise.
ReadsAfter(d, t, i, a, value) ==
  LET reads == d.reads[t]
      k     == ReadIndex(reads, i) IN
  CASE i \in d.syncInsts -> reads
    [] i \notin d.syncInsts /\ k = 0 -> AddReadMeta(reads, ReadMeta(i, a, value, 0))
    [] i \notin d.syncInsts /\ k # 0 /\ reads[k].addr = a /\ reads[k].value = value ->
         [reads EXCEPT ![k] = Counted(@)]
    [] OTHER -> [reads EXCEPT ![k] = ReadMeta(i, a, value, 1)]

\* Mutant: the writer stays in its epoch.
JoinWriteOnly(clocks, w, t) == [clocks EXCEPT ![t] = Join(@, w.vc)]

\* The writer enters a new epoch, and the reader learns its clock at the write.
BuildWriteReadSync(clocks, w, t) ==
  [clocks EXCEPT ![w.thd] = Increment(@, w.thd), ![t] = Join(@, w.vc)]

\* ProcessAdhocRead and WriteReadSync.  (A value that was changed by a write
\* nobody recorded is looked up as a null pointer.)
AdhocRead(d, t, i, a, value, astray) ==
  LET w == d.writes[a] IN
  IF ~(On(d, "dynamic") /\ InRange(i, astray)) THEN d
  ELSE IF ~SyncsWith(d, t, i, a, value)
       THEN [d EXCEPT !.reads[t] = ReadsAfter(d, t, i, a, value)]
  ELSE IF w = None THEN Crash(d)
  ELSE [d EXCEPT !.syncInsts = @ \cup {i}, !.vc = BuildWriteReadSync(@, w, t)]

\* The races of the write with the reads of the address so far are removed from
\* races, once the read is processed.
AdhocForget(d, races, t, i, a, value, astray) ==
  LET w     == d.writes[a]
      insts == {m.inst : m \in {n \in ToSet(d.reads[t]) : n.addr = a}}
      gone(r) == \E j \in insts : {Static(r.one), Static(r.other)} = {<<w.inst, "W">>, <<j, "R">>} IN
  IF ~(On(d, "dynamic") /\ InRange(i, astray) /\ SyncsWith(d, t, i, a, value)) \/ w = None THEN races
  ELSE {r \in races : ~gone(r)}

AddOrUpdateWriteMeta(d, t, i, a) ==
  IF ~On(d, "dynamic") THEN d
  ELSE [d EXCEPT !.writes[a] = [inst |-> i, thd |-> t, vc |-> d.vc[t]]]

-----------------------------------------------------------------------------
(* "spin".  d.spin[t] is the SpinReadMeta of a thread that has read a       *)
(* condition and not yet left the loop; d.spinCall[t] the call made in a    *)
(* condition, whose reads count as the condition's.                         *)

SpinMeta(i, a) == [rd |-> i, addr |-> a, call |-> NoInst, wr |-> NoInst, wrthd |-> NoThread,
                   locked |-> FALSE]
NoCall == [inst |-> NoInst, flag |-> FALSE]

\* The loops of the condition at instruction i, or of the call it was read in.
LoopsOf(loops, i, call) ==
  LET there == {l \in loops : Line(i) \in l.conds} IN
  IF there # {} \/ call \in {NoInst, Wild} THEN there ELSE {l \in loops : Line(call) \in l.conds}

\* The thread's next instruction i shows that it has left the loop.
SpinLeft(l, i) ==
  i = NoInst \/ (InLoop(l, i) /\ Line(i) \in ExitLines) \/ OutLoop(l, i)

\* Mutant: the writer stays in its epoch.
JoinCurrentOnly(clocks, m, t) == [clocks EXCEPT ![t] = Join(@, clocks[m.wrthd])]

\* The thread learns the clock the writer has by now.  The writer enters a new
\* epoch, or will when it releases the lock that protects the write.
JoinWriter(clocks, m, t) ==
  LET joined == [clocks EXCEPT ![t] = Join(@, clocks[m.wrthd])] IN
  IF m.locked THEN joined ELSE [joined EXCEPT ![m.wrthd] = Increment(@, m.wrthd)]

\* ProcessSRLSync and LoopDB::ProcessWriteReadSync.  (Its branch for a loop that
\* only computes is not reached: ProcessSRLSync wants a writer.)
SpinSync(d, t, i) ==
  LET m == d.spin[t] IN
  IF ~On(d, "spin") \/ m = None THEN d
  ELSE IF m.wrthd = NoThread \/ \A l \in LoopsOf(SpinLoops, m.rd, m.call) : ~SpinLeft(l, i) THEN d
  ELSE LET l == CHOOSE x \in LoopsOf(SpinLoops, m.rd, m.call) : SpinLeft(x, i) IN
       [d EXCEPT !.vc = JoinWriter(@, m, t), !.spin[t] = None,
                 !.protected = IF m.locked THEN @ \cup {<<m.wrthd, d.vc[m.wrthd][m.wrthd]>>} ELSE @,
                 !.races = MarkBenign(@, Event(m.wrthd, m.wr, "W"), l)]

\* ProcessSRLRead, after the sync.
SpinRead(d, t, i, a) ==
  LET call == d.spinCall[t]
      m    == IF d.spin[t] = None THEN SpinMeta(i, a) ELSE [d.spin[t] EXCEPT !.rd = i, !.addr = a] IN
  IF ~On(d, "spin") \/ (Line(i) \notin Conds(SpinLoops) /\ ~call.flag) THEN d
  ELSE [d EXCEPT !.spin[t] = IF call.flag THEN [m EXCEPT !.call = call.inst] ELSE m]

\* ProcessSRLWrite: a loop that writes what it reads, or writes in a called
\* function, does not spin.
SpinWrite(d, t, a) ==
  LET valid == ~d.spinCall[t].flag /\ d.spin[t].addr # a IN
  IF ~On(d, "spin") \/ d.spin[t] = None \/ valid THEN d
  ELSE [d EXCEPT !.spin[t] = None, !.spinCall[t] = NoCall]

\* The concurrent writer u found by a read or write check: the last one counts.
SpinWriter(d, t, u, i, common) ==
  IF ~On(d, "spin") \/ d.spin[t] = None THEN d
  ELSE [d EXCEPT !.spin[t] = [d.spin[t] EXCEPT !.wrthd = u, !.wr = i, !.locked = @ \/ common]]

-----------------------------------------------------------------------------
(* "condwait".  d.stack[t] are the locks a thread has taken, as this        *)
(* analysis believes; d.signals[t] its LockSignalMetas: the clock at the    *)
(* first of some writes, the writes under each lock, whether a signal has   *)
(* followed (active), whether the lock is still to be released (unlock),    *)
(* whether a waiter is done with it (expired).  d.cw[t] is the CondWaitMeta *)
(* of a thread that has read a condition; it points to a signal meta, named *)
(* by its owner and its clock.                                              *)

Writes(l, a) == [lock |-> l, addrs |-> <<a>>]
SignalMeta(c, l, a) == [vc |-> c, writes |-> <<Writes(l, a)>>, active |-> FALSE,
                        unlock |-> FALSE, expired |-> FALSE]

\* LockWritesMeta::AddWriteMeta keeps one more than the length.
AddWriteMeta(w, a) ==
  [w EXCEPT !.addrs = Append(IF Len(@) > WriteMetaLen THEN Tail(@) ELSE @, a)]

Write(m, l, a) ==
  IF Last(m.writes).lock = l THEN [m EXCEPT !.writes[Len(m.writes)] = AddWriteMeta(@, a)]
  ELSE [m EXCEPT !.writes = Append(@, Writes(l, a))]

\* AddLockSignalWriteMeta: writes between the signal and the unlock are ignored.
SignalWrite(d, t, a) ==
  LET metas == d.signals[t]
      l     == Last(d.stack[t])
      fresh == SignalMeta(d.vc[t], l, a) IN
  IF ~On(d, "condwait") \/ d.stack[t] = << >> THEN d
  ELSE [d EXCEPT !.wrote = @ \cup {t}, !.signals[t] =
          IF metas = << >> THEN <<fresh>>
          ELSE IF Last(metas).vc = d.vc[t] THEN Front(metas) \o <<Write(Last(metas), l, a)>>
          ELSE IF Last(metas).unlock THEN metas
          ELSE (IF Last(metas).expired THEN Front(metas) ELSE metas) \o <<fresh>>]

\* ActiveLockSignalMeta.
SignalActive(d, t) ==
  IF ~On(d, "condwait") \/ d.signals[t] = << >> THEN d
  ELSE [d EXCEPT !.signals[t] =
          Front(@) \o <<[Last(@) EXCEPT !.active = TRUE, !.unlock = TRUE]>>]

PopLock(d, t) ==
  IF d.stack[t] = << >> THEN Crash(d) ELSE [d EXCEPT !.stack[t] = Front(@)]

\* RemoveUnactivedLockWritesMeta: without a signal the writes under the lock are
\* forgotten.  A thread that has never written under a lock keeps its stack, and
\* so does one whose last writes were under another lock.
SignalUnlock(d, t, l) ==
  LET metas == d.signals[t]
      m     == Last(metas) IN
  CASE ~On(d, "condwait") \/ t \notin d.wrote -> d
    [] On(d, "condwait") /\ t \in d.wrote /\ metas = << >> -> PopLock(d, t)
    [] On(d, "condwait") /\ metas # << >> /\ m.active ->
         PopLock([d EXCEPT !.signals[t] = Front(metas) \o <<[m EXCEPT !.unlock = FALSE]>>], t)
    [] On(d, "condwait") /\ metas # << >> /\ ~m.active /\ Last(m.writes).lock # l -> d
    [] OTHER ->
         PopLock([d EXCEPT !.signals[t] =
                    IF Len(m.writes) = 1 THEN Front(metas)
                    ELSE Front(metas) \o <<[m EXCEPT !.writes = Front(@)]>>], t)

Matches(m, c, a, l) ==
  /\ m.active /\ ~HappensBefore(m.vc, c)
  /\ \E k \in DOMAIN m.writes : m.writes[k].lock = l /\ a \in ToSet(m.writes[k].addrs)

\* CorrespondingLockSignalMeta walks the threads' metas until one matches (the
\* place <<thread, index>> of the first), and deletes the expired on its way.
Before(p, q) == p[1] < q[1] \/ (p[1] = q[1] /\ p[2] < q[2])
Corresponding(d, t, a, l) ==
  {p \in UNION {{u} \X DOMAIN d.signals[u] : u \in Thread} :
     ~d.signals[p[1]][p[2]].expired /\ Matches(d.signals[p[1]][p[2]], d.vc[t], a, l)}
FirstOf(places) == CHOOSE p \in places : \A q \in places \ {p} : Before(p, q)

RemoveExpired(d, places) ==
  [d EXCEPT !.signals = [u \in Thread |->
     LET metas == @[u]
         kept  == {k \in DOMAIN metas : \/ ~metas[k].expired
                                        \/ places # {} /\ Before(FirstOf(places), <<u, k>>)}
     IN  [n \in 1..Cardinality(kept) |->
            metas[CHOOSE k \in kept : Cardinality({j \in kept : j < k}) = n - 1]]]]

\* ProcessCondWaitRead.  AddCondWaitMeta asserts that the thread has no meta yet;
\* without assertions the new one takes its place.  A thread that has made no
\* call in a condition gets an entry for one, which nobody initialises: its
\* flag is as found.
CondWaitRead(d, t, i, a, found) ==
  LET l      == Last(d.stack[t])
      places == Corresponding(d, t, a, l)
      p      == FirstOf(places)
      call   == IF d.cwCall[t] = None THEN [inst |-> Wild, flag |-> found] ELSE d.cwCall[t]
      meta   == [owner |-> p[1], vc |-> d.signals[p[1]][p[2]].vc, rd |-> i, call |-> call.inst]
      asked  == Line(i) \in Conds(CondLoops) \/ (d.cwCall[t] # None /\ d.cwCall[t].flag) IN
  IF ~On(d, "condwait") \/ d.stack[t] = << >> \/ ~asked THEN d
  ELSE IF places = {} THEN RemoveExpired(d, places)
  ELSE [RemoveExpired(d, places) EXCEPT !.cw[t] = meta, !.cwCall[t] = call]

\* The place of the meta a waiter points to; there is none if it was deleted.
PlaceOf(d, w) == {k \in DOMAIN d.signals[w.owner] : d.signals[w.owner][k].vc = w.vc}

\* The waiter is done with the meta it points to.
Expire(d, t) ==
  LET w == d.cw[t] IN
  IF PlaceOf(d, w) = {} THEN Crash(d)
  ELSE LET k == CHOOSE k \in PlaceOf(d, w) : TRUE IN
       [d EXCEPT !.signals[w.owner][k].expired = TRUE, !.cw[t] = None]

\* Mutant: the thread learns the clock the signaller has by now.
LearnCurrent(d, t) == [d EXCEPT !.vc[t] = Join(@, d.vc[d.cw[t].owner])]

\* The thread learns the signaller's clock at the write.
LearnSignal(d, t) == [d EXCEPT !.vc[t] = Join(@, d.cw[t].vc)]

\* ProcessCWLSync and ProcessSignalCondWaitSync.  A thread that exits (NoInst)
\* needs no loop, but an uninitialised call is dereferenced all the same.
CondWaitSync(d, t, i) ==
  LET w     == d.cw[t]
      loops == LoopsOf(CondLoops, w.rd, w.call) IN
  IF ~On(d, "condwait") \/ w = None THEN d
  ELSE IF loops = {} /\ (i # NoInst \/ w.call = Wild) THEN Crash(d)
  ELSE IF i = NoInst \/ \E l \in loops : OutLoop(l, i) THEN Expire(LearnSignal(d, t), t)
  ELSE d

\* RemoveCondWaitMeta.
CondWaitForget(d, t) ==
  IF ~On(d, "condwait") \/ d.cw[t] = None THEN d ELSE Expire(d, t)

\* ProcessCWLCalledFuncWrite compares with the address of the meta, which nobody
\* sets: it is the one written or it is not, as found.
CondWaitWrite(d, t, found) ==
  IF ~On(d, "condwait") \/ d.cwCall[t] = None \/ d.cw[t] = None \/ ~found THEN d
  ELSE IF ~d.cwCall[t].flag THEN d
  ELSE CondWaitForget([d EXCEPT !.cwCall[t] = NoCall], t)
=============================================================================
