------------------------------ MODULE VerifierRace ------------------------------
(***************************************************************************)
(* What a verification finds (src/src/race/verifier.cpp, verifier_ml.cpp,  *)
(* potential_race.h).  Module VerifierSched leaves it free which postponed *)
(* threads race with an arriving one and which statements are then done;   *)
(* here both follow from the database of potential races, the snapshots of *)
(* earlier accesses, the threads' clocks and their locksets, in the        *)
(* multi-lock verifier VerifierMl.                                         *)
(*                                                                         *)
(* An access touches one memory unit, as every aligned access of at most   *)
(* unit_size_ bytes does.  Then the loop over the matching first           *)
(* statements has one pass that does anything: it leaves a snapshot by     *)
(* which the later passes take the access to be redundant.                 *)
(***************************************************************************)
EXTENDS VerifierSched, MemBug, Sequences

CONSTANTS
  PStmt,           \* statements of the potential-race database
  PotentialPairs,  \* the database as loaded: sets of one or two statements
  Inst,            \* instructions that reach the verifier
  StmtOf, TypeOf,  \* the statement and the kind ("R", "W") of each
  Unit,            \* memory units
  Rwlock,          \* the program's rwlock, as a member of locksets
  SnapLen,         \* ss_deq_len
  HistoryAnalysis, \* the knob history_race_analysis
  HarmfulAnalysis  \* and harmful_race_analysis

ASSUME PairsAssumption ==
  \A p \in PotentialPairs : \E r, s \in PStmt : p = {r, s}
ASSUME InstAssumption  == StmtOf \in [Inst -> PStmt] /\ TypeOf \in [Inst -> {"R", "W"}]
ASSUME SomeAssumption  == Inst # {} /\ Unit # {}
ASSUME LockAssumption  == Rwlock \notin Mutex
ASSUME SnapAssumption  == SnapLen \in Nat \ {0}
ASSUME KnobAssumption  == HistoryAnalysis \in BOOLEAN /\ HarmfulAnalysis \in BOOLEAN

VARIABLES
  at,             \* the instruction and the unit of the access a thread is in
  pairs,          \* PRaceDB::pstmt_map_: the pairs still to be verified
  accessed,       \* the keys of pstmt_metas_map_
  stmtMetas,      \* the units each of them names
  ppUnits, hist,  \* the units in thd_ppmetas_map_, thd_metas_map_
  snaps,          \* Meta::meta_ss_map
  raced,          \* Meta::raced_inst_pair_set, and what was reported
  vc, parent,     \* thd_vc_map_; who created a thread
  ls, rdls,       \* thd_ls_map_, thd_rdls_map_
  usedFreed,      \* a freed set of metas was written to
  trace, hb       \* each thread's accesses, and how many happen before now

metaVars  == <<accessed, stmtMetas, usedFreed>>
unitVars  == <<ppUnits, hist>>
foundVars == <<pairs, snaps, raced>>
clockVars == <<vc, parent, hb>>
lsVars    == <<ls, rdls>>
allVars   == <<vars, at, metaVars, unitVars, foundVars, clockVars, lsVars, trace>>

Lock     == Mutex \cup {Rwlock}
Clock    == [Thread -> Nat]
Zero     == [u \in Thread |-> 0]
Snapshot == [inst : Inst, clk : Nat, wr : SUBSET Lock, rd : SUBSET Lock]
Visit    == [inst : Inst, unit : Unit, wr : SUBSET Lock, rd : SUBSET Lock]

VTypeOK ==
  /\ at \in [Thread -> Inst \X Unit]
  /\ pairs \subseteq PotentialPairs
  /\ accessed \subseteq PStmt
  /\ stmtMetas \in [PStmt -> SUBSET Unit]
  /\ \A s \in PStmt \ accessed : stmtMetas[s] = {}
  /\ ppUnits \in [Thread -> SUBSET Unit] /\ hist \in [Thread -> SUBSET Unit]
  /\ ppmetas = {t \in Thread : ppUnits[t] # {}}
  /\ snaps \in [Unit -> [Thread -> Seq(Snapshot)]]
  /\ \A x \in Unit, t \in Thread : Len(snaps[x][t]) <= SnapLen
  /\ raced \in [Unit -> SUBSET {{i, j} : i, j \in Inst}]
  /\ vc \in [Thread -> Clock] /\ parent \in [Thread -> Thread] /\ hb \in [Thread -> Clock]
  /\ ls \in [Thread -> SUBSET Lock] /\ rdls \in [Thread -> SUBSET {Rwlock}]
  /\ usedFreed \in BOOLEAN
  /\ trace \in [Thread -> Seq(Visit)]

VInit ==
  /\ Init
  /\ at \in [Thread -> {CHOOSE p \in Inst \X Unit : TRUE}]
  /\ pairs = PotentialPairs
  /\ accessed = {} /\ stmtMetas = [s \in PStmt |-> {}]
  /\ ppUnits = [t \in Thread |-> {}] /\ hist = [t \in Thread |-> {}]
  /\ snaps = [x \in Unit |-> [t \in Thread |-> << >>]]
  /\ raced = [x \in Unit |-> {}]
  /\ vc = [t \in Thread |-> Zero] /\ parent = [t \in Thread |-> t]
  /\ hb = [t \in Thread |-> Zero]
  /\ ls = [t \in Thread |-> {}] /\ rdls = [t \in Thread |-> {}]
  /\ usedFreed = FALSE
  /\ trace = [t \in Thread |-> << >>]

-----------------------------------------------------------------------------
(* Clocks and locksets.  The mutex and rwlock callbacks of VerifierMl leave  *)
(* the clocks alone.  A lockset is touched and read by its own thread only,  *)
(* so the change that precedes an unlock is made with it.                   *)

Join(c, d)      == [u \in Thread |-> IF c[u] < d[u] THEN d[u] ELSE c[u]]
Increment(c, t) == [c EXCEPT ![t] = @ + 1]
Learn(t, h)     == hb' = [hb EXCEPT ![t] = Join(@, h)]

VCreate(t, c) ==
  /\ Create(t, c)
  /\ parent' = [parent EXCEPT ![c] = t]
  /\ Learn(c, hb[t])
  /\ UNCHANGED <<at, metaVars, unitVars, foundVars, vc, lsVars, trace>>

\* The parent is looked up before the handler runs.  One that has exited by then
\* is not found: the tool dereferences null, and there is no step.
VThreadStart(t) ==
  LET p == parent[t] IN
  /\ ThreadStart(t)
  /\ vc' = IF t = Main THEN [vc EXCEPT ![t] = Increment(Zero, t)]
           ELSE [vc EXCEPT ![t] = Join(Increment(Zero, t), vc[p]), ![p] = Increment(@, p)]
  /\ UNCHANGED <<at, metaVars, unitVars, foundVars, parent, hb, lsVars, trace>>

VRealJoin(t) ==
  /\ RealJoin(t)
  /\ Learn(t, hb[arg[t]])
  /\ UNCHANGED <<at, metaVars, unitVars, foundVars, vc, parent, lsVars, trace>>

VAfterPthreadJoin(t) ==
  /\ AfterPthreadJoin(t)
  /\ vc' = [vc EXCEPT ![t] = Increment(Join(@, vc[arg[t]]), t)]
  /\ UNCHANGED <<at, metaVars, unitVars, foundVars, parent, hb, lsVars, trace>>

ProcessPostMutexLock(t) ==
  /\ AfterPthreadMutexLock(t)
  /\ ls' = [ls EXCEPT ![t] = @ \cup {arg[t]}]
  /\ UNCHANGED <<at, metaVars, unitVars, foundVars, clockVars, rdls, trace>>

ProcessPreMutexUnlock(t, m) ==
  /\ RealMutexUnlock(t, m)
  /\ ls' = [ls EXCEPT ![t] = @ \ {m}]
  /\ UNCHANGED <<at, metaVars, unitVars, foundVars, clockVars, rdls, trace>>

ProcessPostRwlockRdlock(t) ==
  /\ AfterPthreadRwlockRdlock(t)
  /\ rdls' = [rdls EXCEPT ![t] = @ \cup {Rwlock}]
  /\ UNCHANGED <<at, metaVars, unitVars, foundVars, clockVars, ls, trace>>

ProcessPostRwlockWrlock(t) ==
  /\ AfterPthreadRwlockWrlock(t)
  /\ ls' = [ls EXCEPT ![t] = @ \cup {Rwlock}]
  /\ UNCHANGED <<at, metaVars, unitVars, foundVars, clockVars, rdls, trace>>

\* Mutant: the read lockset is forgotten.
PreRwlockUnlockKeepsReader(t) ==
  /\ RealRwlockUnlock(t)
  /\ ls' = [ls EXCEPT ![t] = @ \ {Rwlock}]
  /\ UNCHANGED <<at, metaVars, unitVars, foundVars, clockVars, rdls, trace>>

ProcessPreRwlockUnlock(t) ==
  /\ RealRwlockUnlock(t)
  /\ ls' = [ls EXCEPT ![t] = @ \ {Rwlock}]
  /\ rdls' = [rdls EXCEPT ![t] = @ \ {Rwlock}]
  /\ UNCHANGED <<at, metaVars, unitVars, foundVars, clockVars, trace>>

-----------------------------------------------------------------------------
(* An access.  Stmt(t), Where(t): what thread t is at. *)

Stmt(t)  == StmtOf[at[t][1]]
Where(t) == at[t][2]
Writes(i) == TypeOf[i] = "W"

VBeforeMem(t) ==
  /\ BeforeMem(t)
  /\ \E i \in Inst, x \in Unit :
       /\ at' = [at EXCEPT ![t] = <<i, x>>]
       /\ trace' = [trace EXCEPT ![t] = Append(@,
            [inst |-> i, unit |-> x,
             wr |-> {m \in Mutex : realHolder[m] = t} \cup {l \in {Rwlock} : realWriter = t},
             rd |-> {l \in {Rwlock} : t \in realReaders}])]
  /\ hb' = [hb EXCEPT ![t][t] = @ + 1]
  /\ UNCHANGED <<metaVars, unitVars, foundVars, vc, parent, lsVars>>

\* The statements recorded before that form a potential race with t's.
FirstStmts(t) == {f \in accessed : {f, Stmt(t)} \in pairs}

\* One of t's last five snapshots of the unit is of this instruction and epoch.
RecentMetaSnapshot(t) ==
  LET s == snaps[Where(t)][t] IN
  \E k \in 1..Len(s) : k + 5 > Len(s) /\ s[k].inst = at[t][1] /\ s[k].clk = vc[t][t]

\* The oldest snapshot makes room for the new one.
AddMetaSnapshot(t) ==
  LET s   == snaps[Where(t)][t]
      new == [inst |-> at[t][1], clk |-> vc[t][t], wr |-> ls[t], rd |-> rdls[t]] IN
  snaps' = [snaps EXCEPT ![Where(t)][t] =
              Append(IF Len(s) = SnapLen THEN Tail(s) ELSE s, new)]

Latest(x, u) == snaps[x][u][Len(snaps[x][u])]

\* Mutant: a statement is done with its first race.
HasFullyVerifiedOnce(s, db) == db # PotentialPairs

HasFullyVerified(s, db) == \A p \in db : s \notin p

\* What becomes of the units when the postponed accesses of t are over.
Follow(t) ==
  IF t \in ppmetas' THEN UNCHANGED unitVars
  ELSE /\ ppUnits' = [ppUnits EXCEPT ![t] = {}]
       /\ hist' = [hist EXCEPT ![t] = @ \cup ppUnits[t]]

\* The steps of a memory access in which nothing is found.
VPass(t) ==
  /\ \/ ChooseRandomThreadBeforeProcess(t) \/ WakeUpOne(t) \/ WakeUpDone(t)
     \/ KeepupThread(t) \/ PostponeThread(t) \/ TakePermit(t) \/ TimeOut(t) \/ AfterWait(t)
  /\ Follow(t)
  /\ UNCHANGED <<at, metaVars, foundVars, clockVars, lsVars, trace>>

RecordFirst(t) ==
  /\ FirstStmts(t) = {}
  /\ accessed' = accessed \cup {Stmt(t)}
  /\ stmtMetas' = [stmtMetas EXCEPT ![Stmt(t)] = @ \cup {Where(t)}]
  /\ UNCHANGED <<at, usedFreed, hist, pairs, raced, clockVars, lsVars, trace>>

\* A first statement: it is recorded and the thread postponed ...
AccessFirst(t) ==
  /\ RecordAndPostpone(t)
  /\ ~RecentMetaSnapshot(t)
  /\ RecordFirst(t)
  /\ ppUnits' = [ppUnits EXCEPT ![t] = @ \cup {Where(t)}]
  /\ AddMetaSnapshot(t)

\* ... but only once in an epoch.
AccessFirstAgain(t) ==
  /\ LeaveRegion(t)
  /\ RecentMetaSnapshot(t)
  /\ RecordFirst(t)
  /\ UNCHANGED <<ppUnits, snaps>>

\* A second statement that has been through this before.
AccessSecondAgain(t) ==
  /\ LeaveRegion(t)
  /\ FirstStmts(t) # {} /\ RecentMetaSnapshot(t)
  /\ UNCHANGED <<at, metaVars, unitVars, foundVars, clockVars, lsVars, trace>>

-----------------------------------------------------------------------------
(* A second statement: WaitVerificationAndHistoryDetection for t at a        *)
(* statement s, f being the first statement of the pass that counts.        *)

\* Mutant: the metas of past accesses count as postponed.
WaitingInHistory(x) == {u \in Thread : x \in ppUnits[u] \cup hist[u]}

\* The postponed threads with the unit among their metas.
WaitingAt(x) == {u \in pp : x \in ppUnits[u]}

\* Those of them that wait at statement f, and race with t.
RacingWith(t, f) ==
  {u \in WaitingAt(Where(t)) :
     LET i == Latest(Where(t), u).inst IN
     /\ StmtOf[i] = f
     /\ {i, at[t][1]} \notin raced[Where(t)]
     /\ Writes(i) \/ Writes(at[t][1])}

\* Of the threads at one instruction only the first one found counts: then the
\* pair of instructions is known.
FoundOf(racing, x) ==
  {R \in SUBSET racing :
     \A u \in racing : Cardinality({w \in R : Latest(x, w).inst = Latest(x, u).inst}) = 1}

\* The threads that should go later, of those in R and t: module MemBug.
Harmful(R, t) ==
  LET access(u, i) == [thd |-> u, stmt |-> StmtOf[i], write |-> Writes(i)]   x == Where(t) IN
  IF ~HarmfulAnalysis THEN {}
  ELSE UNION {ProcessHarmfulRace(x, access(u, Latest(x, u).inst), access(t, at[t][1])) : u \in R}

Disjoint(a, b) == a \cap b = {}

\* Mutant: two writes are not checked for a common lock.
HistoryRaceUnlocked(snap, u, t) ==
  /\ snap.clk > vc[t][u]
  /\ \/ Writes(snap.inst) /\ Writes(at[t][1])
     \/ /\ Writes(snap.inst) # Writes(at[t][1])
        /\ Disjoint(snap.wr, ls[t]) /\ Disjoint(snap.wr, rdls[t]) /\ Disjoint(snap.rd, ls[t])

\* VerifierMl: a past access of u in an epoch t does not know of, without a
\* common lock.  Of two writes the read locks do not count.
HistoryRace(snap, u, t) ==
  /\ snap.clk > vc[t][u]
  /\ Disjoint(snap.wr, ls[t])
  /\ \/ Writes(snap.inst) /\ Writes(at[t][1])
     \/ /\ Writes(snap.inst) # Writes(at[t][1])
        /\ Disjoint(snap.wr, rdls[t]) /\ Disjoint(snap.rd, ls[t])

\* The instructions of the unit's history that race with t, beside those known.
HistoryRaces(t, known) ==
  IF ~HistoryAnalysis THEN {}
  ELSE {i \in Inst :
          /\ {i, at[t][1]} \notin known
          /\ \E u \in Thread \ {t} :
               /\ Where(t) \in hist[u]
               /\ \E k \in 1..Len(snaps[Where(t)][u]) :
                    /\ snaps[Where(t)][u][k].inst = i
                    /\ HistoryRace(snaps[Where(t)][u][k], u, t)}

\* What thread t does after its verification: done are the threads that need not
\* wait any more, harmful those that should go later, and selfDone tells whether
\* t's own statement is fully verified.
Decide(t, done, harmful, selfDone, noneShared) ==
  IF done # {} \/ harmful # {} \/ selfDone
  THEN /\ Goto(t, "wakeall")
       /\ wake' = [wake EXCEPT ![t] = done \ harmful]
       /\ \E coin \in BOOLEAN :
            next' = [next EXCEPT ![t] =
              IF t \notin harmful /\ (coin \/ selfDone) THEN "keepup" ELSE "postpone"]
  ELSE /\ Goto(t, IF noneShared THEN "keepup" ELSE "postpone")
       /\ UNCHANGED <<wake, next>>

\* Mutant: a statement's race with itself stays in the database.
RemainingSelf(db, found) == db \ {p \in found : Cardinality(p) = 2}

\* RemoveRelationMapping, for all the pairs of statements found racy.
Remaining(db, found) == db \ found

\* The keys of pstmt_metas_map_ after the verification of statement s.  The
\* sets in freed are gone; but a pass for another first statement looks its set
\* up with operator[], which makes a null entry, and creates that of s anew.
LaterPasses(s, freed, others) ==
  accessed' = ((accessed \cup {s}) \ freed) \cup (others \cap freed)
                 \cup (IF others = {} THEN {} ELSE {s})

Verify(t) ==
  LET x == Where(t)   i == at[t][1]   s == Stmt(t)   firsts == FirstStmts(t) IN
  /\ pc[t] = "region"
  /\ ~RecentMetaSnapshot(t)
  /\ \E f \in firsts :
       LET shared == x \in stmtMetas[f] IN
       \E R \in IF shared THEN FoundOf(RacingWith(t, f), x) ELSE {{}} :
         LET waitFound == {{Latest(x, u).inst, i} : u \in R}
             past      == IF shared THEN HistoryRaces(t, raced[x] \cup waitFound) ELSE {}
             pairs1    == Remaining(pairs, {{StmtOf[j], s} : j \in past})
             pairs2    == Remaining(pairs1, {p \in {{f, s}} : R # {}})
             freed1    == {q \in {StmtOf[j] : j \in past} \cup {p \in {s} : past # {}} :
                             HasFullyVerified(q, pairs1)}
             freed     == freed1 \cup {q \in {f, s} : R # {} /\ HasFullyVerified(q, pairs2)}
             selfDone  == R # {} /\ HasFullyVerified(s, pairs2)
             done      == IF HasFullyVerified(f, pairs2) THEN R ELSE {} IN
         /\ raced' = [raced EXCEPT ![x] = @ \cup waitFound \cup {{j, i} : j \in past}]
         /\ pairs' = pairs2
         /\ usedFreed' = (usedFreed \/ s \in freed1)
         /\ stmtMetas' = [q \in PStmt |-> IF q \in freed THEN {}
                                         ELSE IF q = s THEN stmtMetas[q] \cup {x}
                                         ELSE stmtMetas[q]]
         /\ LaterPasses(s, freed, firsts \ {f})
         /\ Decide(t, done, Harmful(R, t), selfDone,
                   firsts = {f} /\ (~shared \/ WaitingAt(x) = {}))
  /\ AddMetaSnapshot(t)
  /\ ppmetas' = ppmetas \cup {t}
  /\ ppUnits' = [ppUnits EXCEPT ![t] = @ \cup {x}]
  /\ UNCHANGED <<arg, left, verify_lock_, setVars, smpVars, syncVars, crashed, at,
                 hist, clockVars, lsVars, trace>>

-----------------------------------------------------------------------------
VSync(t) ==
  \/ \E c \in Thread : VCreate(t, c)
  \/ VThreadStart(t) \/ VRealJoin(t) \/ VAfterPthreadJoin(t)
  \/ ProcessPostMutexLock(t) \/ \E m \in Mutex : ProcessPreMutexUnlock(t, m)
  \/ ProcessPostRwlockRdlock(t) \/ ProcessPostRwlockWrlock(t) \/ ProcessPreRwlockUnlock(t)

\* The callbacks, and the steps of pthread, that touch none of the tables.
VOther(t) ==
  /\ \/ ThreadExit(t) \/ \E c \in Thread : BeforePthreadJoin(t, c)
     \/ \E m \in Mutex : BeforePthreadMutexLock(t, m)
     \/ RealMutexLock(t) \/ AfterPthreadMutexUnlock(t)
     \/ \E there \in {"rdLocking", "rdTrying"} : BeforePthreadRwlockRdlock(t, there)
     \/ \E there \in {"wrLocking", "wrTrying"} : BeforePthreadRwlockWrlock(t, there)
     \/ RealRwlockRdlock(t) \/ RealRwlockWrlock(t) \/ RealRwlockTryFail(t)
     \/ AfterTryFailed(t) \/ AfterPthreadRwlockUnlock(t)
  /\ UNCHANGED <<at, metaVars, unitVars, foundVars, clockVars, lsVars, trace>>

VAccess(t) ==
  \/ VBeforeMem(t) \/ VPass(t)
  \/ AccessFirst(t) \/ AccessFirstAgain(t) \/ AccessSecondAgain(t) \/ Verify(t)

VNext == ~crashed /\ \E t \in Thread : VSync(t) \/ VOther(t) \/ VAccess(t)

VSpec == VInit /\ [][VNext]_allVars

-----------------------------------------------------------------------------
(* Properties. *)

\* Whatever the database, the snapshots, the clocks and the locksets say, the
\* threads move only as the scheduler of module VerifierSched may move them:
\* its free choices cover every verdict, and its properties hold here too.
ImplementsScheduler == Spec

\* Between two calls, the locksets of a thread are the locks it holds.
LockSetSound ==
  \A t \in Thread : pc[t] \in {"run", "choose"} \cup RegionPC \cup PpPC =>
    /\ ls[t] = {m \in Mutex : realHolder[m] = t} \cup {l \in {Rwlock} : realWriter = t}
    /\ rdls[t] = {l \in {Rwlock} : t \in realReaders}

\* Two accesses that no lock keeps apart; of two writes read locks do not count.
Unprotected(a, b) ==
  IF Writes(a.inst) /\ Writes(b.inst) THEN Disjoint(a.wr, b.wr)
  ELSE Disjoint(a.wr, b.wr \cup b.rd) /\ Disjoint(a.rd, b.wr)

\* Every race that is reported, of a postponed thread or of the history, is one:
\* another thread has made, or is about to make, a conflicting access to the
\* unit that creation and join do not order before the arriving thread's, and
\* no lock protects the two.
ReportsSound ==
  [][\A x \in Unit : \A p \in raced'[x] \ raced[x] :
       \E t, u \in Thread :
         /\ t # u /\ pc[t] = "region"
         /\ \E k \in 1..Len(trace[u]) :
              LET a == trace[u][k]   b == trace[t][Len(trace[t])] IN
              /\ k > hb[t][u]
              /\ a.unit = x /\ b.unit = x /\ p = {a.inst, b.inst}
              /\ Writes(a.inst) \/ Writes(b.inst)
              /\ Unprotected(a, b)]_allVars

\* The database forgets a pair of statements when a race between them is
\* reported, and only then.
DatabaseInv ==
  pairs = PotentialPairs \ UNION {{{StmtOf[i] : i \in p} : p \in raced[x]} : x \in Unit}

\* A thread that is postponed at a statement with pairs left can be found by the
\* other half of the pair: its unit is among the statement's metas and its own,
\* and its latest snapshot is of the access it waits at.
WaitingFindable ==
  \A t \in Thread :
    pc[t] \in PpPC /\ (\E p \in pairs : Stmt(t) \in p) =>
      /\ Where(t) \in stmtMetas[Stmt(t)] /\ Where(t) \in ppUnits[t]
      /\ Latest(Where(t), t).inst = at[t][1]

\* No set of metas is used after it has been freed.
FreedMetasUnused == ~usedFreed

\* A statement is compared with every first statement that matches it: a thread
\* that waits at the other half of an arriving thread's pair is not passed over.
AllMatchedCompared ==
  [][\A t \in Thread : pc[t] = "region" /\ pc'[t] \in {"wakeall", "keepup", "postpone"} =>
       \A u \in WaitingAt(Where(t)) :
         /\ Stmt(u) \in FirstStmts(t)
         /\ at[u][2] = Where(t)
         /\ Writes(at[u][1]) \/ Writes(at[t][1])
         => {at[u][1], at[t][1]} \in raced'[Where(t)]]_allVars
=============================================================================
