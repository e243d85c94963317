--------------------------- MODULE ParallelVerifier ---------------------------
(***************************************************************************)
(* The parallel verifier (src/src/race/parallel_verifier_ml.cpp, .h; the    *)
(* loops of its threads in src/src/race/profiler.cpp).                      *)
(*                                                                         *)
(* An access pushes a request and postpones its thread at once.  The        *)
(* verification thread serves the requests one by one: it compares them     *)
(* with the threads that are postponed, wakes threads, and hands the        *)
(* comparison with the past to history threads, each with a queue of its    *)
(* own.  The clock and the locksets of a request, its sync object, are      *)
(* shared by all of them; markers at the end of the queues tell when the    *)
(* last one is done with it.                                               *)
(*                                                                         *)
(* The scheduling of the program's own threads is that of VerifierSched,    *)
(* but for the access.  internal_lock_ protects the thread sets, the        *)
(* database and the history; the thread's status and the metas of its       *)
(* requests are touched without it, so the verification thread is split     *)
(* wherever another thread can see or change them.  Pushing and popping a   *)
(* history queue counts as one step, though the code takes no lock there.   *)
(* An access touches one unit.                                             *)
(***************************************************************************)
EXTENDS VerifierSched, Sequences

CONSTANTS
  Inst,            \* instructions
  Code,            \* those that each thread may execute
  StmtOf, TypeOf,  \* their statements and kinds ("R", "W")
  NoStmt,          \* the statement of those the database does not name
  PotentialPairs,  \* the database as loaded
  Unit,            \* memory units, numbered
  Rwlock,          \* the rwlock, as a member of locksets
  NumQueues,       \* prl_vrf_num_: history threads, if positive
  SnapLen          \* ss_deq_len

ASSUME InstAssumption   == DOMAIN StmtOf = Inst /\ TypeOf \in [Inst -> {"R", "W"}]
ASSUME CodeAssumption   == Code \in [Thread -> SUBSET Inst]
ASSUME UnitAssumption   == Unit \subseteq Nat
\* SyncObject counts its markers in 8 bits.
ASSUME QueuesAssumption == NumQueues \in Int /\ NumQueues < 256 /\ SnapLen \in Nat \ {0}
ASSUME LockAssumption   == Rwlock \notin Mutex

VARIABLES
  status,            \* ThreadLocalStore::status
  ppUnits, hyUnits,  \* ThreadLocalStore::pp_metas, hy_metas
  stmtMetas,         \* ThreadLocalStore::pstmt_metas_map
  vc, ls, rdls,      \* ThreadLocalStore::vc, wr_ls, rd_ls
  parent,            \* who created a thread
  semVc, barVc, waitTable, signalTable,   \* clocks of the semaphore, barrier, condition
  snaps,             \* Meta::meta_ss_map
  raced,             \* Meta::raced_inst_pair_set, and what was reported
  pairs, visited,    \* PRaceDB::pstmt_map_, PStmt::visited
  requests,          \* vrf_req_que_
  v,                 \* what the verification thread is doing
  history,           \* htydtc_reqque_table_
  h,                 \* what each history thread is doing
  refs,              \* SyncObject::ref
  freed              \* the sync objects that have been deleted

Queue     == 1..NumQueues
QueueOf(x) == (x % NumQueues) + 1
tlsVars   == <<ppUnits, hyUnits, stmtMetas>>
clockVars == <<vc, parent, semVc, barVc, waitTable, signalTable>>
lsVars    == <<ls, rdls>>
foundVars == <<snaps, raced, pairs, visited>>
objVars   == <<refs, freed>>
queueVars == <<requests, history>>
workVars  == <<v, h>>
schedVars == vars
pVars     == <<vars, status, tlsVars, clockVars, lsVars, foundVars, queueVars,
               workVars, objVars>>
\* What the callbacks that synchronise leave alone.
restVars  == <<status, tlsVars, foundVars, queueVars, workVars, objVars>>

Zero            == [u \in Thread |-> 0]
Join(c, d)      == [u \in Thread |-> IF c[u] < d[u] THEN d[u] ELSE c[u]]
Increment(c, t) == [c EXCEPT ![t] = @ + 1]
\* The verification thread and a history thread between two requests.
Idle    == [step |-> "idle", firsts |-> {}, first |-> NoStmt, todo |-> {}, racy |-> {},
            res |-> "none", verdict |-> << >>, wake |-> {}, available |-> FALSE]
Nothing == [req |-> << >>, todo |-> {}]

PInit ==
  /\ Init
  /\ status = [t \in Thread |-> "available"]
  /\ ppUnits = [t \in Thread |-> {}] /\ hyUnits = [t \in Thread |-> {}]
  /\ stmtMetas = [t \in Thread |-> << >>]
  /\ vc = [t \in Thread |-> Zero] /\ parent = [t \in Thread |-> t]
  /\ ls = [t \in Thread |-> {}] /\ rdls = [t \in Thread |-> {}]
  /\ semVc = Zero /\ barVc = Zero /\ waitTable = << >> /\ signalTable = << >>
  /\ snaps = [x \in Unit |-> [t \in Thread |-> << >>]]
  /\ raced = [x \in Unit |-> {}]
  /\ pairs = PotentialPairs /\ visited = {}
  /\ requests = << >> /\ v = Idle
  /\ history = [q \in Queue |-> << >>] /\ h = [q \in Queue |-> Nothing]
  /\ refs = << >> /\ freed = {}

-----------------------------------------------------------------------------
(* Threads and synchronisation: VerifierSched's moves, with the clocks and   *)
(* the locksets of the thread local store.                                  *)

\* A function without the key t, and with t mapped to x.
Without(f, t)  == [u \in DOMAIN f \ {t} |-> f[u]]
With(f, t, x)  == [u \in DOMAIN f \cup {t} |-> IF u = t THEN x ELSE f[u]]

PCreate(t, c) ==
  /\ Create(t, c)
  /\ parent' = [parent EXCEPT ![c] = t]
  /\ UNCHANGED <<restVars, vc, semVc, barVc, waitTable, signalTable, lsVars>>

\* GetParent finds 0 once the parent has exited, which thd_uid_map_ takes to
\* Pin's thread 0, Main; it may have been called before.
Parents(t) == {parent[t]} \cup {p \in {Main} : pc[parent[t]] \in {"exited", "reaped"}}

PThreadStart(t) ==
  /\ ThreadStart(t)
  /\ \/ t = Main /\ vc' = [vc EXCEPT ![t] = Increment(Zero, t)]
     \/ /\ t # Main
        /\ \E p \in Parents(t) :
             vc' = [vc EXCEPT ![t] = Join(Increment(Zero, t), vc[p]), ![p] = Increment(@, p)]
  /\ UNCHANGED <<restVars, parent, semVc, barVc, waitTable, signalTable, lsVars>>

PAfterPthreadJoin(t) ==
  /\ AfterPthreadJoin(t)
  /\ vc' = [vc EXCEPT ![t] = Increment(Join(@, vc[arg[t]]), t)]
  /\ UNCHANGED <<restVars, parent, semVc, barVc, waitTable, signalTable, lsVars>>

ProcessPostMutexLock(t) ==
  /\ AfterPthreadMutexLock(t)
  /\ ls' = [ls EXCEPT ![t] = @ \cup {arg[t]}]
  /\ UNCHANGED <<restVars, clockVars, rdls>>

ProcessPreMutexUnlock(t, m) ==
  /\ RealMutexUnlock(t, m)
  /\ ls' = [ls EXCEPT ![t] = @ \ {m}]
  /\ UNCHANGED <<restVars, clockVars, rdls>>

ProcessPostRwlockRdlock(t) ==
  /\ AfterPthreadRwlockRdlock(t)
  /\ rdls' = [rdls EXCEPT ![t] = @ \cup {Rwlock}]
  /\ UNCHANGED <<restVars, clockVars, ls>>

ProcessPostRwlockWrlock(t) ==
  /\ AfterPthreadRwlockWrlock(t)
  /\ ls' = [ls EXCEPT ![t] = @ \cup {Rwlock}]
  /\ UNCHANGED <<restVars, clockVars, rdls>>

ProcessPreRwlockUnlock(t) ==
  /\ RealRwlockUnlock(t)
  /\ ls' = [ls EXCEPT ![t] = @ \ {Rwlock}]
  /\ rdls' = [rdls EXCEPT ![t] = @ \ {Rwlock}]
  /\ UNCHANGED <<restVars, clockVars>>

PBeforePthreadBarrierWait(t) ==
  /\ BeforePthreadBarrierWait(t)
  /\ barVc' = Join(barVc, vc[t])
  /\ UNCHANGED <<restVars, vc, parent, semVc, waitTable, signalTable, lsVars>>

PAfterPthreadBarrierWait(t) ==
  /\ AfterPthreadBarrierWait(t)
  /\ vc' = [vc EXCEPT ![t] = Increment(Join(@, barVc), t)]
  /\ barVc' = IF barrierRef' = 0 THEN Zero ELSE barVc
  /\ UNCHANGED <<restVars, parent, semVc, waitTable, signalTable, lsVars>>

PBeforePthreadCondWait(t, m) ==
  /\ BeforePthreadCondWait(t, m)
  /\ ls' = [ls EXCEPT ![t] = @ \ {m}]
  /\ waitTable' = With(waitTable, t, vc[t])
  /\ UNCHANGED <<restVars, vc, parent, semVc, barVc, signalTable, rdls>>

\* The signaller learns the waiters' clocks and leaves its own for each of
\* them; it is not a step apart from the signal here.
ProcessSignal(t) ==
  LET c == [u \in Thread |-> CHOOSE n \in {vc[t][u]} \cup {waitTable[w][u] : w \in DOMAIN waitTable} :
              \A w \in DOMAIN waitTable : n >= waitTable[w][u] /\ n >= vc[t][u]] IN
  /\ RealCondSignal(t)
  /\ signalTable' = [w \in DOMAIN signalTable \cup DOMAIN waitTable |->
                       IF w \in DOMAIN waitTable THEN c ELSE signalTable[w]]
  /\ vc' = [vc EXCEPT ![t] = Increment(c, t)]
  /\ UNCHANGED <<restVars, parent, semVc, barVc, waitTable, lsVars>>

PAfterPthreadCondWait(t) ==
  LET c == IF t \in DOMAIN signalTable THEN Join(vc[t], signalTable[t]) ELSE vc[t] IN
  /\ AfterPthreadCondWait(t)
  /\ waitTable' = Without(waitTable, t)
  /\ signalTable' = Without(signalTable, t)
  /\ vc' = [vc EXCEPT ![t] = Increment(c, t)]
  /\ ls' = [ls EXCEPT ![t] = @ \cup {arg[t]}]
  /\ UNCHANGED <<restVars, parent, semVc, barVc, rdls>>

PBeforeSemPost(t) ==
  /\ BeforeSemPost(t)
  /\ semVc' = Join(semVc, vc[t])
  /\ vc' = [vc EXCEPT ![t] = Increment(@, t)]
  /\ UNCHANGED <<restVars, parent, barVc, waitTable, signalTable, lsVars>>

PAfterSemWait(t) ==
  /\ AfterSemWait(t)
  /\ vc' = [vc EXCEPT ![t] = Increment(Join(@, semVc), t)]
  /\ UNCHANGED <<restVars, parent, semVc, barVc, waitTable, signalTable, lsVars>>

-----------------------------------------------------------------------------
(* An access, in the thread that makes it. *)

\* BeforeMemRead, BeforeMemWrite, PushVerifyRequest: the request takes a copy
\* of the thread's clock and locksets with it.
PushVerifyRequest(t) ==
  /\ Move(t, "run", "postpone")
  /\ Raise("access")
  /\ \E i \in Code[t], x \in Unit :
       /\ requests' = Append(requests,
            [thd |-> t, inst |-> i, unit |-> x, id |-> left,
             vc |-> vc[t], wr |-> ls[t], rd |-> rdls[t]])
       /\ refs' = With(refs, left, 0)
  /\ UNCHANGED <<arg, raceVars, setVars, smpVars, ppmetas, syncVars, crashed, status,
                 tlsVars, clockVars, lsVars, foundVars, history, workVars, freed>>

\* The metas of the postponed access become history.
ToHistory(t) == hyUnits' = [hyUnits EXCEPT ![t] = @ \cup ppUnits[t]]

\* PostponeThread up to the unlock.
PPostponeThread(t) ==
  /\ pc[t] = "postpone"
  /\ IF Cardinality(avail) = 1 /\ pp = {}
     THEN /\ Goto(t, "run")
          /\ status' = [status EXCEPT ![t] = "after"]
          /\ ToHistory(t)
          /\ UNCHANGED <<setVars, smpVars>>
     ELSE /\ Goto(t, "stopping")
          /\ pp' = pp \cup {t}
          /\ avail' = avail \ {t}
          /\ IF avail \ {t} = {} THEN ChooseRandomThreadAfterAllUnavailable(pp \cup {t})
                                 ELSE UNCHANGED permits
          /\ UNCHANGED <<blk, smp, status, hyUnits>>
  /\ UNCHANGED <<arg, left, raceVars, ppmetas, syncVars, crashed, ppUnits, stmtMetas,
                 clockVars, lsVars, foundVars, queueVars, workVars, objVars>>

\* The status is set when the lock has been released.
BeingPostponed(t) ==
  /\ Move(t, "stopping", "wait")
  /\ status' = [status EXCEPT ![t] = "postponed"]
  /\ UNCHANGED <<arg, left, raceVars, setVars, smpVars, ppmetas, syncVars, crashed,
                 tlsVars, clockVars, lsVars, foundVars, queueVars, workVars, objVars>>

\* The rest of PostponeThread, with ClearPostponedThreadMetas.
PAfterWait(t) ==
  /\ AfterWait(t)
  /\ status' = [status EXCEPT ![t] = "after"]
  /\ ToHistory(t)
  /\ UNCHANGED <<ppUnits, stmtMetas, clockVars, lsVars, foundVars, queueVars, workVars,
                 objVars>>

-----------------------------------------------------------------------------
(* The verification thread.  r is the request at the head of the queue, v     *)
(* the place in its handling and what has been found so far.  The front of a *)
(* queue is touched by the thread that serves it only, so taking a request   *)
(* is part of the step before or after.                                     *)

r         == Head(requests)
Stmt      == StmtOf[r.inst]
Writes(i) == TypeOf[i] = "W"
At(step)  == v.step = step
Arrived   == At("idle") /\ requests # << >>

WakeUpThread(u) == permits' = IF u \in smp THEN [permits EXCEPT ![u] = @ + 1] ELSE permits

\* What only the program's threads change.
progVars == <<pc, arg, left, raceVars, setVars, smp, ppmetas, syncVars, clockVars, lsVars>>

PopVerifyRequest == requests' = Tail(requests) /\ v' = Idle

\* The metas of the thread's last request are dropped before anything else.
DropRemainder == [ppUnits EXCEPT ![r.thd] = {}]

\* The statement is not in the database: the thread is let go.
LookupNothing ==
  /\ Arrived /\ Stmt = NoStmt
  /\ ppUnits' = DropRemainder
  /\ WakeUpThread(r.thd)
  /\ PopVerifyRequest
  /\ UNCHANGED <<progVars, crashed, status, hyUnits, stmtMetas, foundVars, history, h, objVars>>

\* One of the thread's last five snapshots of the unit is of this instruction
\* and epoch.
RecentMetaSnapshot ==
  LET s == snaps[r.unit][r.thd] IN
  \E k \in 1..Len(s) : k + 5 > Len(s) /\ s[k].inst = r.inst /\ s[k].clk = r.vc[r.thd]

SecondPotentialStatementSet == {f \in visited : {f, Stmt} \in pairs}

Redundant ==
  /\ Arrived /\ Stmt # NoStmt
  /\ RecentMetaSnapshot
  /\ ppUnits' = DropRemainder
  /\ status' = [status EXCEPT ![r.thd] = "available"]
  /\ v' = [v EXCEPT !.step = "wake", !.wake = {r.thd}]
  /\ UNCHANGED <<progVars, permits, crashed, hyUnits, stmtMetas, foundVars, queueVars, h,
                 objVars>>

\* MAP_KEY_NOTFOUND_NEW: the thread has a set of metas for its statement.
Entered == IF Stmt \in DOMAIN stmtMetas[r.thd] THEN stmtMetas
           ELSE [stmtMetas EXCEPT ![r.thd] = With(@, Stmt, {})]

\* Mutant: the races found with one first statement count for the next.
PassKeepsRaces(f, again) ==
  [v EXCEPT !.step = "scan", !.first = f, !.firsts = @ \ {f},
     !.todo = IF again THEN {} ELSE {u \in Thread : pc[u] \notin {"unborn", "starting"}} \ {r.thd},
     !.res = IF again THEN "redundant" ELSE "none"]

\* The threads WaitVerification looks at for first statement f.  After the
\* first pass the access has a snapshot, and the other passes compare nothing.
Pass(f, again) ==
  [v EXCEPT !.step = "scan", !.first = f, !.firsts = @ \ {f}, !.racy = {},
     !.todo = IF again THEN {} ELSE {u \in Thread : pc[u] \notin {"unborn", "starting"}} \ {r.thd},
     !.res = IF again THEN "redundant" ELSE "none"]

\* A first statement is recorded ...
VisitFirst ==
  /\ Arrived /\ Stmt # NoStmt
  /\ ~RecentMetaSnapshot /\ SecondPotentialStatementSet = {}
  /\ visited' = visited \cup {Stmt}
  /\ stmtMetas' = Entered
  /\ ppUnits' = [ppUnits EXCEPT ![r.thd] = {r.unit}]
  /\ v' = [v EXCEPT !.step = "record"]
  /\ UNCHANGED <<progVars, permits, crashed, status, hyUnits, snaps, raced, pairs, queueVars, h,
                 objVars>>

\* ... a second one compared with each first statement in turn.
VisitSecond ==
  LET firsts == SecondPotentialStatementSet IN
  /\ Arrived /\ Stmt # NoStmt
  /\ ~RecentMetaSnapshot
  /\ visited' = visited \cup {Stmt}
  /\ stmtMetas' = Entered
  /\ ppUnits' = DropRemainder
  /\ \E f \in firsts : v' = [Pass(f, FALSE) EXCEPT !.firsts = firsts \ {f}]
  /\ UNCHANGED <<progVars, permits, crashed, status, hyUnits, snaps, raced, pairs, queueVars, h,
                 objVars>>

\* The oldest snapshot makes room.  The locksets are those the thread has now,
\* not those of the request.
AddMetaSnapshot ==
  LET s   == snaps[r.unit][r.thd]
      new == [inst |-> r.inst, clk |-> r.vc[r.thd], wr |-> ls[r.thd], rd |-> rdls[r.thd]] IN
  snaps' = [snaps EXCEPT ![r.unit][r.thd] = Append(IF Len(s) = SnapLen THEN Tail(s) ELSE s, new)]

\* The set of metas is looked up once more; a history thread may have deleted it
\* by now, and then the null pointer is dereferenced.
Inserted == IF Stmt \in DOMAIN stmtMetas[r.thd]
            THEN [stmtMetas EXCEPT ![r.thd][Stmt] = @ \cup {r.unit}] ELSE stmtMetas
Missing  == Stmt \notin DOMAIN stmtMetas[r.thd]

\* The thread has gone on before its request was served: the metas become
\* history now.
ClearWhenVerifyRequestInvalid(u) ==
  IF status[u] = "after" /\ ppUnits[u] # {}
  THEN ToHistory(u) /\ status' = [status EXCEPT ![u] = "available"]
  ELSE UNCHANGED <<hyUnits, status>>

RecordFirst ==
  /\ At("record")
  /\ stmtMetas' = Inserted
  /\ crashed' = Missing
  /\ AddMetaSnapshot
  /\ ClearWhenVerifyRequestInvalid(r.thd)
  /\ PopVerifyRequest
  /\ UNCHANGED <<progVars, permits, ppUnits, raced, pairs, visited, history, h, objVars>>

-----------------------------------------------------------------------------
(* WaitVerification: one step per thread, and the end under internal_lock_.  *)

Latest(x, u)     == snaps[x][u][Len(snaps[x][u])]
Shares(u)        == v.first \in DOMAIN stmtMetas[u] /\ r.unit \in stmtMetas[u][v.first]
PostponedHere(u) == status[u] = "postponed" /\ r.unit \in ppUnits[u]
Seen(u, res)     == v' = [v EXCEPT !.todo = @ \ {u}, !.res = res]

DistributeHtyDtcRequest ==
  history' = IF NumQueues <= 0 THEN history
             ELSE [history EXCEPT ![QueueOf(r.unit)] = Append(@, [req |-> r, mark |-> FALSE])]

ScanOther(u) ==
  /\ ~Shares(u)
  /\ Seen(u, IF v.first \in DOMAIN stmtMetas[u] THEN "none" ELSE v.res)
  /\ UNCHANGED <<status, hyUnits, raced, history>>

ScanGone(u) ==
  /\ Shares(u) /\ ~PostponedHere(u)
  /\ Seen(u, v.res)
  /\ ClearWhenVerifyRequestInvalid(u)
  /\ DistributeHtyDtcRequest
  /\ UNCHANGED raced

\* The thread waits at another statement, or in a known race: no request is
\* made then.
ScanKnown(u) ==
  LET i == Latest(r.unit, u).inst IN
  /\ Shares(u) /\ PostponedHere(u)
  /\ \/ StmtOf[i] # v.first /\ Seen(u, v.res)
     \/ /\ StmtOf[i] = v.first /\ {i, r.inst} \in raced[r.unit]
        /\ Seen(u, "redundant")
  /\ UNCHANGED <<status, hyUnits, raced, history>>

ScanWaiting(u) ==
  LET i    == Latest(r.unit, u).inst
      race == Writes(i) \/ Writes(r.inst) IN
  /\ Shares(u) /\ PostponedHere(u)
  /\ StmtOf[i] = v.first /\ {i, r.inst} \notin raced[r.unit]
  /\ v' = [v EXCEPT !.todo = @ \ {u}, !.res = IF race THEN "racy" ELSE "shared",
             !.racy = IF race THEN @ \cup {u} ELSE @]
  /\ raced' = IF race THEN [raced EXCEPT ![r.unit] = @ \cup {{i, r.inst}}] ELSE raced
  /\ DistributeHtyDtcRequest
  /\ UNCHANGED <<status, hyUnits>>

Scan ==
  /\ At("scan")
  /\ \E u \in v.todo : ScanOther(u) \/ ScanGone(u) \/ ScanKnown(u) \/ ScanWaiting(u)
  /\ UNCHANGED <<progVars, permits, crashed, ppUnits, stmtMetas, snaps, pairs, visited,
                 requests, h, objVars>>

RemoveRelationMapping(db, gone) == db \ gone

HasFullyVerified(s, db) == \A p \in db : s \notin p

\* The sets of metas without those of the statements in done.
ClearFullyVerifierPStmtMetas(metas, done) ==
  [u \in Thread |-> [s \in DOMAIN metas[u] \ done |-> metas[u][s]]]

\* A marker in every queue.  Without history threads the object goes at once if
\* their number is negative, and never if it is 0.
DistributeEndOfSyncObj ==
  /\ history' = [q \in Queue |-> Append(history[q], [req |-> r, mark |-> TRUE])]
  /\ freed' = IF NumQueues < 0 THEN freed \cup {r.id} ELSE freed

\* The verdict tells of each thread in a race whether it is to stay postponed.
EndScan ==
  LET p       == {v.first, Stmt}
      db      == IF v.racy = {} THEN pairs ELSE RemoveRelationMapping(pairs, {p})
      done    == IF v.racy = {} THEN {} ELSE {s \in p : HasFullyVerified(s, db)}
      self    == {u \in {r.thd} : Stmt \in done}
      verdict == [u \in DOMAIN v.verdict \cup v.racy \cup self |->
                    IF u \in self THEN FALSE
                    ELSE IF u \in v.racy THEN v.first \notin done ELSE v.verdict[u]] IN
  /\ At("scan") /\ v.todo = {}
  /\ AddMetaSnapshot
  /\ ppUnits' = [ppUnits EXCEPT ![r.thd] = @ \cup {r.unit}]
  /\ hyUnits' = [hyUnits EXCEPT ![r.thd] = @ \cup {r.unit}]
  /\ crashed' = Missing
  /\ pairs' = db
  /\ stmtMetas' = ClearFullyVerifierPStmtMetas(Inserted, done)
  /\ \/ /\ \E f \in v.firsts : v' = [Pass(f, TRUE) EXCEPT !.verdict = verdict]
        /\ UNCHANGED <<history, freed>>
     \/ /\ v.firsts = {}
        /\ v' = [v EXCEPT !.step = "decide", !.verdict = verdict]
        /\ DistributeEndOfSyncObj
  /\ UNCHANGED <<progVars, permits, status, raced, visited, requests, h, refs>>

\* HandleRace: the coin is RandomBool.  The status follows the posts.
Racy ==
  LET racing == DOMAIN v.verdict IN
  /\ At("decide") /\ v.verdict # << >>
  /\ \/ v' = [v EXCEPT !.step = "wake", !.wake = racing, !.available = r.thd \in racing]
     \/ v' = [v EXCEPT !.step = "wake", !.available = TRUE,
                !.wake = {u \in racing : ~v.verdict[u]} \cup {r.thd}]
  /\ UNCHANGED <<progVars, permits, crashed, status, tlsVars, foundVars, queueVars, h, objVars>>

\* Nothing shared, or nothing new: the status comes before the post.
NotShared ==
  /\ At("decide") /\ v.verdict = << >> /\ v.res \in {"redundant", "none"}
  /\ status' = [status EXCEPT ![r.thd] = "available"]
  /\ v' = [v EXCEPT !.step = "wake", !.wake = {r.thd}]
  /\ UNCHANGED <<progVars, permits, crashed, tlsVars, foundVars, queueVars, h, objVars>>

\* Only read: the thread stays postponed.
HandleNoRace ==
  /\ At("decide") /\ v.verdict = << >> /\ v.res \notin {"redundant", "none"}
  /\ PopVerifyRequest
  /\ UNCHANGED <<progVars, permits, crashed, status, tlsVars, foundVars, history, h, objVars>>

\* Posts are made one by one and without internal_lock_.  The last one takes
\* the request from the queue with it, unless a status is still to be set.
PostSemaphore ==
  /\ At("wake")
  /\ \E u \in v.wake :
       /\ WakeUpThread(u)
       /\ IF v.wake = {u} /\ ~v.available
          THEN PopVerifyRequest
          ELSE v' = [v EXCEPT !.wake = @ \ {u}] /\ UNCHANGED requests
  /\ UNCHANGED <<progVars, crashed, status, tlsVars, foundVars, history, h, objVars>>

\* HandleRace's last assignment, whatever the thread has done since the post.
MakeAvailable ==
  /\ At("wake") /\ v.wake = {}
  /\ status' = [status EXCEPT ![r.thd] = "available"]
  /\ PopVerifyRequest
  /\ UNCHANGED <<progVars, permits, crashed, tlsVars, foundVars, history, h, objVars>>

-----------------------------------------------------------------------------
(* The history threads.  h[q] is the request in hand and the threads still   *)
(* to be compared with.                                                     *)

\* The request in hand, or the one that is next.
Taken(q) == h[q].todo # {} \/ (history[q] # << >> /\ ~Head(history[q]).mark)
Held(q)  == IF h[q].todo # {} THEN h[q]
            ELSE [req |-> Head(history[q]).req, todo |-> Thread \ {Head(history[q]).req.thd}]

Disjoint(a, b) == a \cap b = {}

\* A past access of u in an epoch the request does not know of, without a
\* common lock.  Of two writes the read locks do not count.
HistoryRace(snap, u, e) ==
  /\ snap.clk > e.vc[u]
  /\ Disjoint(snap.wr, e.wr)
  /\ \/ Writes(snap.inst) /\ Writes(e.inst)
     \/ /\ Writes(snap.inst) # Writes(e.inst)
        /\ Disjoint(snap.wr, e.rd) /\ Disjoint(snap.rd, e.wr)

\* HistoryDetection against one thread: the snapshots are read under
\* internal_lock_, and the statements that are done lose their metas.
HistoryDetection(q, u) ==
  LET e     == Held(q).req
      found == IF e.unit \notin hyUnits[u] THEN {}
               ELSE {i \in Inst : /\ {i, e.inst} \notin raced[e.unit]
                                  /\ \E k \in 1..Len(snaps[e.unit][u]) :
                                       /\ snaps[e.unit][u][k].inst = i
                                       /\ HistoryRace(snaps[e.unit][u][k], u, e)}
      gone  == {{StmtOf[i], StmtOf[e.inst]} : i \in found}
      db    == RemoveRelationMapping(pairs, gone)
      done  == {s \in UNION gone : HasFullyVerified(s, db)} IN
  /\ Taken(q) /\ u \in Held(q).todo
  /\ raced' = [raced EXCEPT ![e.unit] = @ \cup {{i, e.inst} : i \in found}]
  /\ pairs' = db
  /\ stmtMetas' = ClearFullyVerifierPStmtMetas(stmtMetas, done)
  /\ h' = [h EXCEPT ![q] = IF Held(q).todo = {u} THEN Nothing
                           ELSE [Held(q) EXCEPT !.todo = @ \ {u}]]
  /\ history' = IF h[q].todo # {} THEN history ELSE [history EXCEPT ![q] = Tail(@)]
  /\ UNCHANGED <<progVars, permits, crashed, status, ppUnits, hyUnits, snaps, visited,
                 requests, v, objVars>>

\* Mutant: the first marker deletes the sync object.
ClearFirstMark(q) ==
  LET o == Head(history[q]).req.id IN
  /\ h[q].todo = {} /\ history[q] # << >> /\ Head(history[q]).mark
  /\ refs' = [refs EXCEPT ![o] = @ + 1]
  /\ freed' = freed \cup {o}
  /\ history' = [history EXCEPT ![q] = Tail(@)]
  /\ UNCHANGED <<progVars, permits, crashed, status, tlsVars, foundVars, requests, workVars>>

\* A marker, under the kernel lock: ProcessInvalidHtyDtcRequest and
\* ClearHtyDtcRequest.
ClearMark(q) ==
  LET o == Head(history[q]).req.id IN
  /\ h[q].todo = {} /\ history[q] # << >> /\ Head(history[q]).mark
  /\ refs' = [refs EXCEPT ![o] = @ + 1]
  /\ freed' = IF refs[o] + 1 = NumQueues THEN freed \cup {o} ELSE freed
  /\ history' = [history EXCEPT ![q] = Tail(@)]
  /\ UNCHANGED <<progVars, permits, crashed, status, tlsVars, foundVars, requests, workVars>>

-----------------------------------------------------------------------------
PSync(t) ==
  \/ \E c \in Thread : PCreate(t, c)
  \/ PThreadStart(t) \/ PAfterPthreadJoin(t)
  \/ ProcessPostMutexLock(t) \/ ProcessSignal(t) \/ PAfterPthreadCondWait(t)
  \/ \E m \in Mutex : ProcessPreMutexUnlock(t, m) \/ PBeforePthreadCondWait(t, m)
  \/ ProcessPostRwlockRdlock(t) \/ ProcessPostRwlockWrlock(t) \/ ProcessPreRwlockUnlock(t)
  \/ PBeforePthreadBarrierWait(t) \/ PAfterPthreadBarrierWait(t)
  \/ PBeforeSemPost(t) \/ PAfterSemWait(t)

\* The callbacks, and the steps of pthread, that only VerifierSched is about.
POther(t) ==
  /\ \/ ThreadExit(t) \/ RealJoin(t) \/ \E c \in Thread : BeforePthreadJoin(t, c)
     \/ \E m \in Mutex : BeforePthreadMutexLock(t, m)
     \/ RealMutexLock(t) \/ AfterPthreadMutexUnlock(t)
     \/ BeforePthreadRwlockRdlock(t, "rdLocking") \/ BeforePthreadRwlockWrlock(t, "wrLocking")
     \/ RealRwlockRdlock(t) \/ RealRwlockWrlock(t) \/ AfterPthreadRwlockUnlock(t)
     \/ RealBarrierWait(t) \/ RealCondWait(t) \/ RealCondReturn(t)
     \/ RealSemPost(t) \/ BeforeSemWait(t) \/ RealSemWait(t)
     \/ TakePermit(t) \/ TimeOut(t)
  /\ UNCHANGED <<restVars, clockVars, lsVars>>

PAccess(t) ==
  PushVerifyRequest(t) \/ PPostponeThread(t) \/ BeingPostponed(t) \/ PAfterWait(t)

StartWaitVerification ==
  \/ LookupNothing \/ Redundant \/ VisitFirst \/ VisitSecond \/ RecordFirst
  \/ Scan \/ EndScan \/ Racy \/ NotShared \/ HandleNoRace \/ PostSemaphore \/ MakeAvailable

StartHistoryDetection(q) == ClearMark(q) \/ \E u \in Thread : HistoryDetection(q, u)

PNext ==
  /\ ~crashed
  /\ \/ \E t \in Thread : PSync(t) \/ POther(t) \/ PAccess(t)
     \/ StartWaitVerification
     \/ \E q \in Queue : StartHistoryDetection(q)

PSpec == PInit /\ [][PNext]_pVars

-----------------------------------------------------------------------------
(* Properties. *)

\* A sync object is deleted only when no request that names it is left in a
\* queue or in the hands of a thread.
SyncObjectsLive ==
  /\ \A q \in Queue :
       /\ \A k \in 1..Len(history[q]) : history[q][k].req.id \notin freed
       /\ h[q].todo # {} => h[q].req.id \notin freed
  /\ \A k \in 1..Len(requests) : k > 1 => requests[k].id \notin freed
  /\ v.step \in {"idle", "record", "scan"} /\ requests # << >> =>
       r.id \notin freed

\* Verification and history threads, each with half of the work, keep the
\* database in step with what they report: between two requests a pair of
\* statements is gone exactly when a race between them has been reported.
DatabaseInStep ==
  v.step = "idle" /\ ~crashed =>
    pairs = PotentialPairs \ UNION {{{StmtOf[i] : i \in p} : p \in raced[x]} : x \in Unit}
=============================================================================
