# TLA+ models of DRTracker

DRTracker (RaceTrack) is a Pin tool that finds data races in pthread programs.
Pin calls it before and after every interesting instruction and pthread
function of the application; the callbacks run in the application's own
threads. Ten-odd *analyzers* can hang off those callbacks: dynamic race
detectors, which keep vector clocks or locksets and report races, and the
*verifier*, which takes potential races (from a static tool or an earlier run)
and steers the application's threads so that each race really happens. The
shipped `Profiler` enables the verifier (`VerifierMl`) alone, so the verifier
comes first here.

In this document `verifier.cpp` and the like are files of `src/src/race/`,
`execution_control.cpp`, `static_info.cc`, `filter.cc` and `vector_clock.cc`
files of `src/src/core/`.

## The system

| Component | State | Operations | Hard behaviour | What makes it correct |
|---|---|---|---|---|
| Verifier, scheduling (`verifier.cpp`, `verifier.h`) | three thread sets, a semaphore per thread, `verify_lock_`, `internal_lock_`, postponed metas, records of mutexes, rwlocks, barriers, semaphores | postpone, wake and block threads around accesses and pthread calls | several locks, threads that stop inside callbacks, posts racing timeouts, records that lag behind pthread | sets say where threads are; the lock is freed on every path; the program never stands still |
| Verifier, verification (`verifier.cpp`, `verifier_ml.cpp`, `potential_race.h`) | potential-race database, metas, snapshots, locksets, clocks | `ProcessReadOrWrite`, `WaitVerification`, history detection | metas freed or stale while a thread is postponed; order of arrival decides the verdict | a reported race is a pair of concurrent accesses; each potential race is verified once |
| Memory bugs (`membug.cc`) | statements a static analysis found | is a race harmful, and whose thread should go later | analyses shadow each other | the order of the two threads exposes the error |
| Parallel verifier (`parallel_verifier_ml.cpp`) | request queues, shared clock objects | verification and history detection in threads of their own | requests that outlive the metas they name | as the sequential verifier; a clock object is deleted by its last user |
| Happens-before core (`detector.cc`, `vector_clock.cc`) | a clock per thread and per synchronisation object | one handler per pthread call, before releases and after acquires | the callback and the call it brackets are two steps; overlapping readers; barriers used again at once | every happens-before edge is in the clocks, and no thread works in an epoch that has been handed on |
| Regions (`detector.cc`, `filter.cc`) | the regions watched, the tables of metas | allocation, free, images | memory used again before its last user's callback | metas are of what is there now |
| Djit, LiteRace, FastTrack, Loft (`djit.cc`, `literace.cc`, `fast_track.cc`, `loft.cc`) | clocks or epochs per memory unit | reads, writes, joins | same-epoch shortcuts, sampling, switching between epoch and clock, skipped joins | no false report; the first race is found; the optimised detectors agree with Djit |
| Lockset and hybrid detectors (`eraser.cc`, `race_track.cc`, `helgrind.cc`, `acculock.cc`, `multilock_hb.cc`, `simple_lock.cc`, `simplelock_plus.cc`) | lockset per thread, state machine or epoch + lockset per unit | the same callbacks | state machines with many ways back; pruning of recorded accesses | locked data are quiet; every race between accesses with disjoint locksets is reported |
| ThreadSanitizer (`thread_sanitizer.cc`, `segment_set.cc`) | segments and sets of segments | the same callbacks | segments shared, counted and recycled | none is freed in use; reports are of unordered, unlocked accesses |
| Parallel detection (`execution_control.cpp/.hpp`, `event.h`) | a ring buffer per thread, a queue per detection thread, reference counts | buffer, flush, broadcast, process, free | order between buffered accesses and broadcast synchronisation events; unsynchronised counts | each detector sees the order the program had; each event is freed once |
| Thread creation (`execution_control.cpp`) | maps from pthread and OS ids to Pin ids, a semaphore | parent waits for the announcement of the child | the announcement precedes the analyzers' `ThreadStart` | the child starts from its parent's state at the creation |
| Ad-hoc synchronisation (`adhoc_sync.cc`, `loop.cc`, `cond_wait.cc`) | static loop tables, reads seen inside loops | recognise spinning reads and the writes they wait for | heuristics over exits and counts | an edge is added for a real write-read dependence only |
| Static information, race database, reports, scripts (`static_info.cc`, `race.cc`, `group_verifier.py`) | tables kept in three files across executions | load, find, create, remove, save | kills between the saves; files removed and appended | what was saved still names what raced; a race is reported by the execution that found it |
| The rest: call stacks, knobs, logs, instrumentation, PreGroup, tracer, generated protobuf code | tables, files | lookups, I/O | little | |

Interaction: Pin -> `ExecutionControl` -> every analyzer, in registration
order, in the application's thread (or, with parallel detection, through
queues). Analyzers share nothing with each other but static information and the
race database; each detector derives from `Detector` and overrides some of its
handlers. Each analyzer serialises its own callbacks with `internal_lock_`, but for
the few listed under [Coarser than the code](#coarser-than-the-code); the
verifier has `verify_lock_` as well, held over one memory access and released
while its thread is postponed.

## Modules

| Module | Models | Builds on |
|---|---|---|
| `VerifierSched` | the scheduler inside the verifier, all callbacks | |
| `VerifierSchedProofs` | proofs of all its safety properties | `VerifierSched` |
| `MemBug` | which thread of a race should go later | |
| `VerifierRace` | what a verification finds: the potential-race database, snapshots, history, clocks and locksets of `VerifierMl` | `VerifierSched` (refines it), `MemBug` |
| `VerifierRaceProofs` | that it does refine it, and all its properties | `VerifierRace`, `VerifierSchedProofs` |
| `ParallelVerifier` | requests, the verification thread and the history threads | `VerifierSched` |
| `ParallelVerifierProofs` | proofs of all its properties | `ParallelVerifier`, `VerifierSchedProofs` |
| `Detector` | the happens-before core, all synchronisation callbacks, and beside it the true happens-before relation | |
| `Races` | Djit, LiteRace, FastTrack, Loft's shortcuts and the true races on one memory unit | `Detector` |
| `DetectorProofs` | `Detector`: types, reference counts, epochs; no happens-before edge is lost. `Races`: no false report; Loft's shortcuts; FastTrack agrees with Djit; Djit reports the first race | `Races` |
| `LockProgram` | what the lockset detectors know of threads: locks held and counted | `Detector` |
| `LockStates` | the state machines of Eraser, RaceTrack and Helgrind+ | `LockProgram` |
| `Hybrids` | these three with AccuLock, MultiLock-HB, SimpleLock and SimpleLock+ on one program | `LockStates` |
| `Sanitizer` | ThreadSanitizer's segments | `LockProgram` |
| `LocksetProofs` | proofs of all properties of the last four | `Hybrids`, `Sanitizer`, `DetectorProofs` |
| `Regions` | the region filter and the life of metas | |
| `RegionsProofs` | proof of its property | `Regions` |
| `EventOrder` | abstract: every event reaches its detectors once, in a possible order | |
| `ParallelDetection` | buffers, queues, broadcasts, reference counts | refines `EventOrder` |
| `ParallelDetectionProofs` | that it does, and its other properties | `ParallelDetection` |
| `AdhocMetas`, `AdhocDetector` | the three analyses; MultiLock-HB with them on program texts | |
| `AdhocProofs` | proof of `EpochsEnd`, for every text | `AdhocDetector` |
| `StaticInfo`, `RaceDatabase`, `Sessions` | the two databases; executions that share them through files, and the script that runs them | each the one before |
| `MC*` | instances for TLC | |

### VerifierSched

A thread's `pc` says where it is relative to the callbacks; `AvailPC`, `PpPC`,
`BlkPC`, `RegionPC` group the places. `avail`, `pp`, `blk`, `smp`, `ppmetas`
and `verify_lock_` are the code's `avail_thd_set_`, `pp_thd_set_`,
`blk_thd_set_`, the keys of `thd_smp_map_`, the keys of `thd_ppmetas_map_` with
a nonempty entry, and the holder of the lock; `owner`, `wrOwner`, `rdOwners`,
`barrierRef`, `semCount` are what the metas of the synchronisation objects
record. The `real...` variables and actions are pthread, modelled from how the
code uses it.

* A callback that runs under `internal_lock_` from its first line to its last
  is one action, e.g. `BeforePthreadMutexLock`. What happens between the
  `Before` and the `After` callback is an action of pthread.
* A memory access is split where another thread can come in:
  `BeforeMem` (the access is not filtered), `ChooseRandomThreadBeforeProcess`
  (one lucky turn of the loop that waits to be picked; other turns change
  nothing), a branch of `ProcessReadOrWrite` in the region (`LeaveRegion`,
  `RecordAndPostpone`, `RecordAndKeepup`, `HandleRace`), the posts of
  `WakeUpPostponeThreadSet` one by one (`WakeUpOne`), then `KeepupThread` or
  `PostponeThread`; a postponed thread takes a permit or times out
  (`TakePermit`, `TimeOut`) and comes back under `internal_lock_` alone
  (`AfterWait`).
* A timed wait on a condition may run out: `RealCondReturn` needs no signal.
* What a verification finds is a free choice in `HandleRace`: any nonempty set of
  postponed threads with metas may have raced, any of them may be done or
  harmful, and `RandomBool` may fall either way.
* Widths: `BarrierMeta::ref` counts modulo 256, `SemMeta::count` as a signed byte.

Abstractions: one rwlock, one barrier, one condition variable and one program
semaphore; no recursive read locks; the hooks for loops and condition waits
(`loop_db_`, `cond_wait_db_`) are off, as without their knobs. Thread id 0 means
"nobody", as in the code; no thread of the model has that id.

### VerifierRace and MemBug

Each action conjoins an action of `VerifierSched`, which moves the threads, with
what the same callback does to the tables; `Verify` gives its own, and
`ImplementsScheduler` (the property `Spec` of `VerifierSched`) says that even so
no thread moves in a way the scheduler would not allow. `VerifierRaceProofs` proves it
for all constants, so that the theorems about `VerifierSched` hold of the whole
verifier, and its free choice in `HandleRace` covers every verdict. The abstract specification is the
scheduler, and the mapping keeps the shared variables as they are.

`at` is the instruction and unit a thread accesses; `pairs` is the database's
relation of statements; `accessed` and `stmtMetas` are `pstmt_metas_map_`;
`ppUnits` and `hist` are `thd_ppmetas_map_` and `thd_metas_map_`; `snaps` and
`raced` are the metas' snapshots and racy pairs of instructions; `ls`, `rdls` and
`vc` the locksets and clocks. The ghosts `trace` (each access, with the locks
pthread says the thread holds) and `hb` (how many accesses of each thread are
ordered before now by creation and join) are the truth that reports are compared with.

* `AccessFirst` and `AccessFirstAgain` are the branch for a statement without a
  matching first statement, `AccessSecondAgain` and `Verify` the other one.
  `Verify` is one step: a callback of another thread does not touch the tables
  between, except `AfterWait` (finding 1).
* Of several matching first statements one, in an order nobody chose, gets a pass
  that does something (finding 8); `LaterPasses` is what the others do to the map.
* `RacingWith` are the postponed threads that race, `FoundOf` picks one for each
  pair of instructions (then the pair is known), `HistoryRaces` the past accesses,
  `Decide` what the verdict means for the threads.
* With `HarmfulAnalysis`, `Harmful` asks the analyses of `MemBug` in the order of
  `ProcessHarmfulRace`; a thread that should go later stays postponed. Since the
  code makes a new `MemMeta` for each race, its `HasWrite` is always false: a
  read-write race on the heap is always an "uninitialised read", so the dangling
  pointer and buffer overflow analyses are reached for globals only (the instance
  has a global unit, statements in all three files, and both verdicts).

Abstractions: an access touches one unit; the verifier's clocks move with
creation, start and join (the mutex and rwlock callbacks of `VerifierMl` leave
them alone; conditions, barriers and semaphores, which do not, are outside this
module); no freed regions; the collision of keys of instruction pairs and the test
of `*iiter` at the end of the deque are left out. `VerifierSl`, which counts locks
instead of naming them, is not modelled: its branch for a read after a write does
not compare the writer's read locks with the reader's write locks.

### ParallelVerifier

The access pushes a request (`PushVerifyRequest`) and postpones its thread at once
(`PPostponeThread`, `BeingPostponed`, `PAfterWait`); the other callbacks are those of
`VerifierSched`. The verification thread `v` serves `requests`, split wherever it
lets go of `internal_lock_`: `LookupNothing`, `Redundant`, `VisitFirst`,
`VisitSecond`, `RecordFirst`, `Scan`, `EndScan`, `Racy`, `NotShared`,
`HandleNoRace`, then `PostSemaphore` and `MakeAvailable` for each thread to wake.
History thread `q` serves `history[q]` with `HistoryDetection` and deletes a sync
object when it meets the last marker (`ClearMark`). `freed` are the sync objects
deleted; `crashed` stops the model where the code dereferences an iterator it
has lost, as it does when an earlier pass or a history thread has removed
a statement's metas that are looked up again.

A child whose parent has exited before `GetParent` looks it up is handed thread id 0,
which `thd_uid_map_` maps to Pin's thread 0, the main thread (`Parents`). A positive
`NumQueues` is the number of history threads, below 256 because a sync object counts
its markers in 8 bits; a negative one has the object deleted at once, and with 0, the
constructor's default, it is never deleted.

The code shares two queues between threads without a lock; a push and a pop
count as one step each. Snapshots take the thread's locksets and clock when the
request is served, not when it was made: a race may be reported for a thread that
has gone on, which is why no property here compares reports with the execution.
`SomeoneReleased` is the scheduler's: between the request's push and its wait a thread
is `"stopping"`, a place that no thread of the sequential verifier is ever in. `profiler.cpp` has its loops over these threads partly commented out
(261-361); the model is of the loops.

### Detector and Races

`vc` is `curr_vc_map_`; `mutexVc`, `rwVc`/`rwWait`/`rwRef`,
`waitTable`/`signalTable`, `barVc`/`waiter`, `semVc` are the metas. A thread
that is not in a clock's map has 0 there. `RwlockCounts` selects FastTrack's
rwlock handlers or those of `Detector`, `SignalHolding` says whether the
program signals with the waiters' mutex held.

Every release is the callback that publishes the clock, then the pthread step;
every acquire the pthread step, then the callback that joins. The truth is in
`epochs` (each access with its thread's own clock) and `hb` (how many accesses
of each thread happen before now), and moves in the pthread steps only, with
`hbMutex`, `hbWriter`, `hbReaders`, `hbSem` carrying it from a release to an
acquire. `Covers(c, h)` says that clock `c` contains the accesses `h` names;
the refinement of truth by clocks is the invariant `NoEdgeLost`.

Thread creation has two steps because the code has two: the child posts the
parent's semaphore at `execution_control.cpp:654` and calls the analyzers'
`ThreadStart` at line 686, which joins the clock its parent has *then*. If the
parent has exited and been joined by then its clock is gone and the code
dereferences null; the model has no step there, because there is no program
left to speak of.

`Races` runs Djit, LiteRace and FastTrack on the same accesses and collects the true
races from `hb`. LiteRace is Djit on sampled accesses (`Sampled`, `UpdateRate`),
with bursts of 2 instead of 100. Its `NoFalseReport` is checked, completeness is
not claimed; with fixed sampling it drops only every hundredth access, with
`rate_param` 0 it divides by zero. FastTrack's `AfterPthreadJoin` walks its table after
`Detector`'s handler has released the lock, so it is a step of its own
(`PruneReaders`). Loft is represented by its two rules, which claim that an
operation it skips would change nothing: they are checked as facts about the
full clocks (`LoftRules`). `lastrld_thd_id` has no initialiser, so it starts as
any thread. `lateStart` and `lostReader` only record that a
creation or a join of the kind described in findings 6 and 5 has happened:
`lostReader` that a join has dropped a reader from the clock of a shared location.
Memory units do not interact, so one is enough.

### LockProgram, LockStates, Hybrids and Sanitizer

`LockProgram` restricts `Detector` to mutexes, the rwlock, creation and join, and
adds the tables of the lockset detectors: `wls`, `rls`, `lockRef` (Eraser,
RaceTrack, Helgrind+), `ls`, `rdls` (AccuLock, MultiLock-HB), `lc` (SimpleLock,
SimpleLock+). Detectors that do the same share a variable. Its ghost `hb` orders by
creation and join alone, because these detectors are after what only the schedule
has ordered; `seen` are the accesses with the locks pthread says were held.

`LockStates` has what one access makes of Eraser's, RaceTrack's and Helgrind+'s
metas (`er`, `rt`, `hg`), one operator per branch; `Hybrids` what it makes of `accu`,
`ml`, `sl` and `slp`, and runs all seven on the same accesses. `unpruned`,
`unlocked` and `unordered` are what all accesses, unpruned, would give. Where the
detectors are imprecise the properties say how far: RaceTrack names threads
rather than accesses; Helgrind+ may blame the wrong thread, because a join hands one
thread's segment to another; MultiLock-HB may name a write where a read it
dropped raced; Eraser promises quiet for locked data only.

`Sanitizer` numbers segments; `refs` are their counts, `freed` those deleted,
`expired` those waiting to be, `units` the reader and writer sets, `found` the
reports. Two facts of the code limit what it promises: a rwlock's release can set
a clock backwards (`setBack`) and the iterator over readers is not reset between
writers (finding 10).

Abstractions of these modules: one unit; no conditions, barriers and semaphores,
which Eraser ignores, Helgrind+ and ThreadSanitizer handle in their own way, and
the others leave to `Detector`.

### Regions

Bytes and units of `UnitSize` bytes, three possible blocks of which two overlap, two
image sections that share a unit. `malloc`, `realloc` and `free` are a step of the
system and the callback before or after it. `regions` is the filter's map, `metas`
and `syncMetas` the tables by unit (FastTrack's rwlocks are in `mutex_meta_table_` with
the mutexes), `accessed` and `locked` the truth. Not in
the model, because the program does not survive it or nothing is to be said: a failed
allocation (an assertion in `AllocAddrRegion`; in release builds the region stays
unannounced), accesses past the end of a block, and `unit_size_ = 0`, with which
`FreeAddrRegion` loops for ever (`detector.cc:814`). This is the `Detector`'s use of
the filter. The verifier reads the map under the filter's own lock while others
change it under `internal_lock_`: a data race on a standard container, whose
outcome no model can bound.

### EventOrder and ParallelDetection

`EventOrder` is the promise: threads issue events that happen after earlier ones
(`after`, a vector of counts), and a detector handles an event addressed to it
when no pending one comes before it. `ParallelDetection` has the code: the access
puts an event in the ring of the detector its unit belongs to (`DistributeMemory`,
`Detector(u)`), a full ring is flushed before the push (`FlushBuffer`), any other event
empties the thread's rings and is pushed to one queue after the other (`PushEvent`); `KeepEvent` and `preEvents` are the events before the first detector
has registered; `HandleEvent` and `DeleteEvent` are a detector's turn, the count's
decrement in two steps (`reg`) because it is not atomic; `ThreadExit`,
`FreeEventBuffer`, `ExitDetection` and `ProgramExit` end it all. `KeepsOrder` is
`Order!OrderSpec`, where `Order` is the instance of `EventOrder` over the model's
`issued` and `handled`; since acquires are ordered after all earlier releases the
order asked for is stronger than any program's.

Left out: what an event says; the many wrappers are classes of calls (`Calls`: which
of the two events of a wrapper are handled, does the call release or acquire). In the
code two of the event templates give an argument the type of another, and events
without a handler are never freed; a lost decrement leaks an event and does no more.

### AdhocMetas and AdhocDetector

The analyses read program text, so the model has one: `Text` is a sequence of
instructions with lines, `Ranges`, `SpinLoops`, `CondLoops` and `ExitLines` the static
tables, `Programs` which analyses are on and where each thread starts. `d` is
all the detector knows; `AdhocMetas` gives the functions of `AdhocSync`, `LoopDB`
and `CondWaitDB` from `d` to `d`, and `AdhocDetector` the callbacks in the order
`detector.cc` and `multilock_hb.cc` call them. An instruction is two steps, its
callback and itself: a write is recorded before it is made. `real` are the clocks
that mutexes and signals of the program give. `d.crashed` marks what the code does
not survive and ends the run: a lock meta that a second waiter has freed, a write meta
that an atomic instruction has not left, the end of an empty list. `found` and `astray` are what
uninitialised memory and the place behind a table (`detector.cc:1050-1054`) say. `Wild` is the call
instruction that `SetCondWaitCallInst` leaves uninitialised in a new entry.

The code keeps waiting-analysis edges real (`WaitEdgesReal`), but not spinning ones:
the write recorded last before the read need not be the one that the read
returned. For them only `EpochsEnd` is claimed.

### StaticInfo, RaceDatabase and Sessions

The operators of the first two map a table to a table, as the classes' methods do:
images and instructions get identifiers once and for all; static events, static races
(ordered pairs) and races refer to them. `Sessions` runs the tool several times: an
execution loads `sinfo.db` and `race.db`, finds races, takes some back, and at its exit writes
`race.db`, appends to `race.rp`, then writes `sinfo.db`, with a kill possible between any
two of these, after a file is truncated and between the pairs of a report and their
number, which `std::endl` flushes one after the other. The script `group_verifier.py` runs it
once per group, keeps the report's lines and removes the three files, one after the
other, and may be interrupted too. `due` and `kept` are what the reports must hold.
The accesses are in generated code, so that the pseudo image and its rule
(instructions named by their address) are used.

## Runs

| Run | Instance | Shows |
|---|---|---|
| `sync` | 3 threads, every kind of event with `trylock`, 4 events | `TypeOK`, `ThreadSets`, `VerifyLockInv`, `PostponedMetas`, `OwnerSound`, `RwOwnersSound`, `SomeoneReleased`, `CountsSound` |
| `live` | 3 threads, 3 accesses, fairness | `SomeoneResumes`: whenever only postponed threads are left one is released without waiting for a timeout; `AccessReturns`: with timeouts, every access gets through |
| `verify` | 2 threads, 3 statements, accesses, mutex, rwlock, creation, join, 4 events, history and harmful-race analysis on | `LockSetSound`, `DatabaseInv`, `WaitingFindable`, `ImplementsScheduler`, `ReportsSound` |
| `pverify` | 2 threads, the verification thread, 2 history threads, 3 events of any kind | `SyncObjectsLive`, `DatabaseInStep`, `SomeoneReleased` |
| `edges` | 3 threads, every object, 4 events, FastTrack's rwlock, signals under the mutex | `TypeOK`, `NoEdgeLost`, `EpochUnpublished`, `RwlockRefInv` |
| `races` | 3 threads, accesses, a mutex, creation, exit, join, 5 events | `NoFalseReport`, `FirstRaceFound`, `FastTrackAgrees`, `LoftRules` |
| `locks` | 2 threads, a mutex, the rwlock, creation, join, 5 events | `TablesFollowLocks`, `QuietWhenLocked`, `PruningLosesNothing`, `ReportsConcurrent` |
| `segments` | the same program | `SegmentsCounted`, `TsReportsSound` |
| `regions` | 2 threads, 3 blocks, an image, 4 allocations | `TablesFollowMemory` |
| `dispatch` | 2 threads, 2 detection threads, rings of 1, 2 events | `NoUseAfterFree`, `NothingLeft`, `KeepsOrder` |
| `adhoc` | 3 threads, 14 combinations of programs and analyses | `EpochsEnd`, `WaitEdgesReal` |
| `racedb` | 2 executions, 2 groups, 2 races each, kills | `RacesNamed`, `ReportsOwnRaces` |

**Bounds.** `MaxOps` is the number of events the program may raise; it bounds
every other counter. What the events *mean* needs no more: a thread can
be postponed, a second one race with it and a third be blocked or start within
three accesses; a lost edge needs a release, an acquire, an access and one
disturbing call, which is four events (releases of a lock are free); a race
hidden behind another object, and an access that MultiLock-HB or SimpleLock drops
and misses, need five. Three threads are the least at which
"the owner is not the one that is postponed", "a third reader" and "two concurrent
readers and a join" exist. `verify` has two: a verdict is about two threads; two
past accesses, the arriving one and a lock or a join around them are four events, and
a third thread with as many is out of reach. With three threads and three
accesses alone (`Ops = {"access"}`), which adds several threads waiting at one
statement, all its properties hold too. `SnapLen` is 2, so that a third access
drops a snapshot; `MaxListLen` 1, so that a second epoch drops the first.
`pverify` needs two history threads for one to be last, and three events for a request
to be compared with a postponed thread and a past access. `dispatch` has rings of
one event, so that every access after the first finds a full ring; two detectors, so
that an event is shared; `MaxPending` bounds a queue, which delays a push and adds no behaviour.
`regions` allows four allocations: two blocks, one of them used again, and a
reallocation. `racedb` needs two executions for identifiers to be loaded, and two
races for the tables' order to matter. `adhoc` bounds clocks by 8, because a
spinning thread goes round for ever; `Threshold` 2 instead of 5 makes a read
repeat. Symmetry is used only where no temporal property is
checked, and never moves the main thread.

`CHECK_DEADLOCK FALSE` is set where the program may block for ever (a wait without a
signal, a barrier nobody else reaches, a read lock under a write lock) or ends
when its events are used up: every run but `live` and `dispatch`. These two keep
the check: a verifier that leaves everybody postponed, or detection threads that wait
for events nobody sends, would be found.

**Fairness.** `PromptSpec`: a thread that is inside a callback, or in a pthread
call that can return, goes on (weak fairness per thread on `Running`): it is an
operating-system thread and nothing in the code suspends it but the
semaphore. The turn of `ChooseRandomThreadBeforeProcess` is strongly fair: the
loop draws a thread with `rand()` every 50 ms, so each available thread is drawn
again and again, though the lock may be taken in between. (`RandomThread` seeds the
generator with `time(NULL)` before each draw, `verifier.h:426`, so the draws of one second
from one set agree: a thread not drawn waits for another second, not for another 50 ms.
The fairness assumed is that the seconds differ.) Nothing is assumed of
the program, which may stop raising events, and nothing of timeouts:
`SomeoneResumes` holds without them. `AccessReturns` assumes them
(`TimeOutsExpire`), since a thread postponed alone is let go by the
two-second `TimedWait` and by nothing else.

## What is proved

Every theorem is for any set of threads and mutexes and any bound; `Spec` of the
module, no fairness. Where a theorem has a hypothesis, it is in its statement. The
assumptions on constants are named where they are declared, and TLC evaluates them on
the runs: that `Main` is a thread, `NoThread` none, `NoArg` neither a mutex nor a thread,
that there are finitely many threads (`FiniteAssumption`: a program has; counts
need it), in `VerifierRace` that the tables of the program's instructions fit together
and are not empty, in `AdhocDetector` that control stays in the program's text until an exit, that
what it reads is memory and what it waits with is a lock (`TextAssumption`), in `Regions` that
blocks are aligned to the unit, the sections of an image do not overlap and share no unit with
the heap, whose pages are others (`SectionsAssumption`), and an access has at least a byte,
and that the rwlock is no mutex (`RwAssumption`: they are different objects), that bounds
are numbers. Each proof has an inductive
invariant, one lemma for each of its conjuncts with one case per action, and a
temporal step.

**The scheduler** (`VerifierSchedProofs`). `TypeOK`, `ThreadSets`, `VerifyLockInv`,
`PostponedMetas`, `OwnerSound` and `RwOwnersSound`: none is inductive alone, because the
ownership records rest on what a thread in the middle of a call holds according
to pthread. `CallInv` says that, and `IInv` is all of them together. `CountsSound`
counts the threads between a callback and its call, modulo 256. `SomeoneReleased` is the
deepest: `Released` is its inductive form. When the last available thread postpones or
blocks itself, the code chooses a postponed thread to wake; the proof is that some
thread is woken, or is on its way already, in each of the callbacks that put a
thread to sleep. It needs that the 8-bit counters have not wrapped: at most 128
threads and a barrier count below 256, which are the theorem's hypotheses.

**Verification** (`VerifierRaceProofs`). `Implements`: each step is one of
`VerifierSched`'s or leaves its variables alone, so that `IInv` holds here too; the step
in question is `Verify`, whose verdict must be one of the choices of `HandleRace`. Then
`LockSetSound` (the locks of `ls`, `rdls` are those of pthread but for the one just
taken), `DatabaseInv`, `WaitingFindable` (through `FoundInv`, at every place of
an access after its record), and `ReportsSound`: each snapshot is of an access of the
trace, with its locks (`SnapInv`), and the clock of a thread the access happens before
has heard of its epoch (`KnownInv`, `Known`); so a snapshot that the code finds
concurrent and unprotected is of an access that is.

**The happens-before core** (`DetectorProofs`). `CountInv` is what
`ref_count` and `waiter` count, so a writer always finds `ref_count` zero. `EpochOf` bounds
what any other clock knows of a thread: less than its own component while it runs,
no more than it while it is in the barrier, nothing before it starts. `NoEdgeLost` says that
a thread's clock has all that happens before it, when it runs; between an acquire
and its callback the clock lags, so the invariant is about `Due`, the clock the next
callback will give, and about what each object's clock holds while a release
is announced but not yet made. Hypotheses: `RwlockCounts` and `SignalHolding`, without
which the property fails (findings 3 and 4).

**Djit, LiteRace, FastTrack, Loft** (`DetectorProofs`). Every entry of a detector's metas is the epoch of an access
(`RecordInv`), so a clock that is behind it has missed an access, and with
`NoEdgeLost` that access does not happen before: no false report. `LoftRules`: who
may have released a mutex last has a clock past the mutex's. FastTrack keeps one epoch
where Djit keeps a clock; `Dominates(e, u, n)` says that no clock of the tool has
epoch `e` without epoch `n` of `u`, which joins and increments keep, and while nothing has
been reported each of Djit's entries is dominated by an epoch FastTrack keeps. So one
has a race when the other has (`FastTrackAgrees`), with no hypothesis on the program.
`FirstRaceFound` needs the converse of `NoEdgeLost`: a clock has *only* what happens
before (`TruthInv`), and that an access skipped because its thread made one in the same epoch
would have shown no race (`CheckedInv`). It is proved for programs of mutexes,
creation and join (`Ops \subseteq MutexOps`): a semaphore or a rwlock's clock may be
ahead of the truth, since a release is announced before it is made.

**Parallel detection** (`ParallelDetectionProofs`). `KeepsOrder` for any number of
threads and detectors, any capacity and any calls. Events are numbered
(`CountInv`), and each that is issued is in a queue, has been handled, or is on its way in one
place that `Yet(t, d)` names: the ring, the event in hand, the one being pushed, the
ones kept for the detectors (`TrackInv`). A thread passes on what it has done only when it
has nothing on its way (`QuietInv`), so what anybody has heard of has been sent to all its
detectors (`HeardInv`). `Effect(t, N, d, P)` says of every step of a thread that it makes the
events `N` and sends `P`, the first it has for `d`; so what is appended to a queue comes
before nothing that is in it, and the first of a queue is one that `EventOrder` lets the
detector handle (`QueueInv`). `NothingLeft` follows from the same invariant. For
`NoUseAfterFree`, `RefInv` adds the counts: `Remaining(e)` are the detectors that have not
handled `e` or are about to delete it; once `e` has been pushed its count, and the count
that any of them has read, is at least their number, so whoever brings it to zero is the
last. Two detectors that read the same count only leave it too high. Hypothesis:
`EarlyImages = FALSE`, without which the queue's lock may be missing (finding 13).

**The parallel verifier** (`ParallelVerifierProofs`). `SomeoneReleased` through
`ReleaseInv`, the scheduler's inductive form with the other threads' part in it: the
two threads that serve requests only ever wake, and every step that makes the last available thread
leave posts somebody or is made while a wake-up is on its way. It reuses the lemmas of
`VerifierSchedProofs` on the callbacks they share, under the same two hypotheses.
`SyncObjectsLive` needs `ObjInv`: in each queue a sync object's marker comes
after all requests that name it, and once the markers are in, `refs` counts the queues
whose marker has been met; so whoever meets the last has no request of that object left, and
neither has anybody else. `DatabaseInStep` adds `DbInv`: the verification thread reports a
race in the middle of its scan and strikes the pair off at its end, so while it
scans, the database may be one report behind; at any other time it holds the potential
pairs that have not been reported, although a history detection may have reported one meanwhile.

**The lockset detectors** (`LocksetProofs`). `LockIInv` is what the program and the
lock tables have in common: `TablesFollowLocks`, with what each table holds between a
call and its callback, and `SeenInv`, that each remembered access had the locks it
is said to have had. `QuietWhenLocked`: a lock held at every access stays in every candidate
set and lockset the seven detectors keep, on every way through the state
machines (`QuietInv`), so none has anything to report. `ReportsConcurrent`: whoever an
access happens before knows the epoch or segment that the access was made in
(`KnownIn`), so an entry found unordered is of an access that is (`WitnessInv`
for the entries, `SegmentInv` for the segments of Helgrind+ and RaceTrack). `PruningLosesNothing`:
every access of the full history is covered by a kept one of the same thread, no
later in order and with no more locks (`PruneInv`).

**ThreadSanitizer** (`LocksetProofs`). `SegmentsCounted` is inductive with the types and
`LinkInv`, what refers to a segment; the proof is a count, since each step moves references
between threads and the four kinds of sets. `TsReportsSound` rests on five more parts (`SanIInv`):
`OwnInv`, until a clock has been set back nobody, and no clock, segment or epoch that is kept, knows
a later clock of a thread than the thread itself; `LiveInv`, the segment of a thread that has
not synchronised since has the thread's clock and locks; `TsWitnessInv`, every segment in a unit's
sets stands for an access that was made, and whoever comes after that access knows the segment's
clock; `PairsInv`, the writers a unit keeps are unordered, and a reader it keeps comes after a
writer or is unordered with it; and the property itself. That
a pair is unordered holds until a rwlock's release has set a clock back (`setBack`),
as the property says: after that it is false (finding 9).

**Ad-hoc synchronisation** (`AdhocProofs`). `EpochsEnd` is the weakest claim about
an edge: whatever it is taken from, it must not hold the epoch somebody is still in, or the
races of what he does next are lost. It is proved for every program text,
every table of loops and every combination of the analyses. A clock is kept
in many places before it is joined: the write metas, the signal metas, what a
waiter has found, the tables of the condition variables and of the mutexes. The
invariant (`AdhocInv`) says of each place one of two things: the thread the clock is filed
under had it when it was taken (`Had`), so that it may equal that thread's epoch and a
join with it must move the thread on; or anybody may join it as it is (`Learnable`). A signal
meta turns from the first to the second when it becomes active, because the signal's callback
increments the clock in the same step (`MetaFine`). The exception is what `loop.cc` leaves to an unlock
(`d.protected`); an epoch once left so stays allowed for clocks taken from it (`Behind`). Every
function of the analyses has a lemma that it keeps `Fine`.

**Regions** (`RegionsProofs`). `TablesFollowMemory` for any unit, any blocks and sections and any
number of threads and allocations. `MemInv`: allocations do not overlap, a thread between a call and
its callback has one that is no one else's, and an image is mapped as a whole. `PastInv`: an
access is to a unit of its allocation, and what has been handed out but not announced has none.
`RegInv`: the region map has exactly the usable allocations, and each table exactly the
accesses to them. Three facts about numbers carry the steps: the loop over units visits the units of
the bytes and no others (`UnitsVisited`), so that a free clears what an access has filled; allocations
that do not overlap share no unit, unless both are sections (`UnitsApart`), so that it clears
nothing else; and the last region that starts at or before an address is the one it is in
(`FilterFinds`). Sections may share a unit because they come and go together. The
order of callback and call is what makes it true: a block leaves the tables before
the system has it back, and enters them after.

**Only model-checked.** Liveness (`SomeoneResumes`, `AccessReturns`), which the prover
does not handle. `RacesNamed` and `ReportsOwnRaces` of `Sessions`: loading, saving and
reporting are folds over tables of any length, and what a fold computes is an
induction over data, which the prover cannot do either. `WaitEdgesReal` of `AdhocDetector`: the lock the analysis
takes for the latest one need not be held (finding 12), so whether an edge is real depends on how
the text takes and releases its locks.

## Findings

What the code does and a reader would not expect. These properties are stated in the
modules and checked by no run; adding one to the configuration named shows the
counterexample.

1. **`SingleThreadedRegion`** (`VerifierSched`, 3 threads, `Ops = {"access"}`): a
   thread that comes back from `PostponeThread` changes the meta maps under
   `internal_lock_` only (`verifier.cpp:1074`), while another is inside the region
   that the comment at line 616 calls single-threaded.
2. **`EveryWokenHasSemaphore`** (the same): `HandleRace` posts to threads it has
   seen postponed; one may have timed out and exited, and its semaphore is gone
   (`verifier.cpp:1099`, with the assertion commented out at line 1090).
3. **`NoEdgeLost`** with `RwlockCounts = FALSE` (`edges`): `Detector` (hence Djit)
   treats a read unlock as a mutex unlock, so the last of two overlapping readers
   overwrites the clock of the first and a writer misses an edge.
4. **`NoEdgeLost`** with `SignalHolding = FALSE` (`edges`): the callback of a signal
   runs before the signal, so without the mutex a waiter may register in between
   and is woken with no clock (`detector.cc:962`).
5. **`FastTrackComplete`** (`races`): a join drops the joined thread's read of a
   shared location, which a later writer other than the joiner need not have heard
   of; and when one reader is left the location becomes exclusive, although
   `reader_epoch` names another (`fast_track.cc:276-278`).
6. **`EveryFirstRaceFound`** (`races`): what the parent does between
   `pthread_create`'s return and the child's `ThreadStart` is taken to happen
   before the child (`execution_control.cpp:654`).
7. **`FreedMetasUnused`** (`verify` with 3 threads, accesses only): a history race
   that completes the arriving statement frees its set of metas, and the set is
   written to afterwards (`verifier.cpp:1304`, `1319`).
8. **`AllMatchedCompared`** (the same): when several first statements match, only one
   of them is compared; the snapshot it leaves makes the others take the
   access to be redundant (`verifier.cpp:1173`, `1317`).
9. **`ChecksConcurrentPairs`** (`segments`): a rwlock's release can set a clock
   backwards (`thread_sanitizer.cc:416`), and accesses that a join orders are
   reported.
10. **`ChecksAllPairs`** (`segments`): the iterator over the readers is not reset
    for the next writer (`thread_sanitizer.cc:467`, under "check all write-read pairs").
11. **`NextLoads`** (`racedb`): a kill between the saves of `race.db` and `sinfo.db`
    leaves instructions that nothing names; every later execution stops at the assertion
    (`race.cc:166`, `222`).
12. **`LatestLockHeld`** (`adhoc`): the stack of locks is pushed by some acquires and popped
    by other releases (`cond_wait.cc`), so the latest lock may be one that is not held.
13. **`NoUseAfterFree`** with `EarlyImages = TRUE` (`dispatch`): an image loaded while
    the detectors register makes an event for a queue whose lock is not there yet
    (`execution_control.cpp:478-481`).

The passing runs state what holds beside these: `FastTrackAgrees`,
`FirstRaceFound` and `TsReportsSound` name exactly the exceptions 5, 6 and 9.

## Plan

1. `VerifierSched` and its proofs: done.
2. `Detector` and `Races` and their proofs: done.
3. `VerifierRace`, its refinement of `VerifierSched`, and its proofs: done.
4. `ParallelDetection`, its refinement of `EventOrder`, and its proofs: done.
5. The proofs of `LockProgram`, `Hybrids`, `Sanitizer`, `ParallelVerifier`, `AdhocDetector`
   (`EpochsEnd`) and `Regions`: done.
6. More of the code: several units per access and freed regions in `VerifierRace`
   (the sets of metas that keep freed ones), `VerifierSl`, the clocks of conditions,
   barriers and semaphores in the verifiers and the lockset detectors, the maps of the
   creation handshake.

## What is not modelled, and why

* Knobs, logs, call stacks, the callbacks of Pin: they forward, configure or print;
  the pthread steps of the modules stand for the calls they forward.
* PreGroup: the lines of `profiler.cpp` that would enable it (64, 166) are commented out.
* The tracer (`src/src/tracer`): the sources do not compile (undeclared types, an
  enumerator that does not exist, headers that are missing), so there is no
  behaviour to model.
* Generated protobuf code; its use is in `StaticInfo` and `RaceDatabase`.
* The verifier's use of the region filter, a data race on the containers (see `Regions`).
* The hooks of ad-hoc synchronisation in the verifier, off without their knobs.

### Coarser than the code

Some actions are one step where the code takes several that nothing keeps together.
What is lost are the steps in between, not the outcome of any of them run alone.

* `AfterTryFailed`: the callbacks of a failed try call `UnblockThread` without
  `internal_lock_` (`verifier.cpp:350`, `413`, `428`), two operations on sets that other
  threads may be changing: undefined behaviour of the containers, which no model can
  bound.
* `ChooseRandomThreadBeforeProcess` reads `avail_thd_set_` under `verify_lock_` only
  (`verifier.cpp:608`), while callbacks change it under `internal_lock_`: the same.
* `Verify` walks `thd_ppmetas_map_` in one step, although a thread that comes back from
  its wait changes it then (finding 1).
* `ThreadStart` of a child whose parent exited before `GetParent`: the parent's entry
  is gone (`execution_control.cpp:700`), and `Detector` and `Verifier` dereference
  null. `Detector` and `VerifierRace` have the start that is left, of a child that looked
  its parent up in time; a step that ends the program is left out. `VerifierSched` has no
  parents.
* `PruneReaders`: FastTrack's walk over `meta_table_` after a join holds no lock
  (`fast_track.cc:271-280`). `Races` takes a step per unit; an insertion into the map
  during the walk is left out.
* `VisitSecond` and `VisitFirst`: the lookup of the first statements and the unlocked
  second lookup of the statement's metas (`parallel_verifier_ml.cpp:432`) are one step.
  A history thread that deletes the set between the second lookup and its use is in the
  model (`Missing`); one that deletes it between the two lookups has it created again.
* `AppendReport` and `WriteRaces`: a report longer than the stream's buffer reaches the
  file in several parts, and a kill may leave its last line cut short. An empty report
  file counts as none.
