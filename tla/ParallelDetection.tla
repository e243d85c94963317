-------------------------- MODULE ParallelDetection --------------------------
(* Parallel detection (core/execution_control.cpp, .hpp and core/event.h): the
   application threads send what they do as events to detection threads.  A
   memory event goes to the detector its unit belongs to and waits in a buffer
   of the thread until the buffer is full or the thread synchronises; any other
   event goes to every detector, after the thread's own buffers are emptied.
   Broadcast events are shared and freed by the detector whose decrement of
   the reference count, which is not atomic, brings it to zero.

   Left out: what an event says and what a detector concludes from it. Of a
   wrapped call the model keeps which of its two events a detector handles
   and whether the call releases or acquires: every acquire is ordered after
   all earlier releases, more than the program's locks would order. *)
EXTENDS Integers, Sequences, FiniteSets, FiniteSetsExt, Functions

CONSTANTS Threads, Root,   \* the program's threads and its first one
          NoThread,        \* no thread
          NumDetectors,    \* parallel_detector_number
          Units,           \* the memory units the program accesses
          MaxEventNum,     \* capacity of a buffer, 10 in event.h
          Calls,           \* the kinds of calls the program makes
          EarlyImages,     \* may images load while the detectors register
          MaxPending,      \* bound: events a detector may have pending
          Images,          \* bound: images loaded before the first thread
          MaxOps           \* bound: events of the program's accesses and calls

Detectors == 1..NumDetectors
NoEvent == [thd |-> NoThread]

VARIABLES
  pc,          \* where each thread is
  call,        \* the call it is in
  child,       \* the thread it creates or joins
  event,       \* the event it distributes
  out,         \* the event it pushes: event, or one of pre_event_deq_
  pos,         \* the detector it has pushed out to last; 0 before the first
  buffer,      \* app_thd_key: [Threads -> its ring for each detector]
  preEvents,   \* pre_event_deq_: events from before the first detector
  deq,         \* thd_deq_table_: [Detectors -> queue of events]
  registered,  \* the keys of thd_deq_table_
  locked,      \* the keys of thd_deqlk_table_
  dpc,         \* where each detection thread is
  current,     \* the event it handles
  reg,         \* the reference count it has read
  ref,         \* reference counts of the events that are allocated
  unlockedUse, \* a queue was used whose lock was not there
  count,       \* [Threads -> the number of its events]
  past,        \* [Threads -> for each thread, how many of its events happen before]
  published,   \* what the releases so far happen after
  issued,      \* all events
  handled,     \* [Detectors -> the events it has handled]
  ops, images  \* counters of the bounds

threadVars == <<pc, call, child, event, out, pos>>
queueVars == <<buffer, preEvents, deq, ref, unlockedUse>>
detectorVars == <<registered, locked, dpc, current, reg, handled>>
pastVars == <<count, past, published, issued>>
boundVars == <<ops, images>>
vars == <<threadVars, queueVars, detectorVars, pastVars, boundVars>>

\* The queues and buffers are the program's own; the promise is about what has
\* been issued and handled.
Order == INSTANCE EventOrder
  WITH Threads <- Threads, Detectors <- Detectors, issued <- issued, handled <- handled

-----------------------------------------------------------------------------
(* Calls. *)

Call(releases, acquires, before, after) ==
  [releases |-> releases, acquires |-> acquires, before |-> before, after |-> after]
(* releases, acquires: the call passes what the thread has done on to others,
   or takes over what they have done.  before, after: a detector has a handler
   for the event of the call's start, and of its end. *)

MutexCalls == {Call(FALSE, TRUE, TRUE, TRUE), Call(FALSE, FALSE, TRUE, TRUE),
               Call(TRUE, FALSE, TRUE, FALSE)}
RwlockCalls == {Call(FALSE, TRUE, TRUE, TRUE), Call(FALSE, FALSE, TRUE, TRUE),
                Call(TRUE, FALSE, TRUE, FALSE)}
CondCalls == {Call(TRUE, FALSE, TRUE, FALSE), Call(TRUE, TRUE, TRUE, TRUE)}
BarrierCalls == {Call(FALSE, FALSE, FALSE, FALSE), Call(TRUE, TRUE, TRUE, TRUE)}
SemCalls == {Call(FALSE, FALSE, FALSE, FALSE), Call(TRUE, FALSE, TRUE, FALSE),
             Call(FALSE, TRUE, TRUE, TRUE)}
MallocCalls == {Call(FALSE, FALSE, FALSE, TRUE), Call(FALSE, FALSE, TRUE, TRUE),
                Call(FALSE, FALSE, TRUE, FALSE)}
InstructionCalls == {Call(FALSE, FALSE, TRUE, TRUE)}  \* atomics, calls, returns

AllCalls == UNION {MutexCalls, RwlockCalls, CondCalls, BarrierCalls, SemCalls,
                   MallocCalls, InstructionCalls}
CreateCall == Call(TRUE, FALSE, FALSE, TRUE)
JoinCall == Call(FALSE, TRUE, TRUE, TRUE)
StartCall == Call(FALSE, FALSE, FALSE, TRUE)  \* HandleThreadStart: one event
ExitCall == Call(TRUE, FALSE, TRUE, FALSE)    \* HandleThreadExit: one event
ImageCall == Call(FALSE, FALSE, FALSE, TRUE)  \* HandleImageLoad: one event
NoCall == Call(FALSE, FALSE, FALSE, FALSE)

ASSUME DispatchAssumption ==
  /\ Root \in Threads /\ NoThread \notin Threads
  /\ NumDetectors \in Nat \ {0} /\ MaxEventNum \in Nat \ {0}
  /\ Units \subseteq Nat
  /\ Calls \subseteq AllCalls
  /\ EarlyImages \in BOOLEAN
  /\ MaxPending \in Nat \ {0} /\ Images \in Nat /\ MaxOps \in Nat

-----------------------------------------------------------------------------
(* EventBuffer: a ring of MaxEventNum + 1 slots. *)

Slots == MaxEventNum + 1
EmptyRing == [bgn |-> 0, end |-> 0, vec |-> [i \in 0..MaxEventNum |-> NoEvent]]
Empty(b) == b.bgn = b.end
(* Mutant: a push into the slot that tells full from empty. *)
FullLate(b) == b.bgn < b.end /\ b.end - b.bgn > MaxEventNum
Full(b) == IF b.bgn < b.end THEN b.end - b.bgn = MaxEventNum
           ELSE b.end - b.bgn + 1 = 0
Push(b, e) == [b EXCEPT !.vec[b.end] = e, !.end = (b.end + 1) % Slots]
Stored(b) == (b.end - b.bgn) % Slots  \* the number of times Pop can be called
(* Pop until Empty: what is pushed on, in this order, and the ring left. *)
Popped(b) == [i \in 1..Stored(b) |-> b.vec[(b.bgn + i - 1) % Slots]]
Drained(b) == [bgn |-> b.end, end |-> b.end,
               vec |-> [i \in 0..MaxEventNum |-> NoEvent]]

NoBuffers == <<>>
HasBuffers(t) == buffer[t] # NoBuffers
Unflushed(t) == IF HasBuffers(t) THEN {d \in Detectors : ~Empty(buffer[t][d])} ELSE {}

(* PushEventBufferToDetectionDeque, under the lock of the queue. *)
Flushed(t, d) == deq[d] \o Popped(buffer[t][d])

-----------------------------------------------------------------------------
(* Events. *)

(* A new event of t for the detectors in to; t has seen v.  CREATE_EVENT gives
   it one reference. *)
NewEvent(t, v, to, handler) ==
  [thd |-> t, num |-> count[t] + 1, after |-> v, to |-> to, handler |-> handler]
Create(e) ==
  /\ issued' = issued \cup {e}
  /\ count' = [count EXCEPT ![e.thd] = e.num]
  /\ past' = [past EXCEPT ![e.thd] = [e.after EXCEPT ![e.thd] = e.num]]
  /\ ref' = [f \in DOMAIN ref \cup {e} |-> IF f = e THEN 1 ELSE ref[f]]
Joined(v, w) == [t \in Threads |-> IF v[t] < w[t] THEN w[t] ELSE v[t]]

(* DISTRIBUTE_NONMEM_EVENT: make the event; the steps below send it. *)
Distribute(t, v, handler) ==
  LET e == NewEvent(t, v, Detectors, handler)
  IN Create(e) /\ event' = [event EXCEPT ![t] = e]

(* Bound: detectors keep up. *)
Accepts(d) == Len(deq[d]) + (IF dpc[d] = "deleting" THEN 1 ELSE 0) < MaxPending

(* The thread sends what it has buffered for one detector. *)
FlushBuffer(t) ==
  /\ event[t] # NoEvent /\ out[t] = NoEvent
  /\ Unflushed(t) # {}
  /\ LET d == Min(Unflushed(t))
     IN /\ Accepts(d)
        /\ deq' = [deq EXCEPT ![d] = Flushed(t, d)]
        /\ buffer' = [buffer EXCEPT ![t][d] = Drained(@)]
  /\ UNCHANGED <<threadVars, preEvents, ref, unlockedUse, detectorVars, pastVars, boundVars>>

Finished(t) ==
  /\ event' = [event EXCEPT ![t] = NoEvent]
  /\ out' = [out EXCEPT ![t] = NoEvent]
  /\ pos' = [pos EXCEPT ![t] = 0]

(* No detector has registered yet: the event is kept for later. *)
KeepEvent(t) ==
  /\ event[t] # NoEvent /\ out[t] = NoEvent /\ Unflushed(t) = {}
  /\ registered = {}
  /\ preEvents' = Append(preEvents, event[t])
  /\ Finished(t)
  /\ UNCHANGED <<pc, call, child, buffer, deq, ref, unlockedUse, detectorVars, pastVars, boundVars>>

(* Mutant: set_ref after the pushes, too late for the first detectors. *)
SetRefLate(e) == ref
SetRef(e) == [ref EXCEPT ![e] = NumDetectors]

(* Mutant: the thread's own buffers are not emptied first. *)
PushEventUnflushed(t) ==
  /\ out[t] = NoEvent /\ event[t] # NoEvent /\ registered = Detectors
  /\ \A d \in Detectors : Accepts(d)
  /\ deq' = [d \in Detectors |-> Append(deq[d], event[t])]
  /\ ref' = SetRef(event[t])
  /\ Finished(t)
  /\ UNCHANGED <<pc, call, child, buffer, preEvents, unlockedUse, detectorVars, pastVars, boundVars>>

(* Events kept go first; each is sent with as many references as detectors.
   PushEventToDetectionDeque for the next queue of the table; after the last
   one the loop ends.  A queue whose lock is missing would be a null pointer. *)
PushEvent(t) ==
  /\ event[t] # NoEvent /\ Unflushed(t) = {} /\ registered # {}
  /\ LET kept == out[t] = NoEvent /\ preEvents # <<>>
         e == IF out[t] # NoEvent THEN out[t]
              ELSE IF kept THEN Head(preEvents) ELSE event[t]
         rest == {d \in registered : d > pos[t]}
         d == Min(rest)
     IN /\ Accepts(d)
        /\ unlockedUse' = (d \notin locked)
        /\ deq' = [deq EXCEPT ![d] = Append(@, e)]
        /\ ref' = IF out[t] = NoEvent THEN SetRef(e) ELSE ref
        /\ preEvents' = IF kept THEN Tail(preEvents) ELSE preEvents
        /\ IF rest # {d}
           THEN /\ pos' = [pos EXCEPT ![t] = d]
                /\ out' = [out EXCEPT ![t] = e]
                /\ UNCHANGED event
           ELSE IF e = event[t] THEN Finished(t)
           ELSE /\ out' = [out EXCEPT ![t] = NoEvent]
                /\ pos' = [pos EXCEPT ![t] = 0]
                /\ UNCHANGED event
  /\ UNCHANGED <<pc, call, child, buffer, detectorVars, pastVars, boundVars>>

-----------------------------------------------------------------------------
(* Application threads. *)

KernelFree == \A d \in Detectors : dpc[d] # "registering"
Idle(t) == event[t] = NoEvent
Budget(n) == ops + n <= MaxOps /\ ops' = ops + n

(* HandleImageLoad, before the first thread starts. *)
ImageLoad ==
  /\ pc[Root] = "loading" /\ Idle(Root) /\ images < Images
  /\ EarlyImages \/ registered = {} \/ locked = Detectors
  /\ images' = images + 1
  /\ Distribute(Root, past[Root], TRUE)
  /\ UNCHANGED <<pc, call, child, out, pos, buffer, preEvents, deq, unlockedUse, detectorVars, published, ops>>

(* ThreadStart: announce the thread to its parent, under the kernel lock. *)
ThreadStart(t) ==
  /\ pc[t] \in {"loading", "born"} /\ Idle(t) /\ KernelFree
  /\ images = Images
  /\ pc' = [pc EXCEPT ![t] = "announced"]
  /\ UNCHANGED <<call, child, event, out, pos, queueVars, detectorVars, pastVars, boundVars>>

(* ThreadStart: wait for all detectors, then create the buffers. *)
CreateBuffers(t) ==
  /\ pc[t] = "announced" /\ registered = Detectors
  /\ buffer' = [buffer EXCEPT ![t] = [d \in Detectors |-> EmptyRing]]
  /\ pc' = [pc EXCEPT ![t] = "starting"]
  /\ UNCHANGED <<call, child, event, out, pos, preEvents, deq, ref, unlockedUse, detectorVars, pastVars, boundVars>>

(* HandleThreadStart; GetParent takes the kernel lock. *)
HandleThreadStart(t) ==
  /\ pc[t] = "starting" /\ KernelFree
  /\ Distribute(t, past[t], TRUE)
  /\ pc' = [pc EXCEPT ![t] = "ready"]
  /\ UNCHANGED <<call, child, out, pos, buffer, preEvents, deq, unlockedUse, detectorVars, published, boundVars>>

(* DISTRIBUTE_MEMORY_EVENT, of an event for one detector: it goes into the
   thread's buffer, which is emptied first if it is full. *)
DistributeMemory(t, d, e) ==
  LET b == buffer[t][d] IN
  /\ Create(e)
  /\ IF Full(b)
     THEN /\ deq' = [deq EXCEPT ![d] = Flushed(t, d)]
          /\ buffer' = [buffer EXCEPT ![t][d] = Push(Drained(b), e)]
     ELSE /\ buffer' = [buffer EXCEPT ![t][d] = Push(b, e)]
          /\ UNCHANGED deq

(* The units are dealt out to the detectors.  An access of several units makes
   an event for each. *)
Detector(u) == (u % NumDetectors) + 1

(* HandleBeforeMemRead, HandleBeforeMemWrite, and those after the access. *)
Access(t, u) ==
  /\ pc[t] = "ready" /\ Idle(t) /\ Budget(1)
  /\ DistributeMemory(t, Detector(u), NewEvent(t, past[t], {Detector(u)}, TRUE))
  /\ UNCHANGED <<pc, call, child, event, out, pos, preEvents, unlockedUse, detectorVars, published, images>>

(* A wrapper: the event of the start, *)
EnterCall(t, c, u) ==
  /\ pc[t] = "ready" /\ Idle(t)
  /\ call' = [call EXCEPT ![t] = c]
  /\ child' = [child EXCEPT ![t] = u]
  /\ Distribute(t, past[t], c.before)
  /\ pc' = [pc EXCEPT ![t] = "inside"]
  /\ UNCHANGED <<out, pos, buffer, preEvents, deq, unlockedUse, detectorVars, published, images>>

EnterWrapper(t) == Budget(2) /\ \E c \in Calls : EnterCall(t, c, NoThread)
EnterCreate(t) ==
  \E u \in Threads :
    /\ pc[u] = "unborn" /\ \A v \in Threads : child[v] # u
    /\ EnterCall(t, CreateCall, u) /\ UNCHANGED ops
EnterJoin(t) ==
  \E u \in Threads \ {t, Root} :
    /\ pc[u] # "unborn" /\ past[t][u] < count[u] \* not joined yet
    /\ EnterCall(t, JoinCall, u) /\ UNCHANGED ops

(* the original, when it does something that others see before it returns, *)
Created(t) == call[t] = CreateCall
Waits(t) == call[t].releases /\ call[t].acquires
CallOriginal(t) ==
  /\ pc[t] = "inside" /\ Idle(t)
  /\ \/ /\ Created(t)
        /\ pc' = [pc EXCEPT ![t] = "returning", ![child[t]] = "born"]
        /\ past' = [past EXCEPT ![child[t]] = past[t]]
        /\ UNCHANGED published
     \/ /\ Waits(t)
        /\ pc' = [pc EXCEPT ![t] = "returning"]
        /\ published' = Joined(published, past[t])
        /\ UNCHANGED past
  /\ UNCHANGED <<call, child, event, out, pos, queueVars, detectorVars, count, issued, boundVars>>

Seen(t) == IF child[t] # NoThread /\ ~Created(t) THEN Joined(past[t], past[child[t]])
           ELSE IF call[t].acquires THEN Joined(past[t], published) ELSE past[t]

(* and the event of its end; WaitForNewChild needs the child's announcement
   and the kernel lock. *)
LeaveCall(t) ==
  /\ Idle(t)
  /\ \/ pc[t] = "inside" /\ ~Created(t) /\ ~Waits(t)
     \/ pc[t] = "returning"
  /\ Created(t) => KernelFree /\ pc[child[t]] # "born"
  /\ call[t] = JoinCall /\ child[t] # NoThread => pc[child[t]] = "ended"
  /\ published' = IF pc[t] = "inside" /\ call[t].releases
                  THEN Joined(published, past[t]) ELSE published
  /\ Distribute(t, Seen(t), call[t].after)
  /\ pc' = [pc EXCEPT ![t] = "ready"]
  /\ call' = [call EXCEPT ![t] = NoCall]
  /\ child' = [child EXCEPT ![t] = NoThread]
  /\ UNCHANGED <<out, pos, buffer, preEvents, deq, unlockedUse, detectorVars, boundVars>>

(* ThreadExit: HandleThreadExit, then FreeEventBuffer. *)
ThreadExit(t) ==
  /\ pc[t] = "ready" /\ Idle(t)
  /\ Distribute(t, past[t], TRUE)
  /\ pc' = [pc EXCEPT ![t] = "exiting"]
  /\ UNCHANGED <<call, child, out, pos, buffer, preEvents, deq, unlockedUse, detectorVars, published, boundVars>>

FreeEventBuffer(t) ==
  /\ pc[t] = "exiting" /\ Idle(t)
  /\ buffer' = [buffer EXCEPT ![t] = NoBuffers]
  /\ pc' = [pc EXCEPT ![t] = "ended"]
  /\ UNCHANGED <<call, child, event, out, pos, preEvents, deq, ref, unlockedUse, detectorVars, pastVars, boundVars>>

-----------------------------------------------------------------------------
(* Detection threads. *)

Freed(e) == [f \in DOMAIN ref \ {e} |-> ref[f]]

(* CreateDetectionThread, under the kernel lock: the queue, *)
RegisterQueue(d) ==
  /\ dpc[d] = "spawned" /\ KernelFree
  /\ EarlyImages \/ Idle(Root)
  /\ registered' = registered \cup {d}
  /\ dpc' = [dpc EXCEPT ![d] = "registering"]
  /\ UNCHANGED <<threadVars, queueVars, locked, current, reg, handled, pastVars, boundVars>>

(* and its lock. *)
RegisterLock(d) ==
  /\ dpc[d] = "registering"
  /\ locked' = locked \cup {d}
  /\ dpc' = [dpc EXCEPT ![d] = "waiting"]
  /\ UNCHANGED <<threadVars, queueVars, registered, current, reg, handled, pastVars, boundVars>>

(* GetEventBase and the handler; an event without one is dropped, not freed.
   After the handler, DELETE_EVENT reads the reference count; an event of this
   detector alone is freed at once. *)
HandleEvent(d) ==
  /\ dpc[d] = "waiting" /\ deq[d] # <<>>
  /\ LET e == Head(deq[d])
     IN /\ deq' = [deq EXCEPT ![d] = Tail(@)]
        /\ handled' = [handled EXCEPT ![d] = @ \cup {e}]
        /\ IF e.handler /\ e.to # {d}
           THEN /\ current' = [current EXCEPT ![d] = e]
                /\ reg' = [reg EXCEPT ![d] = ref[e]]
                /\ dpc' = [dpc EXCEPT ![d] = "deleting"]
           ELSE UNCHANGED <<current, reg, dpc>>
        /\ ref' = IF e.to = {d} THEN Freed(e) ELSE ref
  /\ UNCHANGED <<threadVars, buffer, preEvents, unlockedUse, registered, locked, pastVars, boundVars>>

(* and the decremented count is written back, or the event freed. *)
DeleteEvent(d) ==
  /\ dpc[d] = "deleting"
  /\ ref' = IF reg[d] = 1
            THEN Freed(current[d])
            ELSE [ref EXCEPT ![current[d]] = reg[d] - 1]
  /\ current' = [current EXCEPT ![d] = NoEvent]
  /\ reg' = [reg EXCEPT ![d] = 0]
  /\ dpc' = [dpc EXCEPT ![d] = "waiting"]
  /\ UNCHANGED <<threadVars, buffer, preEvents, deq, unlockedUse, registered, locked, handled, pastVars, boundVars>>

(* IsProcessExiting: Pin ends its internal threads after the program's. *)
ProcessExiting == \A t \in Threads : pc[t] \in {"unborn", "ended"}

ExitDetection(d) ==
  /\ dpc[d] = "waiting" /\ deq[d] = <<>> /\ ProcessExiting
  /\ dpc' = [dpc EXCEPT ![d] = "exited"]
  /\ UNCHANGED <<threadVars, queueVars, registered, locked, current, reg, handled, pastVars, boundVars>>

(* FiniUnlocked returns. *)
Done == ProcessExiting /\ \A d \in Detectors : dpc[d] = "exited"
ProgramExit == Done /\ UNCHANGED vars

-----------------------------------------------------------------------------
Init ==
  /\ pc = [t \in Threads |-> IF t = Root THEN "loading" ELSE "unborn"]
  /\ call = [t \in Threads |-> NoCall]
  /\ child = [t \in Threads |-> NoThread]
  /\ event = [t \in Threads |-> NoEvent]
  /\ out = [t \in Threads |-> NoEvent]
  /\ pos = [t \in Threads |-> 0]
  /\ buffer = [t \in Threads |-> NoBuffers]
  /\ preEvents = <<>>
  /\ deq = [d \in Detectors |-> <<>>]
  /\ registered = {} /\ locked = {}
  /\ dpc = [d \in Detectors |-> "spawned"]
  /\ current = [d \in Detectors |-> NoEvent]
  /\ reg = [d \in Detectors |-> 0]
  /\ ref = <<>>
  /\ unlockedUse = FALSE
  /\ count = [t \in Threads |-> 0]
  /\ past = [t \in Threads |-> [u \in Threads |-> 0]]
  /\ published = [u \in Threads |-> 0]
  /\ issued = {}
  /\ handled = [d \in Detectors |-> {}]
  /\ ops = 0 /\ images = 0

Send(t) == FlushBuffer(t) \/ KeepEvent(t) \/ PushEvent(t)

ThreadNext(t) ==
  \/ Send(t)
  \/ t = Root /\ ImageLoad
  \/ ThreadStart(t) \/ CreateBuffers(t) \/ HandleThreadStart(t)
  \/ \E u \in Units : Access(t, u)
  \/ EnterWrapper(t) \/ EnterCreate(t) \/ EnterJoin(t)
  \/ CallOriginal(t) \/ LeaveCall(t)
  \/ ThreadExit(t) \/ FreeEventBuffer(t)

DetectorNext(d) ==
  \/ RegisterQueue(d) \/ RegisterLock(d)
  \/ HandleEvent(d) \/ DeleteEvent(d) \/ ExitDetection(d)

Next ==
  \/ \E t \in Threads : ThreadNext(t)
  \/ \E d \in Detectors : DetectorNext(d)
  \/ ProgramExit

Spec == Init /\ [][Next]_vars

-----------------------------------------------------------------------------
(* Properties. *)

(* Whatever the buffers, queues and broadcasts interleave to, each detector
   handles each of its events once, after those that happen before it, and in
   the end it handles them all. *)
KeepsOrder == Order!OrderSpec

Reachable(t) == {event[t], out[t]} \cup
  UNION {{buffer[t][d].vec[i] : i \in 0..MaxEventNum} : d \in DOMAIN buffer[t]}

(* An event that somebody can still reach is not freed, although decrements
   of its reference count can be lost; and "each detection queue shuold be
   synchronized by a lock": no thread uses a queue whose lock is not in the table. *)
NoUseAfterFree ==
  /\ ~unlockedUse
  /\ \A e \in (UNION {Reachable(t) : t \in Threads}) \cup Range(preEvents) \cup
              (UNION {Range(deq[d]) \cup {current[d]} : d \in Detectors}) :
       e # NoEvent => e \in DOMAIN ref

(* When the tool ends no event is left in a buffer or a queue. *)
NothingLeft ==
  Done => \A d \in Detectors : handled[d] = {e \in issued : d \in e.to}
=============================================================================
