------------------------ MODULE ParallelDetectionProofs ------------------------
(***************************************************************************)
(* That parallel detection keeps the promise of EventOrder, for any number *)
(* of threads and detectors, any size of the buffers and any bound, when   *)
(* no image is loaded while the detectors register: an event reaches each  *)
(* of its detectors once and after all events that happen before it, and   *)
(* is not freed before.  A thread passes on what it has done only after    *)
(* its events are in the queues; so whatever happens before an event that  *)
(* is pushed has been pushed, or is the same thread's and goes first.      *)
(***************************************************************************)
EXTENDS ParallelDetection, FiniteSetTheorems, TLAPS

-----------------------------------------------------------------------------
(* The inductive invariant: types and control. *)

PCs == {"unborn", "born", "loading", "announced", "starting", "ready", "inside", "returning",
        "exiting", "ended"}
DPCs == {"spawned", "registering", "waiting", "deleting", "exited"}

Clocks == [Threads -> Nat]
Events == [thd : Threads, num : Nat \ {0}, after : Clocks, to : SUBSET Detectors, handler : BOOLEAN]
Rings == [bgn : 0..MaxEventNum, end : 0..MaxEventNum, vec : [0..MaxEventNum -> Events \cup {NoEvent}]]
CallRecs == [releases : BOOLEAN, acquires : BOOLEAN, before : BOOLEAN, after : BOOLEAN]

Types ==
  /\ pc \in [Threads -> PCs] /\ call \in [Threads -> CallRecs]
  /\ child \in [Threads -> Threads \cup {NoThread}]
  /\ event \in [Threads -> Events \cup {NoEvent}] /\ out \in [Threads -> Events \cup {NoEvent}]
  /\ pos \in [Threads -> 0..(NumDetectors - 1)]
  /\ buffer \in [Threads -> [Detectors -> Rings] \cup {NoBuffers}]
  /\ preEvents \in Seq(Events) /\ deq \in [Detectors -> Seq(Events)]
  /\ registered \subseteq Detectors /\ locked \subseteq Detectors
  /\ dpc \in [Detectors -> DPCs] /\ current \in [Detectors -> Events \cup {NoEvent}]
  /\ count \in Clocks /\ past \in [Threads -> Clocks] /\ published \in Clocks
  /\ issued \subseteq Events /\ handled \in [Detectors -> SUBSET Events]

\* Where a thread may be distributing an event, and where it has buffers.
SendingPC == {"loading", "ready", "inside", "exiting"}
BufferPC == {"starting", "ready", "inside", "returning", "exiting"}

\* What the place of a thread says of its event, its buffers and its child.
PlaceInv ==
  /\ pc[Root] # "unborn"
  /\ \A t \in Threads :
       /\ pc[t] \in {"loading"} => t = Root
       /\ event[t] # NoEvent => pc[t] \in SendingPC
       /\ out[t] # NoEvent => event[t] # NoEvent
       /\ pos[t] = 0 <=> out[t] = NoEvent
       /\ buffer[t] # NoBuffers <=> pc[t] \in BufferPC
       /\ child[t] # NoThread => pc[t] \in {"inside", "returning"}
       /\ child[t] # NoThread => call[t] \in {CreateCall, JoinCall}
       /\ pc[t] \in {"inside", "returning"} /\ call[t] = CreateCall => child[t] # NoThread
       /\ child[t] # NoThread =>
            (pc[child[t]] = "unborn" <=> pc[t] = "inside" /\ call[t] = CreateCall)
  /\ \A t, u \in Threads : t # u /\ child[t] = child[u] /\ child[t] # NoThread =>
                              pc[child[t]] # "unborn"

\* Until all detectors have registered only the first thread is there; it sends
\* nothing while they do.
StartInv ==
  /\ registered = {d \in Detectors : dpc[d] # "spawned"}
  /\ locked = {d \in Detectors : dpc[d] \notin {"spawned", "registering"}}
  /\ locked # Detectors => \A t \in Threads :
       pc[t] \in IF t = Root THEN {"loading", "announced", "starting"} ELSE {"unborn"}
  /\ pc[Root] = "starting" => registered = Detectors
  /\ \A t \in Threads : event[t] # NoEvent /\ registered # {} => locked = Detectors
  /\ \A t \in Threads : out[t] # NoEvent => locked = Detectors
  /\ ~unlockedUse

\* A detector that has exited will get no more events.
ExitInv == \A d \in Detectors : dpc[d] = "exited" => ProcessExiting /\ deq[d] = <<>>

ControlInv == Types /\ PlaceInv /\ StartInv /\ ExitInv

-----------------------------------------------------------------------------
(* The events. *)

\* What t has in its buffer for d.
KeptIn(rings, d) == IF rings # NoBuffers THEN Range(Popped(rings[d])) ELSE {}
Kept(t, d) == KeptIn(buffer[t], d)

Sent(d) == handled[d] \cup Range(deq[d])

\* The events of t that are on their way to d.
YetIn(kept, made, sending, last, pre, t, d) ==
  kept \cup {e \in {made} : e # NoEvent /\ (sending = e => last < d)}
       \cup {e \in {sending} : e # NoEvent /\ last < d}
       \cup (IF t = Root THEN Range(pre) ELSE {})
Yet(t, d) == YetIn(Kept(t, d), event[t], out[t], pos[t], preEvents, t, d)

\* Events are numbered, and nobody has heard of one that is not there.
CountInv ==
  /\ \A t \in Threads : IsFiniteSet(Order!IssuedBy(t)) /\ count[t] = Cardinality(Order!IssuedBy(t))
  /\ \A e \in issued : /\ e.num <= count[e.thd] /\ e.after[e.thd] = e.num - 1
                       /\ \A u \in Threads : e.after[u] <= count[u]
  /\ \A t \in Threads : past[t][t] = count[t] /\ published[t] <= count[t]
  /\ \A t, u \in Threads : past[t][u] <= count[u]
  /\ \A t \in Threads : pc[t] = "unborn" => count[t] = 0

\* A buffer has events of its thread for its detector, in order; the slots that
\* are not in use are empty.
RingOK(b, I, t, d) ==
  /\ \A i \in 1..Stored(b) : Popped(b)[i] \in I /\ Popped(b)[i].thd = t /\ Popped(b)[i].to = {d}
  /\ \A i, j \in 1..Stored(b) : i < j => Popped(b)[i].num < Popped(b)[j].num
  /\ \A i \in 0..MaxEventNum : b.vec[i] # NoEvent => b.vec[i] \in Range(Popped(b))
RingInv == \A t \in Threads, d \in Detectors : HasBuffers(t) => RingOK(buffer[t][d], issued, t, d)

\* A thread that passes on what it has done has no events left.
PassingPC == {"inside", "returning", "exiting", "ended"}
QuietInv == \A t \in Threads : pc[t] \in PassingPC /\ event[t] = NoEvent =>
                                 \A d \in Detectors : Kept(t, d) = {}

\* An event for all detectors comes after what is in the thread's buffers.
IsBroadcast(e, t) == e \in issued /\ e.thd = t /\ e.to = Detectors
EventInv ==
  \A t \in Threads :
    /\ event[t] # NoEvent => IsBroadcast(event[t], t) /\ event[t].num = count[t]
    /\ out[t] # NoEvent => IsBroadcast(out[t], t)
    /\ event[t] # NoEvent => \A d \in Detectors : \A e \in Kept(t, d) : e.num < event[t].num
    /\ out[t] # NoEvent => \A d \in Detectors : Kept(t, d) = {}

\* The events kept for the detectors are the first of the first thread, and are
\* gone before there is another.
PreLeft == preEvents # <<>> \/ \E t \in Threads : out[t] \notin {NoEvent, event[t]}
PreInv ==
  /\ \A i \in 1..Len(preEvents) : IsBroadcast(preEvents[i], Root)
  /\ \A i, j \in 1..Len(preEvents) : i < j => preEvents[i].num < preEvents[j].num
  /\ \A i \in 1..Len(preEvents) : event[Root] # NoEvent => preEvents[i].num < event[Root].num
  /\ \A t \in Threads : out[t] \notin {NoEvent, event[t]} =>
       /\ t = Root /\ out[t].num < event[t].num
       /\ \A i \in 1..Len(preEvents) : out[t].num < preEvents[i].num
  /\ \A t \in Threads : out[t] # NoEvent /\ out[t] = event[t] => preEvents = <<>>
  /\ PreLeft => /\ \A t \in Threads \ {Root} : pc[t] = "unborn"
                /\ \/ pc[Root] \in {"loading", "announced", "starting"}
                   \/ pc[Root] = "ready" /\ event[Root] # NoEvent
                /\ \A d \in Detectors : Kept(Root, d) = {}

\* Each event has been sent or is on its way.
TrackInv ==
  /\ \A e \in issued : \A d \in e.to : e \in Sent(d) \cup Yet(e.thd, d)
  /\ \A t \in Threads, d \in Detectors : Yet(t, d) \cap Sent(d) = {}

\* What a thread has heard of has been sent.
HeardIn(v, t, I, h, q) ==
  \A f \in I : f.thd # t /\ f.num <= v[f.thd] => \A d \in f.to : f \in h[d] \cup Range(q[d])
HeardOf(v, t) == HeardIn(v, t, issued, handled, deq)
HeardInv ==
  /\ \A e \in issued : HeardOf(e.after, e.thd)
  /\ \A t \in Threads : HeardOf(past[t], t)
  /\ HeardOf(published, NoThread)

\* Among the events I, those in h have been handled and those in q are to be, in an
\* order that is possible; what comes first of a thread was sent first.
QueueOK(q, h, I, d) ==
  /\ \A e \in h \cup Range(q) : e \in I /\ d \in e.to
  /\ \A e \in h \cup Range(q) : \A f \in I :
       f.thd = e.thd /\ f.num < e.num /\ d \in f.to => f \in h \cup Range(q)
  /\ \A i, j \in 1..Len(q) : i < j => q[i] # q[j] /\ ~Order!Before(q[j], q[i])
  /\ Range(q) \cap h = {}
QueueInv == \A d \in Detectors : QueueOK(deq[d], handled[d], issued, d)

OrderInv == /\ ControlInv /\ CountInv /\ RingInv /\ QuietInv /\ EventInv /\ PreInv
            /\ TrackInv /\ HeardInv /\ QueueInv

-----------------------------------------------------------------------------
(* Reference counts. *)

\* The detectors that have not handled e, or are about to delete it.
RemainingIn(h, p, c, e) == {d \in e.to : e \notin h[d] \/ (p[d] = "deleting" /\ c[d] = e)}
Remaining(e) == RemainingIn(handled, dpc, current, e)

\* Its count has not been set: nobody has started to send it.
UnsetIn(h, q, o, e) == /\ \A d \in Detectors : e \notin h[d] \cup Range(q[d])
                       /\ \A t \in Threads : o[t] # e
Unset(e) == UnsetIn(handled, deq, out, e)

Single(e) == \E d \in Detectors : e.to = {d}

\* A count is never too small: a lost decrement only makes it larger, and the one that a
\* detector has read was not too small, and fewer remain when it is written back.
RefInv ==
  /\ \A e \in issued : e.to = Detectors \/ Single(e)
  /\ \A e \in issued : Remaining(e) # {} => e \in DOMAIN ref
  /\ \A e \in issued \cap DOMAIN ref : ~Single(e) /\ ~Unset(e) => Cardinality(Remaining(e)) <= ref[e]
  /\ (\A e \in DOMAIN ref : ref[e] \in Int) /\ reg \in [Detectors -> Int]
  /\ \A d \in Detectors :
       IF dpc[d] = "deleting"
       THEN /\ current[d] \in handled[d] /\ ~Single(current[d])
            /\ Cardinality(Remaining(current[d])) <= reg[d]
       ELSE current[d] = NoEvent

-----------------------------------------------------------------------------
(* Constants and rings. *)

USE DEF threadVars, queueVars, detectorVars, pastVars, boundVars, Kept

\* There is a detector; events are not NoEvent, nor buffers NoBuffers; calls of the
\* program are not the creation of a thread.
LEMMA Constants ==
  /\ NumDetectors \in Nat /\ 1 \in Detectors /\ Detectors \subseteq Nat
  /\ IsFiniteSet(Detectors) /\ Cardinality(Detectors) = NumDetectors
  /\ NoEvent \notin Events
  /\ \A b \in [Detectors -> Rings] : b # NoBuffers
  /\ \A c \in Calls : c \in CallRecs /\ c # CreateCall
  /\ CreateCall \in CallRecs /\ JoinCall \in CallRecs /\ NoCall \in CallRecs
  /\ CreateCall # JoinCall /\ CreateCall # NoCall
  <1>1. NumDetectors \in Nat \ {0} BY DispatchAssumption
  <1>2. 1 \in Detectors /\ Detectors \subseteq Nat BY <1>1 DEF Detectors
  <1>3. IsFiniteSet(Detectors) /\ Cardinality(Detectors) = NumDetectors
    BY <1>1, FS_Interval DEF Detectors
  <1>4. NoEvent \notin Events BY DispatchAssumption DEF NoEvent, Events
  <1>5. \A b \in [Detectors -> Rings] : b # NoBuffers BY <1>2 DEF NoBuffers
  <1>6. ASSUME NEW c \in AllCalls PROVE c \in CallRecs /\ c # CreateCall
    <2>1. \E r, a, p, q \in BOOLEAN : c = Call(r, a, p, q) /\ (r /\ ~a => p)
      BY DEF AllCalls, MutexCalls, RwlockCalls, CondCalls, BarrierCalls, SemCalls, MallocCalls,
             InstructionCalls
    <2> QED BY <2>1 DEF Call, CallRecs, CreateCall
  <1>7. /\ CreateCall \in CallRecs /\ JoinCall \in CallRecs /\ NoCall \in CallRecs
        /\ CreateCall # JoinCall /\ CreateCall # NoCall
    BY DEF Call, CallRecs, CreateCall, JoinCall, NoCall
  <1> QED BY <1>1, <1>2, <1>3, <1>4, <1>5, <1>6, <1>7, DispatchAssumption

\* Counting round the ring.
LEMMA Around ==
  /\ Slots \in Nat /\ Slots = MaxEventNum + 1 /\ MaxEventNum \in Nat \ {0}
  /\ \A a : a \in Int /\ a >= -Slots /\ a < 2 * Slots =>
       a % Slots = IF a < 0 THEN a + Slots ELSE IF a >= Slots THEN a - Slots ELSE a
  <1>1. Slots \in Nat /\ Slots = MaxEventNum + 1 /\ MaxEventNum \in Nat \ {0}
    BY DispatchAssumption DEF Slots
  <1>2. ASSUME NEW a \in 0..MaxEventNum
        PROVE  a % Slots = a /\ (a + Slots) % Slots = a /\ (a - Slots) % Slots = a
    BY DispatchAssumption DEF Slots
  <1>3. ASSUME NEW a \in Int, a >= -Slots, a < 2 * Slots
        PROVE  a % Slots = IF a < 0 THEN a + Slots ELSE IF a >= Slots THEN a - Slots ELSE a
    <2>1. CASE a < 0
      <3>1. a + Slots \in 0..MaxEventNum /\ a = (a + Slots) - Slots BY <1>1, <1>3, <2>1
      <3> QED BY <1>2, <2>1, <3>1
    <2>2. CASE a >= Slots
      <3>1. a - Slots \in 0..MaxEventNum /\ a = (a - Slots) + Slots BY <1>1, <1>3, <2>2
      <3>2. ~(a < 0) BY <1>1, <2>2
      <3> QED BY <1>2, <2>2, <3>1, <3>2
    <2>3. CASE a >= 0 /\ a < Slots
      <3>1. a \in 0..MaxEventNum BY <1>1, <2>3
      <3> QED BY <1>1, <1>2, <2>3, <3>1
    <2> QED BY <1>1, <2>1, <2>2, <2>3
  <1> QED BY <1>1, <1>3

\* What can be popped is a sequence; a ring is empty when nothing can.
LEMMA PoppedProps ==
  ASSUME NEW b \in Rings
  PROVE  /\ Stored(b) \in 0..MaxEventNum /\ (Stored(b) = 0 <=> Empty(b))
         /\ Popped(b) \in Seq(Events \cup {NoEvent}) /\ Len(Popped(b)) = Stored(b)
         /\ Range(Popped(b)) = {Popped(b)[i] : i \in 1..Stored(b)}
  <1>1. /\ MaxEventNum \in Nat \ {0} /\ b.bgn \in 0..MaxEventNum /\ b.end \in 0..MaxEventNum
        /\ b.vec \in [0..MaxEventNum -> Events \cup {NoEvent}]
    BY DispatchAssumption DEF Rings
  <1>2. Stored(b) \in 0..MaxEventNum /\ (Stored(b) = 0 <=> Empty(b))
    <2> DEFINE a == b.end - b.bgn
    <2>1. a \in Int /\ a >= -Slots /\ a < 2 * Slots BY <1>1, Around
    <2>2. a % Slots = IF a < 0 THEN a + Slots ELSE IF a >= Slots THEN a - Slots ELSE a
      BY Zenon, <2>1, Around
    <2> QED BY <1>1, <2>2, Around DEF Stored, Empty
  <1>3. ASSUME NEW i \in 1..Stored(b) PROVE (b.bgn + i - 1) % Slots \in 0..MaxEventNum
    BY <1>1, <1>2, Around
  <1>4. Popped(b) \in [1..Stored(b) -> Events \cup {NoEvent}] BY <1>1, <1>3 DEF Popped
  <1>5. Popped(b) \in Seq(Events \cup {NoEvent}) /\ Len(Popped(b)) = Stored(b)
    BY <1>2, <1>4
  <1> QED BY <1>2, <1>4, <1>5 DEF Range

\* A place in use, counted round the ring, is not the end.
LEMMA InUse ==
  ASSUME NEW m \in Nat, NEW bgn \in 0..m, NEW end \in 0..m, NEW n \in Nat, NEW a \in Int,
         n = IF end >= bgn THEN end - bgn ELSE end - bgn + (m + 1), bgn <= a, a < bgn + n
  PROVE  /\ a < m + 1 => a \in 0..m /\ a # end
         /\ ~(a < m + 1) => a - (m + 1) \in 0..m /\ a - (m + 1) # end
  OBVIOUS

\* A push into a ring that is not full adds the event at its end.
LEMMA PushProps ==
  ASSUME NEW b \in Rings, NEW e \in Events, ~Full(b)
  PROVE  /\ Push(b, e) \in Rings /\ Stored(Push(b, e)) = Stored(b) + 1
         /\ \A i \in 1..Stored(b) : Popped(Push(b, e))[i] = Popped(b)[i]
         /\ Popped(Push(b, e))[Stored(b) + 1] = e
         /\ \A i \in 0..MaxEventNum : Push(b, e).vec[i] \in {b.vec[i], e}
  <1> DEFINE c == Push(b, e)
             n == Stored(b)
  <1>1. /\ MaxEventNum \in Nat \ {0} /\ b.bgn \in 0..MaxEventNum /\ b.end \in 0..MaxEventNum
        /\ b.vec \in [0..MaxEventNum -> Events \cup {NoEvent}]
    BY DispatchAssumption DEF Rings
  <1>2. /\ c.bgn = b.bgn /\ c.end = (b.end + 1) % Slots /\ c.vec = [b.vec EXCEPT ![b.end] = e]
    BY DEF Push, Rings
  <1>3. c.end = IF b.end = MaxEventNum THEN 0 ELSE b.end + 1
    BY <1>1, <1>2, Around
  <1>4. c \in Rings
    <2>1. c = [b EXCEPT !.vec = [b.vec EXCEPT ![b.end] = e], !.end = (b.end + 1) % Slots]
      BY DEF Push, Rings
    <2>2. c.end \in 0..MaxEventNum BY <1>1, <1>3
    <2>3. [b.vec EXCEPT ![b.end] = e] \in [0..MaxEventNum -> Events \cup {NoEvent}] BY <1>1
    <2> QED BY <1>2, <2>1, <2>2, <2>3 DEF Rings
  <1>5. n = IF b.end >= b.bgn THEN b.end - b.bgn ELSE b.end - b.bgn + Slots
    BY <1>1, Around DEF Stored
  <1>6. Stored(c) = IF c.end >= b.bgn THEN c.end - b.bgn ELSE c.end - b.bgn + Slots
    <2>1. c.end \in 0..MaxEventNum /\ c.bgn = b.bgn BY <1>1, <1>2, <1>3
    <2> HIDE DEF c
    <2> DEFINE a == c.end - b.bgn
    <2>2. a \in Int /\ a >= -Slots /\ a < 2 * Slots BY <1>1, <2>1, Around
    <2>3. a % Slots = IF a < 0 THEN a + Slots ELSE IF a >= Slots THEN a - Slots ELSE a
      BY Zenon, <2>2, Around
    <2> QED BY <1>1, <2>1, <2>3, Around DEF Stored
  <1>7. Stored(c) = n + 1 BY <1>1, <1>3, <1>5, <1>6, Around DEF Full
  <1>8. n \in 0..MaxEventNum /\ Stored(c) \in 0..MaxEventNum BY <1>4, PoppedProps
  <1>9. (b.bgn + (n + 1) - 1) % Slots = b.end
    <2> DEFINE a == b.bgn + (n + 1) - 1
    <2>1. a \in Int /\ a >= -Slots /\ a < 2 * Slots BY <1>1, <1>5, Around
    <2>2. a % Slots = IF a < 0 THEN a + Slots ELSE IF a >= Slots THEN a - Slots ELSE a
      BY Zenon, <2>1, Around
    <2>3. a = IF b.end >= b.bgn THEN b.end ELSE b.end + Slots BY <1>1, <1>5, Around
    <2>4. a % Slots = b.end
      <3> HIDE DEF a
      <3> QED BY <1>1, <2>1, <2>2, <2>3, Around
    <2> QED BY Zenon, <2>4
  <1>10. ASSUME NEW i \in 1..n
         PROVE  (b.bgn + i - 1) % Slots \in 0..MaxEventNum /\ (b.bgn + i - 1) % Slots # b.end
    <2> DEFINE a == b.bgn + i - 1
    <2>0. a \in Int /\ a >= -Slots /\ a < 2 * Slots BY <1>1, <1>8, Around
    <2>1. a % Slots = IF a < 0 THEN a + Slots ELSE IF a >= Slots THEN a - Slots ELSE a
      BY Zenon, <2>0, Around
    <2>2. n < MaxEventNum + 1 /\ n + 1 <= MaxEventNum BY <1>1, <1>7, <1>8
    <2>3. a = b.bgn + i - 1 OBVIOUS
    <2>4. a % Slots \in 0..MaxEventNum /\ a % Slots # b.end
      <3> HIDE DEF a
      <3>0. a >= 0 /\ a \in Int /\ Slots \in Nat BY <1>1, <2>3, Around
      <3>1. i \in Int /\ 1 <= i /\ i <= n /\ n \in Nat BY <1>8
      <3>2. b.bgn <= a /\ a < b.bgn + n BY <1>1, <2>3, <3>1
      <3>3. Slots = MaxEventNum + 1 /\ MaxEventNum \in Nat BY Around
      <3> HIDE DEF n
      <3>4. /\ a < MaxEventNum + 1 => a \in 0..MaxEventNum /\ a # b.end
            /\ ~(a < MaxEventNum + 1) => a - (MaxEventNum + 1) \in 0..MaxEventNum
                                         /\ a - (MaxEventNum + 1) # b.end
        <4>1. n = IF b.end >= b.bgn THEN b.end - b.bgn ELSE b.end - b.bgn + (MaxEventNum + 1)
          BY <1>5, <3>3
        <4> QED BY <1>1, <3>0, <3>1, <3>2, <3>3, <4>1, InUse
      <3>5. a % Slots = IF a < MaxEventNum + 1 THEN a ELSE a - (MaxEventNum + 1)
        BY <2>1, <3>0, <3>3
      <3> QED BY <3>4, <3>5
    <2> QED BY Zenon, <2>4
  <1>11. \A i \in 1..n : Popped(c)[i] = Popped(b)[i]
    BY <1>1, <1>2, <1>7, <1>8, <1>10 DEF Popped
  <1>12. Popped(c)[n + 1] = e BY <1>1, <1>2, <1>7, <1>8, <1>9 DEF Popped
  <1>13. \A i \in 0..MaxEventNum : c.vec[i] \in {b.vec[i], e} BY <1>1, <1>2
  <1> QED BY <1>4, <1>7, <1>11, <1>12, <1>13

\* A drained ring is empty, and has room.
LEMMA DrainedProps ==
  ASSUME NEW b \in Rings
  PROVE  /\ Drained(b) \in Rings /\ Stored(Drained(b)) = 0 /\ ~Full(Drained(b))
         /\ EmptyRing \in Rings /\ Stored(EmptyRing) = 0
         /\ \A i \in 0..MaxEventNum : Drained(b).vec[i] = NoEvent /\ EmptyRing.vec[i] = NoEvent
  BY DispatchAssumption DEF Drained, EmptyRing, Rings, Stored, Slots, Full
-----------------------------------------------------------------------------
(* The steps. *)

\* The steps that make an event for all detectors.
Distributes(t) ==
  \/ t = Root /\ ImageLoad
  \/ HandleThreadStart(t)
  \/ EnterWrapper(t) \/ EnterCreate(t) \/ EnterJoin(t)
  \/ LeaveCall(t) \/ ThreadExit(t)

LEMMA SeenType ==
  ASSUME Types, NEW t \in Threads
  PROVE  past[t] \in Clocks /\ Seen(t) \in Clocks
  BY DEF Types, Clocks, Seen, Joined

LEMMA DistributeForm ==
  ASSUME Types, PlaceInv, NEW t \in Threads, Distributes(t)
  PROVE  /\ event[t] = NoEvent /\ out[t] = NoEvent
         /\ \E v \in {past[t], Seen(t)}, h \in BOOLEAN : Distribute(t, v, h)
         /\ UNCHANGED <<out, pos, buffer, preEvents, deq, unlockedUse, detectorVars>>
  <1> USE DEF Types, PlaceInv, SendingPC, Idle
  <1>1. CASE t = Root /\ ImageLoad BY <1>1 DEF ImageLoad
  <1>2. CASE HandleThreadStart(t) BY <1>2 DEF HandleThreadStart
  <1>3. CASE EnterWrapper(t) \/ EnterCreate(t) \/ EnterJoin(t)
    <2>1. PICK c \in CallRecs, u \in Threads \cup {NoThread} : EnterCall(t, c, u)
      BY <1>3, Constants DEF EnterWrapper, EnterCreate, EnterJoin
    <2>2. c.before \in BOOLEAN BY DEF CallRecs
    <2> QED BY <2>1, <2>2 DEF EnterCall
  <1>4. CASE LeaveCall(t)
    <2>1. call[t].after \in BOOLEAN BY DEF CallRecs
    <2> QED BY <1>4, <2>1 DEF LeaveCall
  <1>5. CASE ThreadExit(t) BY <1>5 DEF ThreadExit
  <1> QED BY <1>1, <1>2, <1>3, <1>4, <1>5 DEF Distributes

\* e is the next event of t, which has seen v.
Makes(e, t, v) ==
  /\ e \in Events /\ e # NoEvent
  /\ e.thd = t /\ e.num = count[t] + 1 /\ e.after = v
  /\ issued' = issued \cup {e}
  /\ count' = [count EXCEPT ![t] = count[t] + 1]
  /\ past' = [past EXCEPT ![t] = [v EXCEPT ![t] = count[t] + 1]]
  /\ Create(e)

\* e is numbered after the events S.
After(e, S) == \A f \in S : f.num < e.num

\* An event of t for d alone.
IsFor(e, t, d) == e.thd = t /\ e.to = {d}

\* What a new event is, and what it does to the counts.
LEMMA MakesForm ==
  ASSUME Types, NEW t \in Threads, NEW v \in Clocks, NEW to \in SUBSET Detectors, NEW h \in BOOLEAN,
         NEW e, e = NewEvent(t, v, to, h), Create(e)
  PROVE  Makes(e, t, v) /\ e.to = to
  <1>1. count[t] \in Nat BY DEF Types, Clocks
  <1>2. e = [thd |-> t, num |-> count[t] + 1, after |-> v, to |-> to, handler |-> h]
    BY DEF NewEvent
  <1>3. e \in Events BY <1>1, <1>2 DEF Events
  <1>4. /\ e.thd = t /\ e.num = count[t] + 1 /\ e.after = v /\ e.to = to
    BY <1>2
  <1>5. /\ issued' = issued \cup {e} /\ count' = [count EXCEPT ![t] = count[t] + 1]
        /\ past' = [past EXCEPT ![t] = [v EXCEPT ![t] = count[t] + 1]]
    BY <1>4 DEF Create
  <1> QED BY <1>3, <1>4, <1>5, Constants DEF Makes

LEMMA MakesTypes ==
  ASSUME Types, NEW t \in Threads, NEW v \in Clocks, NEW e, Makes(e, t, v)
  PROVE  count' \in Clocks /\ past' \in [Threads -> Clocks] /\ issued' \subseteq Events
  BY DEF Types, Clocks, Makes

LEMMA CreateBroadcast ==
  ASSUME Types, NEW t \in Threads, NEW v \in Clocks, NEW h \in BOOLEAN, Distribute(t, v, h)
  PROVE  \E e \in Events : Makes(e, t, v) /\ e.to = Detectors /\ event' = [event EXCEPT ![t] = e]
  <1> DEFINE e == NewEvent(t, v, Detectors, h)
  <1>1. Create(e) /\ event' = [event EXCEPT ![t] = e] BY DEF Distribute
  <1>2. e = NewEvent(t, v, Detectors, h) /\ Detectors \in SUBSET Detectors OBVIOUS
  <1> HIDE DEF e
  <1>3. Makes(e, t, v) /\ e.to = Detectors BY <1>1, <1>2, MakesForm
  <1>4. e \in Events BY <1>3 DEF Makes
  <1> QED BY <1>1, <1>3, <1>4

\* The event a thread pushes next, and to which detector.
ToSend(t) == IF out[t] # NoEvent THEN out[t]
             ELSE IF preEvents # <<>> THEN Head(preEvents) ELSE event[t]

LEMMA PushForm ==
  ASSUME Types, PlaceInv, StartInv, NEW t \in Threads, PushEvent(t)
  PROVE  /\ event[t] # NoEvent /\ locked = Detectors
         /\ pos[t] + 1 \in Detectors
         /\ \A d \in Detectors : Kept(t, d) = {}
         /\ deq' = [deq EXCEPT ![pos[t] + 1] = Append(@, ToSend(t))]
         /\ ref' = IF out[t] = NoEvent THEN SetRef(ToSend(t)) ELSE ref
         /\ preEvents' = IF out[t] = NoEvent /\ preEvents # <<>> THEN Tail(preEvents) ELSE preEvents
         /\ \/ /\ pos[t] + 1 < NumDetectors /\ event' = event
               /\ pos' = [pos EXCEPT ![t] = pos[t] + 1] /\ out' = [out EXCEPT ![t] = ToSend(t)]
            \/ pos[t] + 1 = NumDetectors /\ ToSend(t) = event[t] /\ Finished(t)
            \/ /\ pos[t] + 1 = NumDetectors /\ ToSend(t) # event[t] /\ event' = event
               /\ pos' = [pos EXCEPT ![t] = 0] /\ out' = [out EXCEPT ![t] = NoEvent]
         /\ unlockedUse' = FALSE
         /\ UNCHANGED <<pc, call, child, buffer, detectorVars, pastVars, boundVars>>
  <1> DEFINE d == pos[t] + 1
  <1>1. event[t] # NoEvent /\ Unflushed(t) = {} /\ registered # {} BY DEF PushEvent
  <1>2. locked = Detectors /\ registered = Detectors BY <1>1 DEF StartInv
  <1>3. pos[t] \in 0..(NumDetectors - 1) /\ d \in Detectors /\ NumDetectors \in Nat
    BY Constants DEF Types, Detectors
  <1>4. {x \in registered : x > pos[t]} = d..NumDetectors
    BY <1>2, <1>3 DEF Detectors
  <1>5. Min(d..NumDetectors) = d
    BY <1>3 DEF Min, Detectors
  <1>6. d..NumDetectors # {d} <=> d < NumDetectors
    <2>1. d < NumDetectors => d + 1 \in d..NumDetectors /\ d + 1 # d BY <1>3
    <2>2. ~(d < NumDetectors) => d..NumDetectors = {d} BY <1>3 DEF Detectors
    <2> QED BY <2>1, <2>2
  <1>7. \A x \in Detectors : Kept(t, x) = {}
    <2> SUFFICES ASSUME NEW x \in Detectors, HasBuffers(t) PROVE Range(Popped(buffer[t][x])) = {}
      BY DEF KeptIn, HasBuffers
    <2>1. buffer[t][x] \in Rings BY DEF HasBuffers, Types
    <2>2. Empty(buffer[t][x]) BY <1>1 DEF Unflushed
    <2> QED BY <2>1, <2>2, PoppedProps
  <1>8. out[t] = NoEvent <=> pos[t] = 0 BY DEF PlaceInv
  <1> DEFINE kept == out[t] = NoEvent /\ preEvents # <<>>
  <1>9. ToSend(t) = (IF out[t] # NoEvent THEN out[t] ELSE IF kept THEN Head(preEvents) ELSE event[t])
    BY DEF ToSend
  <1>10. /\ deq' = [deq EXCEPT ![d] = Append(@, ToSend(t))]
         /\ unlockedUse' = (d \notin locked)
         /\ ref' = IF out[t] = NoEvent THEN SetRef(ToSend(t)) ELSE ref
         /\ preEvents' = IF kept THEN Tail(preEvents) ELSE preEvents
         /\ IF d..NumDetectors # {d}
            THEN /\ pos' = [pos EXCEPT ![t] = d]
                 /\ out' = [out EXCEPT ![t] = ToSend(t)]
                 /\ UNCHANGED event
            ELSE IF ToSend(t) = event[t] THEN Finished(t)
            ELSE /\ out' = [out EXCEPT ![t] = NoEvent]
                 /\ pos' = [pos EXCEPT ![t] = 0]
                 /\ UNCHANGED event
         /\ UNCHANGED <<pc, call, child, buffer, detectorVars, pastVars, boundVars>>
    <2> DEFINE rest == {x \in registered : x > pos[t]}
               e == IF out[t] # NoEvent THEN out[t] ELSE IF kept THEN Head(preEvents) ELSE event[t]
    <2>1. rest = d..NumDetectors /\ Min(rest) = d /\ e = ToSend(t) BY <1>4, <1>5, <1>9
    <2>2. /\ deq' = [deq EXCEPT ![Min(rest)] = Append(@, e)]
          /\ unlockedUse' = (Min(rest) \notin locked)
          /\ ref' = IF out[t] = NoEvent THEN SetRef(e) ELSE ref
          /\ preEvents' = IF kept THEN Tail(preEvents) ELSE preEvents
          /\ IF rest # {Min(rest)}
             THEN /\ pos' = [pos EXCEPT ![t] = Min(rest)]
                  /\ out' = [out EXCEPT ![t] = e]
                  /\ UNCHANGED event
             ELSE IF e = event[t] THEN Finished(t)
             ELSE /\ out' = [out EXCEPT ![t] = NoEvent]
                  /\ pos' = [pos EXCEPT ![t] = 0]
                  /\ UNCHANGED event
          /\ UNCHANGED <<pc, call, child, buffer, detectorVars, pastVars, boundVars>>
      BY Zenon DEF PushEvent
    <2> HIDE DEF rest, e, d, kept
    <2> QED BY <2>1, <2>2
  <1>11. unlockedUse' = FALSE BY <1>2, <1>3, <1>10
  <1>12. ~(d < NumDetectors) => d = NumDetectors BY <1>3 DEF Detectors
  <1>13. preEvents' = IF out[t] = NoEvent /\ preEvents # <<>> THEN Tail(preEvents) ELSE preEvents
    BY <1>10
  <1>14. CASE d < NumDetectors
    <2>1. event' = event /\ pos' = [pos EXCEPT ![t] = d] /\ out' = [out EXCEPT ![t] = ToSend(t)]
      BY <1>6, <1>10, <1>14
    <2> QED BY <1>1, <1>2, <1>3, <1>7, <1>10, <1>11, <1>13, <1>14, <2>1
  <1>15. CASE ~(d < NumDetectors)
    <2>1. IF ToSend(t) = event[t] THEN Finished(t)
          ELSE event' = event /\ pos' = [pos EXCEPT ![t] = 0] /\ out' = [out EXCEPT ![t] = NoEvent]
      BY <1>6, <1>10, <1>15
    <2> QED BY <1>1, <1>2, <1>3, <1>7, <1>10, <1>11, <1>12, <1>13, <1>15, <2>1
  <1> QED BY <1>14, <1>15

\* What a push does to the thread.
LEMMA PushRest ==
  ASSUME Types, PlaceInv, StartInv, NEW t \in Threads, PushEvent(t)
  PROVE  /\ event'[t] \in {event[t], NoEvent} /\ out'[t] \in {ToSend(t), NoEvent}
         /\ \A u \in Threads \ {t} : event'[u] = event[u] /\ out'[u] = out[u] /\ pos'[u] = pos[u]
  <1>1. \/ event' = event /\ pos' = [pos EXCEPT ![t] = pos[t] + 1] /\ out' = [out EXCEPT ![t] = ToSend(t)]
        \/ Finished(t)
        \/ event' = event /\ pos' = [pos EXCEPT ![t] = 0] /\ out' = [out EXCEPT ![t] = NoEvent]
    BY PushForm
  <1>2. /\ event \in [Threads -> Events \cup {NoEvent}] /\ out \in [Threads -> Events \cup {NoEvent}]
        /\ pos \in [Threads -> 0..(NumDetectors - 1)]
    BY DEF Types
  <1> QED BY <1>1, <1>2 DEF Finished

LEMMA RangeSeq ==
  ASSUME NEW S, NEW s \in Seq(S)
  PROVE  Range(s) = {s[i] : i \in 1..Len(s)}
  BY DEF Range

\* A set of numbers, not empty, has a least.
LEMMA LeastOf ==
  ASSUME NEW S \in SUBSET Nat, S # {}
  PROVE  \E n \in S : \A k \in S : n <= k
  <1>1. PICK n \in S : \A k \in S : ~ (<<k, n>> \in OpToRel(<, Nat))
    BY NatLessThanWellFounded, WFMin, Zenon
  <1>2. \A k \in S : ~ (k < n) BY <1>1, Zenon DEF OpToRel
  <1> QED BY <1>2

\* What is popped from a ring of events are events.
LEMMA PoppedInSeq ==
  ASSUME NEW b \in Rings, NEW I \in SUBSET Events, \A i \in 1..Stored(b) : Popped(b)[i] \in I
  PROVE  Popped(b) \in Seq(Events)
  <1>1. Popped(b) \in Seq(Events \cup {NoEvent}) /\ Len(Popped(b)) = Stored(b) BY PoppedProps
  <1> QED BY <1>1

LEMMA FlushForm ==
  ASSUME Types, PlaceInv, RingInv, NEW t \in Threads, FlushBuffer(t)
  PROVE  /\ event[t] # NoEvent /\ out[t] = NoEvent /\ pc[t] \in SendingPC
         /\ \E d \in Detectors :
              /\ HasBuffers(t) /\ buffer[t][d] \in Rings
              /\ Popped(buffer[t][d]) \in Seq(Events)
              /\ deq' = [deq EXCEPT ![d] = @ \o Popped(buffer[t][d])]
              /\ buffer' = [buffer EXCEPT ![t][d] = Drained(buffer[t][d])]
         /\ UNCHANGED <<threadVars, preEvents, ref, unlockedUse, detectorVars, pastVars, boundVars>>
  <1>1. /\ event[t] # NoEvent /\ out[t] = NoEvent /\ Unflushed(t) # {} /\ pc[t] \in SendingPC
        /\ UNCHANGED <<threadVars, preEvents, ref, unlockedUse, detectorVars, pastVars, boundVars>>
    BY DEF FlushBuffer, PlaceInv
  <1> DEFINE d == Min(Unflushed(t))
  <1>2. /\ deq' = [deq EXCEPT ![d] = Flushed(t, d)]
        /\ buffer' = [buffer EXCEPT ![t][d] = Drained(@)]
    BY DEF FlushBuffer
  <1>3. HasBuffers(t) /\ Unflushed(t) \subseteq Detectors BY <1>1 DEF Unflushed
  <1>4. d \in Detectors
    <2>1. \E x \in Unflushed(t) : \A y \in Unflushed(t) : x <= y
      <3>1. Unflushed(t) \subseteq Nat BY <1>3, Constants
      <3> QED BY <1>1, <3>1, LeastOf
    <2>2. d \in Unflushed(t) BY <2>1 DEF Min
    <2> QED BY <1>3, <2>2
  <1> HIDE DEF d
  <1>5. buffer[t][d] \in Rings BY <1>3, <1>4 DEF HasBuffers, Types
  <1>6. Popped(buffer[t][d]) \in Seq(Events)
    BY <1>3, <1>4, <1>5, PoppedInSeq DEF RingInv, RingOK, Types
  <1> QED BY <1>1, <1>2, <1>3, <1>4, <1>5, <1>6 DEF Flushed

\* An access: the ring has room, or is emptied first.
LEMMA AccessForm ==
  ASSUME Types, PlaceInv, RingInv, NEW t \in Threads, NEW u \in Units, Access(t, u)
  PROVE  /\ pc[t] = "ready" /\ event[t] = NoEvent /\ out[t] = NoEvent /\ HasBuffers(t)
         /\ \E d \in Detectors, e \in Events :
              /\ Makes(e, t, past[t]) /\ IsFor(e, t, d)
              /\ buffer[t][d] \in Rings
              /\ \/ /\ Popped(buffer[t][d]) \in Seq(Events)
                    /\ deq' = [deq EXCEPT ![d] = @ \o Popped(buffer[t][d])]
                    /\ buffer' = [buffer EXCEPT ![t][d] = Push(Drained(buffer[t][d]), e)]
                 \/ /\ ~Full(buffer[t][d])
                    /\ deq' = deq
                    /\ buffer' = [buffer EXCEPT ![t][d] = Push(buffer[t][d], e)]
         /\ UNCHANGED <<threadVars, preEvents, unlockedUse, detectorVars, published, images>>
  <1> DEFINE d == Detector(u)
             b == buffer[t][d]
  <1>1. d \in Detectors BY DispatchAssumption DEF Detector, Detectors
  <1>2. /\ pc[t] = "ready" /\ event[t] = NoEvent
        /\ UNCHANGED <<threadVars, preEvents, unlockedUse, detectorVars, published, images>>
    BY DEF Access, Idle
  <1>3. \E to \in SUBSET Detectors, h \in BOOLEAN :
          to = {d} /\ DistributeMemory(t, d, NewEvent(t, past[t], to, h))
    <2>1. DistributeMemory(t, d, NewEvent(t, past[t], {d}, TRUE)) BY DEF Access
    <2>2. {d} \in SUBSET Detectors /\ TRUE \in BOOLEAN BY <1>1
    <2> QED BY Zenon, <2>1, <2>2
  <1> HIDE DEF d
  <1>4. PICK to \in SUBSET Detectors, h \in BOOLEAN :
          to = {d} /\ DistributeMemory(t, d, NewEvent(t, past[t], to, h))
    BY <1>3
  <1> DEFINE e == NewEvent(t, past[t], to, h)
  <1>5. Create(e) BY <1>4 DEF DistributeMemory
  <1>6. out[t] = NoEvent /\ HasBuffers(t) BY <1>2 DEF PlaceInv, HasBuffers, BufferPC
  <1>7. b \in Rings BY <1>1, <1>6 DEF HasBuffers, Types
  <1>8. Popped(b) \in Seq(Events)
    BY <1>1, <1>6, <1>7, PoppedInSeq DEF RingInv, RingOK, Types
  <1>9. \/ /\ deq' = [deq EXCEPT ![d] = @ \o Popped(b)]
           /\ buffer' = [buffer EXCEPT ![t][d] = Push(Drained(b), e)]
        \/ /\ ~Full(b) /\ deq' = deq
           /\ buffer' = [buffer EXCEPT ![t][d] = Push(b, e)]
    BY <1>1, <1>4 DEF DistributeMemory, Flushed, Types
  <1>10. e = NewEvent(t, past[t], to, h) OBVIOUS
  <1> HIDE DEF e
  <1>11. Makes(e, t, past[t]) /\ e.to = to
    <2>1. past[t] \in Clocks BY DEF Types
    <2> QED BY <1>5, <1>10, <2>1, MakesForm
  <1>12. IsFor(e, t, d) /\ e \in Events BY <1>4, <1>11 DEF IsFor, Makes
  <1> QED BY <1>1, <1>2, <1>6, <1>7, <1>8, <1>9, <1>11, <1>12
-----------------------------------------------------------------------------
(* Types and control. *)

\* A thread's step keeps the types.
LEMMA ThreadTypes ==
  ASSUME Types, PlaceInv, StartInv, RingInv, NEW t \in Threads, ThreadNext(t)
  PROVE  Types'
  <1>1. CASE FlushBuffer(t)
    <2>1. PICK d \in Detectors :
            /\ HasBuffers(t) /\ buffer[t][d] \in Rings
            /\ Popped(buffer[t][d]) \in Seq(Events)
            /\ deq' = [deq EXCEPT ![d] = @ \o Popped(buffer[t][d])]
            /\ buffer' = [buffer EXCEPT ![t][d] = Drained(buffer[t][d])]
            /\ UNCHANGED <<threadVars, preEvents, ref, unlockedUse, detectorVars, pastVars, boundVars>>
      BY <1>1, FlushForm
    <2>2. deq' \in [Detectors -> Seq(Events)]
      <3>1. deq[d] \o Popped(buffer[t][d]) \in Seq(Events) BY <2>1 DEF Types
      <3> QED BY <2>1, <3>1 DEF Types
    <2>3. buffer' \in [Threads -> [Detectors -> Rings] \cup {NoBuffers}]
      <3>1. Drained(buffer[t][d]) \in Rings BY <2>1, DrainedProps
      <3>2. buffer[t] \in [Detectors -> Rings] BY <2>1 DEF HasBuffers, Types
      <3> QED BY <2>1, <3>1, <3>2 DEF Types
    <2> QED BY <2>1, <2>2, <2>3 DEF Types
  <1>2. CASE KeepEvent(t)
    <2>1. preEvents' \in Seq(Events) BY <1>2 DEF KeepEvent, Types
    <2>2. event' \in [Threads -> Events \cup {NoEvent}] /\ out' \in [Threads -> Events \cup {NoEvent}]
          /\ pos' \in [Threads -> 0..(NumDetectors - 1)]
      BY <1>2, DispatchAssumption DEF KeepEvent, Types, Finished
    <2> QED BY <1>2, <2>1, <2>2 DEF KeepEvent, Types
  <1>3. CASE PushEvent(t)
    <2>1. ToSend(t) \in Events
      <3>1. event[t] \in Events BY <1>3, PushForm DEF Types
      <3> QED BY <3>1 DEF ToSend, Types
    <2>2. deq' \in [Detectors -> Seq(Events)]
      <3>1. pos[t] + 1 \in Detectors /\ deq' = [deq EXCEPT ![pos[t] + 1] = Append(@, ToSend(t))]
        BY <1>3, PushForm
      <3>2. Append(deq[pos[t] + 1], ToSend(t)) \in Seq(Events) BY <2>1, <3>1 DEF Types
      <3> QED BY <3>1, <3>2 DEF Types
    <2>3. preEvents' \in Seq(Events)
      <3>1. preEvents' = IF out[t] = NoEvent /\ preEvents # <<>> THEN Tail(preEvents) ELSE preEvents
        BY <1>3, PushForm
      <3> QED BY <3>1 DEF Types
    <2>4. event' \in [Threads -> Events \cup {NoEvent}] /\ out' \in [Threads -> Events \cup {NoEvent}]
          /\ pos' \in [Threads -> 0..(NumDetectors - 1)]
      <3>1. 0 \in 0..(NumDetectors - 1) BY DispatchAssumption
      <3>2. pos[t] + 1 < NumDetectors => pos[t] + 1 \in 0..(NumDetectors - 1)
        BY DispatchAssumption DEF Types
      <3>3. \/ /\ pos[t] + 1 < NumDetectors /\ event' = event
               /\ pos' = [pos EXCEPT ![t] = pos[t] + 1] /\ out' = [out EXCEPT ![t] = ToSend(t)]
            \/ Finished(t)
            \/ /\ event' = event
               /\ pos' = [pos EXCEPT ![t] = 0] /\ out' = [out EXCEPT ![t] = NoEvent]
        BY <1>3, PushForm
      <3> QED BY ZenonT(30), <2>1, <3>1, <3>2, <3>3 DEF Types, Finished
    <2> QED BY <1>3, <2>2, <2>3, <2>4, PushForm DEF Types
  <1>4. ASSUME Distributes(t), pc' \in [Threads -> PCs], call' \in [Threads -> CallRecs],
               child' \in [Threads -> Threads \cup {NoThread}], published' \in Clocks
        PROVE  Types'
    <2>1. PICK v \in {past[t], Seen(t)}, h \in BOOLEAN : Distribute(t, v, h)
      BY <1>4, DistributeForm
    <2>2. v \in Clocks BY SeenType
    <2>3. PICK e \in Events : Makes(e, t, v) /\ event' = [event EXCEPT ![t] = e]
      BY <2>1, <2>2, CreateBroadcast
    <2>4. count' \in Clocks /\ past' \in [Threads -> Clocks] /\ issued' \subseteq Events
      BY <2>2, <2>3, MakesTypes
    <2> QED BY <1>4, <2>3, <2>4, DistributeForm DEF Types
  <1>5. CASE t = Root /\ ImageLoad
    BY <1>4, <1>5 DEF ImageLoad, Types, Distributes
  <1>6. CASE ThreadStart(t)
    BY <1>6 DEF ThreadStart, Types, PCs
  <1>7. CASE CreateBuffers(t)
    <2>1. EmptyRing \in Rings BY DispatchAssumption DEF EmptyRing, Rings
    <2>2. [d \in Detectors |-> EmptyRing] \in [Detectors -> Rings] BY <2>1
    <2> QED BY <1>7, <2>2 DEF CreateBuffers, Types, PCs
  <1>8. CASE HandleThreadStart(t)
    BY <1>4, <1>8 DEF HandleThreadStart, Types, Distributes, PCs
  <1>9. CASE \E u \in Units : Access(t, u)
    <2>1. PICK u \in Units : Access(t, u) BY <1>9
    <2>2. PICK d \in Detectors, e \in Events :
            /\ Makes(e, t, past[t])
            /\ buffer[t][d] \in Rings
            /\ \/ /\ Popped(buffer[t][d]) \in Seq(Events)
                  /\ deq' = [deq EXCEPT ![d] = @ \o Popped(buffer[t][d])]
                  /\ buffer' = [buffer EXCEPT ![t][d] = Push(Drained(buffer[t][d]), e)]
               \/ /\ ~Full(buffer[t][d])
                  /\ deq' = deq
                  /\ buffer' = [buffer EXCEPT ![t][d] = Push(buffer[t][d], e)]
      BY <2>1, AccessForm
    <2>3. past[t] \in Clocks BY DEF Types
    <2>4. count' \in Clocks /\ past' \in [Threads -> Clocks] /\ issued' \subseteq Events
      BY <2>2, <2>3, MakesTypes
    <2>5. deq' \in [Detectors -> Seq(Events)]
      <3>1. Popped(buffer[t][d]) \in Seq(Events) =>
              deq[d] \o Popped(buffer[t][d]) \in Seq(Events) BY DEF Types
      <3> QED BY <2>2, <3>1 DEF Types
    <2>6. buffer' \in [Threads -> [Detectors -> Rings] \cup {NoBuffers}]
      <3>1. Drained(buffer[t][d]) \in Rings /\ ~Full(Drained(buffer[t][d])) BY <2>2, DrainedProps
      <3>2. Push(Drained(buffer[t][d]), e) \in Rings BY <2>2, <3>1, PushProps
      <3>3. ~Full(buffer[t][d]) => Push(buffer[t][d], e) \in Rings BY <2>2, PushProps
      <3>4. buffer[t] \in [Detectors -> Rings] BY <2>1, AccessForm DEF HasBuffers, Types
      <3>5. \E c \in Rings : buffer' = [buffer EXCEPT ![t][d] = c] BY <2>2, <3>2, <3>3
      <3> QED BY <3>4, <3>5 DEF Types
    <2>7. UNCHANGED <<threadVars, preEvents, detectorVars, published>> BY <2>1, AccessForm
    <2> QED BY <2>2, <2>4, <2>5, <2>6, <2>7 DEF Types
  <1>10. CASE EnterWrapper(t) \/ EnterCreate(t) \/ EnterJoin(t)
    <2>1. PICK c \in CallRecs, u \in Threads \cup {NoThread} : EnterCall(t, c, u)
      BY <1>10, Constants DEF EnterWrapper, EnterCreate, EnterJoin
    <2> QED BY <1>4, <1>10, <2>1 DEF EnterCall, Types, Distributes, PCs
  <1>11. CASE CallOriginal(t)
    <2>1. CASE Created(t)
      <3>1. child[t] \in Threads BY <1>11, <2>1 DEF CallOriginal, PlaceInv, Created, Types
      <3>2. Created(t) => ~Waits(t) BY DEF Created, Waits, CreateCall, Call
      <3> QED BY <1>11, <2>1, <3>1, <3>2 DEF CallOriginal, Types, PCs
    <2>2. CASE ~Created(t)
      <3>1. Joined(published, past[t]) \in Clocks BY DEF Types, Clocks, Joined
      <3> QED BY <1>11, <2>2, <3>1 DEF CallOriginal, Types, PCs
    <2> QED BY <2>1, <2>2
  <1>12. CASE LeaveCall(t)
    <2>1. Joined(published, past[t]) \in Clocks BY DEF Types, Clocks, Joined
    <2> QED BY <1>4, <1>12, <2>1, Constants DEF LeaveCall, Types, Distributes, PCs
  <1>13. CASE ThreadExit(t)
    BY <1>4, <1>13 DEF ThreadExit, Types, Distributes, PCs
  <1>14. CASE FreeEventBuffer(t)
    BY <1>14 DEF FreeEventBuffer, Types, PCs
  <1> QED BY <1>1, <1>2, <1>3, <1>5, <1>6, <1>7, <1>8, <1>9, <1>10, <1>11, <1>12, <1>13, <1>14
          DEF ThreadNext, Send

\* So does a detector's.
LEMMA DetectorTypes ==
  ASSUME Types, NEW d \in Detectors, DetectorNext(d)
  PROVE  Types'
  <1>1. CASE RegisterQueue(d) BY <1>1 DEF RegisterQueue, Types, DPCs
  <1>2. CASE RegisterLock(d) BY <1>2 DEF RegisterLock, Types, DPCs
  <1>3. CASE HandleEvent(d)
    <2>1. Head(deq[d]) \in Events /\ Tail(deq[d]) \in Seq(Events) BY <1>3 DEF HandleEvent, Types
    <2> QED BY <1>3, <2>1 DEF HandleEvent, Types, DPCs
  <1>4. CASE DeleteEvent(d) BY <1>4 DEF DeleteEvent, Types, DPCs
  <1>5. CASE ExitDetection(d) BY <1>5 DEF ExitDetection, Types, DPCs
  <1> QED BY <1>1, <1>2, <1>3, <1>4, <1>5 DEF DetectorNext
\* A thread that sends stays where it is, and keeps its buffers.
LEMMA SendPlace ==
  ASSUME Types, PlaceInv, StartInv, RingInv, NEW t \in Threads,
         Send(t) \/ \E u \in Units : Access(t, u)
  PROVE  /\ UNCHANGED <<pc, call, child>>
         /\ \A u \in Threads : buffer'[u] # NoBuffers <=> buffer[u] # NoBuffers
  <1>1. CASE FlushBuffer(t)
    <2>1. PICK d \in Detectors :
            /\ HasBuffers(t) /\ buffer[t][d] \in Rings
            /\ buffer' = [buffer EXCEPT ![t][d] = Drained(buffer[t][d])]
      BY <1>1, FlushForm
    <2>2. Drained(buffer[t][d]) \in Rings BY <2>1, DrainedProps
    <2>3. buffer[t] \in [Detectors -> Rings] BY <2>1 DEF HasBuffers, Types
    <2>4. buffer'[t] \in [Detectors -> Rings] /\ \A u \in Threads \ {t} : buffer'[u] = buffer[u]
      BY <2>1, <2>2, <2>3 DEF Types
    <2> QED BY <1>1, <2>1, <2>4, FlushForm, Constants DEF HasBuffers
  <1>2. CASE KeepEvent(t) BY <1>2 DEF KeepEvent
  <1>3. CASE PushEvent(t) BY <1>3, PushForm
  <1>4. CASE \E u \in Units : Access(t, u)
    <2>0. PICK u \in Units : Access(t, u) BY <1>4
    <2>1. PICK d \in Detectors, e \in Events :
            /\ Makes(e, t, past[t])
            /\ buffer[t][d] \in Rings
            /\ \/ /\ Popped(buffer[t][d]) \in Seq(Events)
                  /\ deq' = [deq EXCEPT ![d] = @ \o Popped(buffer[t][d])]
                  /\ buffer' = [buffer EXCEPT ![t][d] = Push(Drained(buffer[t][d]), e)]
               \/ /\ ~Full(buffer[t][d])
                  /\ deq' = deq
                  /\ buffer' = [buffer EXCEPT ![t][d] = Push(buffer[t][d], e)]
      BY <2>0, AccessForm
    <2>2. Push(Drained(buffer[t][d]), e) \in Rings BY <2>1, DrainedProps, PushProps
    <2>3. ~Full(buffer[t][d]) => Push(buffer[t][d], e) \in Rings BY <2>1, PushProps
    <2>4. HasBuffers(t) /\ UNCHANGED threadVars BY <2>0, AccessForm
    <2>5. buffer[t] \in [Detectors -> Rings] BY <2>4 DEF HasBuffers, Types
    <2>6. \E c \in Rings : buffer' = [buffer EXCEPT ![t][d] = c] BY <2>1, <2>2, <2>3
    <2>7. buffer'[t] \in [Detectors -> Rings] /\ \A w \in Threads \ {t} : buffer'[w] = buffer[w]
      BY <2>5, <2>6 DEF Types
    <2> QED BY <2>4, <2>7, Constants DEF HasBuffers
  <1> QED BY <1>1, <1>2, <1>3, <1>4 DEF Send

\* What the place of a thread says stays true.
LEMMA PlaceStep ==
  ASSUME Types, Types', PlaceInv, StartInv, RingInv, NEW t \in Threads, ThreadNext(t)
  PROVE  PlaceInv'
  <1> USE DEF Types, PlaceInv, SendingPC, BufferPC
  <1>0. ASSUME UNCHANGED <<pc, call, child>>,
               \A u \in Threads : buffer'[u] # NoBuffers <=> buffer[u] # NoBuffers,
               \A u \in Threads : /\ event'[u] # NoEvent => event[u] # NoEvent
                                  /\ out'[u] # NoEvent => event'[u] # NoEvent
                                  /\ pos'[u] = 0 <=> out'[u] = NoEvent
        PROVE  PlaceInv'
    BY <1>0
  <1>1. CASE FlushBuffer(t)
    <2>1. UNCHANGED threadVars BY <1>1, FlushForm
    <2>2. \A u \in Threads : buffer'[u] # NoBuffers <=> buffer[u] # NoBuffers
      BY <1>1, SendPlace DEF Send
    <2> QED BY <1>0, <2>1, <2>2
  <1>2. CASE KeepEvent(t)
    BY <1>0, <1>2 DEF KeepEvent, Finished
  <1>3. CASE PushEvent(t)
    <2>1. /\ UNCHANGED <<pc, call, child>> /\ event[t] # NoEvent
          /\ \A u \in Threads : buffer'[u] # NoBuffers <=> buffer[u] # NoBuffers
      BY <1>3, SendPlace, PushForm DEF Send
    <2>2. ToSend(t) # NoEvent
      <3>1. event[t] \in Events BY <2>1
      <3> QED BY <3>1, Constants DEF ToSend
    <2>3. \A u \in Threads : /\ event'[u] # NoEvent => event[u] # NoEvent
                             /\ out'[u] # NoEvent => event'[u] # NoEvent
                             /\ pos'[u] = 0 <=> out'[u] = NoEvent
      <3>1. pos[t] + 1 \in Nat \ {0} BY DispatchAssumption
      <3>2. \/ /\ event' = event
               /\ pos' = [pos EXCEPT ![t] = pos[t] + 1] /\ out' = [out EXCEPT ![t] = ToSend(t)]
            \/ Finished(t)
            \/ /\ event' = event
               /\ pos' = [pos EXCEPT ![t] = 0] /\ out' = [out EXCEPT ![t] = NoEvent]
        BY <1>3, PushForm
      <3> QED BY <2>1, <2>2, <3>1, <3>2 DEF Finished
    <2> QED BY <1>0, <2>1, <2>3
  <1>16. ASSUME NEW p \in {"ready", "exiting"}, pc[t] \in {"starting", "ready"},
                pc' = [pc EXCEPT ![t] = p], UNCHANGED <<call, child, out, pos, buffer>>,
                \A u \in Threads \ {t} : event'[u] = event[u], out[t] = NoEvent
         PROVE  PlaceInv'
    <2>1. child[t] = NoThread /\ pc'[t] = p /\ \A u \in Threads \ {t} : pc'[u] = pc[u]
      BY <1>16
    <2>2. \A u \in Threads : pc'[u] = "unborn" <=> pc[u] = "unborn" BY <1>16, <2>1
    <2> QED BY <1>16, <2>1, <2>2
  <1>4. CASE t = Root /\ ImageLoad
    BY ZenonT(30), <1>4 DEF ImageLoad, Distribute, Idle
  <1>5. CASE ThreadStart(t)
    BY <1>5 DEF ThreadStart, Idle
  <1>6. CASE CreateBuffers(t)
    <2>1. [d \in Detectors |-> EmptyRing] \in [Detectors -> Rings] 
      BY DispatchAssumption DEF EmptyRing, Rings
    <2>2. [d \in Detectors |-> EmptyRing] # NoBuffers BY <2>1, Constants
    <2> QED BY <1>6, <2>2 DEF CreateBuffers
  <1>7. CASE HandleThreadStart(t)
    BY <1>7, <1>16 DEF HandleThreadStart, Distribute
  <1>8. CASE \E u \in Units : Access(t, u)
    <2>1. UNCHANGED threadVars BY <1>8, AccessForm
    <2>2. \A u \in Threads : buffer'[u] # NoBuffers <=> buffer[u] # NoBuffers
      BY <1>8, SendPlace
    <2> QED BY <1>0, <2>1, <2>2
  <1>9. CASE EnterWrapper(t)
    BY <1>9, Constants DEF EnterWrapper, EnterCall, Distribute, Idle
  <1>10. CASE EnterCreate(t)
    BY <1>10, Constants DEF EnterCreate, EnterCall, Distribute, Idle
  <1>11. CASE EnterJoin(t)
    BY <1>11, Constants DEF EnterJoin, EnterCall, Distribute, Idle
  <1>12. CASE CallOriginal(t)
    <2>1. CASE Created(t)
      <3>1. child[t] \in Threads /\ pc[child[t]] = "unborn" /\ pc[t] = "inside"
        BY <1>12, <2>1 DEF CallOriginal, Created
      <3>2. Created(t) => ~Waits(t) BY DEF Created, Waits, CreateCall, Call
      <3>3. pc' = [pc EXCEPT ![t] = "returning", ![child[t]] = "born"]
        BY <1>12, <2>1, <3>2 DEF CallOriginal
      <3>4. UNCHANGED <<call, child, event, out, pos, buffer>> BY <1>12 DEF CallOriginal
      <3>5. child[t] # t /\ pc'[t] = "returning" /\ pc'[child[t]] = "born"
            /\ \A u \in Threads \ {t, child[t]} : pc'[u] = pc[u]
        BY <3>1, <3>3
      <3>6. \A u \in Threads : u # child[t] => (pc'[u] = "unborn" <=> pc[u] = "unborn")
        BY <3>1, <3>5
      <3>7. \A u \in Threads : child[u] # NoThread /\ child[u] = child[t] => u = t
        BY <3>1
      <3>8. /\ pc'[Root] # "unborn"
            /\ \A u \in Threads : /\ pc'[u] = "loading" => u = Root
                                  /\ event'[u] # NoEvent => pc'[u] \in SendingPC
                                  /\ buffer'[u] # NoBuffers <=> pc'[u] \in BufferPC
        <4>1. event[t] = NoEvent BY <1>12 DEF CallOriginal, Idle
        <4>2. event[child[t]] = NoEvent /\ buffer[child[t]] = NoBuffers BY <3>1
        <4>3. ASSUME NEW u \in Threads
              PROVE  /\ pc'[u] = "loading" => u = Root
                     /\ event'[u] # NoEvent => pc'[u] \in SendingPC
                     /\ buffer'[u] # NoBuffers <=> pc'[u] \in BufferPC
          <5>1. CASE u = t BY <3>1, <3>4, <3>5, <4>1, <5>1
          <5>2. CASE u = child[t] BY <3>4, <3>5, <4>2, <5>2
          <5>3. CASE u \notin {t, child[t]} BY <3>4, <3>5, <5>3
          <5> QED BY <5>1, <5>2, <5>3
        <4>4. pc'[Root] # "unborn"
          <5>1. Root \in Threads BY DispatchAssumption
          <5> QED BY <3>5, <5>1
        <4> QED BY <4>3, <4>4
      <3>9. \A u \in Threads :
              /\ out'[u] # NoEvent => event'[u] # NoEvent
              /\ pos'[u] = 0 <=> out'[u] = NoEvent
              /\ child'[u] # NoThread => pc'[u] \in {"inside", "returning"}
              /\ child'[u] # NoThread => call'[u] \in {CreateCall, JoinCall}
              /\ pc'[u] \in {"inside", "returning"} /\ call'[u] = CreateCall => child'[u] # NoThread
        BY <3>1, <3>4, <3>5
      <3>10. \A u \in Threads : child'[u] # NoThread =>
               (pc'[child'[u]] = "unborn" <=> pc'[u] = "inside" /\ call'[u] = CreateCall)
        <4> SUFFICES ASSUME NEW u \in Threads, child[u] # NoThread
                     PROVE  pc'[child[u]] = "unborn" <=> pc'[u] = "inside" /\ call[u] = CreateCall
          BY <3>4
        <4>1. CASE u = t BY <3>5, <4>1
        <4>2. CASE u # t
          <5>1. child[u] \in Threads /\ child[u] # child[t] BY <3>7, <4>2
          <5>2. u # child[t] BY <3>1
          <5>3. pc'[u] = pc[u] BY <3>5, <4>2, <5>2
          <5> QED BY <3>6, <5>1, <5>3
        <4> QED BY <4>1, <4>2
      <3>11. \A u, w \in Threads : u # w /\ child'[u] = child'[w] /\ child'[u] # NoThread =>
                               pc'[child'[u]] # "unborn"
        BY <3>1, <3>4, <3>5, <3>6, <3>7
      <3> QED BY <3>8, <3>9, <3>10, <3>11
    <2>2. CASE ~Created(t)
      <3>1. /\ pc[t] = "inside" /\ pc' = [pc EXCEPT ![t] = "returning"] /\ call[t] # CreateCall
            /\ UNCHANGED <<call, child, event, out, pos, buffer>> /\ event[t] = NoEvent
        BY <1>12, <2>2 DEF CallOriginal, Created, Idle
      <3>2. pc'[t] = "returning" /\ \A u \in Threads \ {t} : pc'[u] = pc[u] BY <3>1
      <3>3. \A u \in Threads : pc'[u] = "unborn" <=> pc[u] = "unborn" BY <3>1, <3>2
      <3> QED BY <3>1, <3>2, <3>3
    <2> QED BY <2>1, <2>2
  <1>13. CASE LeaveCall(t)
    BY <1>13 DEF LeaveCall, Distribute, Idle
  <1>14. CASE ThreadExit(t)
    BY <1>14, <1>16 DEF ThreadExit, Distribute, Idle
  <1>15. CASE FreeEventBuffer(t)
    BY <1>15 DEF FreeEventBuffer, Idle
  <1> QED BY <1>1, <1>2, <1>3, <1>4, <1>5, <1>6, <1>7, <1>8, <1>9, <1>10, <1>11, <1>12, <1>13,
             <1>14, <1>15 DEF ThreadNext, Send
\* Detectors register by themselves, and only the first thread is there before they all have.
LEMMA StartStep ==
  ASSUME Types, PlaceInv, StartInv, RingInv, NEW t \in Threads, ThreadNext(t), EarlyImages = FALSE
  PROVE  StartInv' /\ UNCHANGED detectorVars
  <1> USE DEF Types, PlaceInv, StartInv
  <1>1. ASSUME pc[t] \in {"ready", "inside", "returning", "exiting"} PROVE locked = Detectors
    <2>1. pc[t] \notin (IF t = Root THEN {"loading", "announced", "starting"} ELSE {"unborn"})
      BY <1>1
    <2> QED BY <2>1
  <1>2. ASSUME pc[t] = "starting", KernelFree PROVE locked = Detectors
    <2>1. CASE t = Root BY <1>2, <2>1 DEF KernelFree
    <2>2. CASE t # Root BY <1>2, <2>2
    <2> QED BY <2>1, <2>2
  <1>3. ASSUME locked = Detectors, UNCHANGED detectorVars, unlockedUse' = FALSE,
               pc'[Root] = "starting" => pc[Root] = "starting"
        PROVE  StartInv'
    BY <1>3
  <1>4. ASSUME UNCHANGED <<pc, event, out, detectorVars, unlockedUse>> PROVE StartInv'
    BY <1>4
  <1>5. Root \in Threads BY DispatchAssumption
  <1>6. CASE FlushBuffer(t) BY <1>4, <1>6, FlushForm
  <1>7. CASE KeepEvent(t) BY <1>7, DispatchAssumption, Constants DEF KeepEvent, Finished
  <1>8. CASE PushEvent(t) BY <1>3, <1>8, PushForm
  <1>9. CASE t = Root /\ ImageLoad
    <2>1. registered = {} \/ locked = Detectors BY <1>9 DEF ImageLoad
    <2> QED BY <1>9, <2>1 DEF ImageLoad, Distribute
  <1>10. CASE ThreadStart(t) BY <1>10 DEF ThreadStart
  <1>11. CASE CreateBuffers(t) BY <1>11 DEF CreateBuffers
  <1>12. CASE HandleThreadStart(t) BY <1>2, <1>3, <1>5, <1>12 DEF HandleThreadStart
  <1>13. CASE \E u \in Units : Access(t, u)
    BY <1>4, <1>13, AccessForm
  <1>14. CASE EnterWrapper(t) \/ EnterCreate(t) \/ EnterJoin(t)
    <2>1. PICK c \in CallRecs, u \in Threads \cup {NoThread} : EnterCall(t, c, u)
      BY <1>14, Constants DEF EnterWrapper, EnterCreate, EnterJoin
    <2>2. /\ pc[t] = "ready" /\ pc' = [pc EXCEPT ![t] = "inside"]
          /\ UNCHANGED <<unlockedUse, detectorVars>>
      BY <2>1 DEF EnterCall
    <2> QED BY <1>1, <1>3, <1>5, <2>2
  <1>15. CASE CallOriginal(t)
    <2>1. /\ pc[t] = "inside" /\ UNCHANGED <<unlockedUse, detectorVars>>
          /\ \/ pc' = [pc EXCEPT ![t] = "returning", ![child[t]] = "born"]
             \/ pc' = [pc EXCEPT ![t] = "returning"]
      BY <1>15 DEF CallOriginal
    <2>2. pc'[Root] = "starting" => pc[Root] = "starting" BY ZenonT(30), <1>5, <2>1
    <2> QED BY <1>1, <1>3, <2>1, <2>2
  <1>16. CASE LeaveCall(t) BY <1>1, <1>3, <1>5, <1>16 DEF LeaveCall
  <1>17. CASE ThreadExit(t) BY <1>1, <1>3, <1>5, <1>17 DEF ThreadExit
  <1>18. CASE FreeEventBuffer(t) BY <1>1, <1>3, <1>5, <1>18 DEF FreeEventBuffer
  <1>19. UNCHANGED detectorVars
    BY FlushForm, PushForm, AccessForm
       DEF ThreadNext, Send, KeepEvent, ImageLoad, ThreadStart, CreateBuffers, HandleThreadStart,
           EnterWrapper, EnterCreate, EnterJoin, EnterCall, CallOriginal, LeaveCall, ThreadExit,
           FreeEventBuffer
  <1> QED BY <1>6, <1>7, <1>8, <1>9, <1>10, <1>11, <1>12, <1>13, <1>14, <1>15, <1>16, <1>17,
             <1>18, <1>19 DEF ThreadNext, Send

\* When the program has exited no thread takes a step.
LEMMA ExitStep ==
  ASSUME Types, PlaceInv, RingInv, StartInv, ExitInv, NEW t \in Threads, ThreadNext(t),
         EarlyImages = FALSE
  PROVE  ExitInv' /\ ~ProcessExiting
  <1>1. pc[t] \notin {"unborn", "ended"}
    <2> USE DEF PlaceInv, Types, SendingPC
    <2>1. Send(t) => event[t] # NoEvent BY FlushForm, PushForm DEF Send, KeepEvent
    <2>2. Send(t) => pc[t] \notin {"unborn", "ended"} BY <2>1
    <2> QED BY <2>2, DispatchAssumption DEF ThreadNext, ImageLoad, ThreadStart, CreateBuffers, HandleThreadStart,
              Access, EnterWrapper, EnterCreate, EnterJoin, EnterCall, CallOriginal, LeaveCall,
              ThreadExit, FreeEventBuffer
  <1>2. ~ProcessExiting BY <1>1 DEF ProcessExiting
  <1>3. dpc' = dpc BY StartStep
  <1> QED BY <1>2, <1>3 DEF ExitInv

\* A detector's step keeps all that.
LEMMA DetectorControl ==
  ASSUME ControlInv, NEW d \in Detectors, DetectorNext(d), EarlyImages = FALSE
  PROVE  /\ ControlInv'
         /\ UNCHANGED <<threadVars, buffer, preEvents, unlockedUse, pastVars, boundVars>>
  <1> USE DEF ControlInv
  <1>1. UNCHANGED <<threadVars, buffer, preEvents, unlockedUse, pastVars, boundVars>>
    BY DEF DetectorNext, RegisterQueue, RegisterLock, HandleEvent, DeleteEvent, ExitDetection
  <1>2. Types' BY DetectorTypes
  <1>3. PlaceInv' BY <1>1 DEF PlaceInv
  <1>4. StartInv'
    <2> USE DEF StartInv, Types
    <2>1. CASE RegisterQueue(d)
      <3>1. dpc[d] = "spawned" /\ Idle(Root) /\ registered' = registered \cup {d}
            /\ locked' = locked /\ dpc' = [dpc EXCEPT ![d] = "registering"]
        BY <2>1 DEF RegisterQueue
      <3>2. locked # Detectors /\ locked' # Detectors BY <3>1
      <3>3. \A t \in Threads : event[t] = NoEvent
        BY <3>1, <3>2 DEF Idle, PlaceInv, SendingPC
      <3>4. registered' = {x \in Detectors : dpc'[x] # "spawned"} BY <3>1
      <3>5. locked' = {x \in Detectors : dpc'[x] \notin {"spawned", "registering"}} BY <3>1
      <3> QED BY <1>1, <3>1, <3>2, <3>3, <3>4, <3>5
    <2>2. CASE RegisterLock(d)
      <3>1. dpc[d] = "registering" /\ locked' = locked \cup {d} /\ registered' = registered
            /\ dpc' = [dpc EXCEPT ![d] = "waiting"]
        BY <2>2 DEF RegisterLock
      <3>2. registered' = {x \in Detectors : dpc'[x] # "spawned"} BY <3>1
      <3>3. locked' = {x \in Detectors : dpc'[x] \notin {"spawned", "registering"}} BY <3>1
      <3>4. locked # Detectors BY <3>1
      <3> QED BY <1>1, <3>1, <3>2, <3>3, <3>4
    <2>3. CASE HandleEvent(d) \/ DeleteEvent(d) \/ ExitDetection(d)
      <3>1. /\ UNCHANGED <<registered, locked>>
            /\ \E p \in {"waiting", "deleting", "exited"} : dpc' = [dpc EXCEPT ![d] = p]
            /\ dpc[d] \in {"waiting", "deleting"}
        BY <2>3 DEF HandleEvent, DeleteEvent, ExitDetection
      <3>2. registered' = {x \in Detectors : dpc'[x] # "spawned"} BY <3>1
      <3>3. locked' = {x \in Detectors : dpc'[x] \notin {"spawned", "registering"}} BY <3>1
      <3> QED BY <1>1, <3>1, <3>2, <3>3
    <2> QED BY <2>1, <2>2, <2>3 DEF DetectorNext
  <1>5. ExitInv'
    <2> USE DEF ExitInv, Types
    <2>1. ProcessExiting' <=> ProcessExiting BY <1>1 DEF ProcessExiting
    <2>2. CASE RegisterQueue(d) BY <2>1, <2>2 DEF RegisterQueue
    <2>3. CASE RegisterLock(d) BY <2>1, <2>3 DEF RegisterLock
    <2>4. CASE HandleEvent(d) BY <2>1, <2>4 DEF HandleEvent
    <2>5. CASE DeleteEvent(d) BY <2>1, <2>5 DEF DeleteEvent
    <2>6. CASE ExitDetection(d) BY <2>1, <2>6 DEF ExitDetection
    <2> QED BY <2>2, <2>3, <2>4, <2>5, <2>6 DEF DetectorNext
  <1> QED BY <1>1, <1>2, <1>3, <1>4, <1>5
-----------------------------------------------------------------------------
(* Numbers and clocks. *)

\* The steps that neither make an event nor send one.
Moves(t) == ThreadStart(t) \/ CreateBuffers(t) \/ CallOriginal(t) \/ FreeEventBuffer(t)

\* The whole of a step that makes an event for all detectors: where the thread goes, what
\* it has seen, and whether it passes on what it has done.
LEMMA DistributeRest ==
  ASSUME Types, PlaceInv, StartInv, NEW t \in Threads, Distributes(t)
  PROVE  /\ pc[t] \in {"loading", "starting", "ready", "inside", "returning"}
         /\ pc[t] = "starting" => locked = Detectors
         /\ \E p \in SendingPC : /\ pc' = [pc EXCEPT ![t] = p]
                                 /\ p = "loading" <=> pc[t] = "loading"
                                 /\ pc[t] = "starting" => p = "ready"
         /\ \/ published' = published
            \/ pc[t] = "inside" /\ published' = Joined(published, past[t])
         /\ \E v \in Clocks, h \in BOOLEAN :
              /\ Distribute(t, v, h)
              /\ \/ v = past[t]
                 \/ /\ pc[t] \in {"inside", "returning"} /\ v = Seen(t)
                    /\ child[t] # NoThread /\ ~Created(t) =>
                         child[t] \in Threads /\ pc[child[t]] = "ended"
  <1> USE DEF Types, PlaceInv, SendingPC
  <1>0. past[t] \in Clocks OBVIOUS
  <1>1. CASE t = Root /\ ImageLoad
    <2>1. pc' = [pc EXCEPT ![t] = "loading"] BY <1>1 DEF ImageLoad
    <2> QED BY <1>0, <1>1, <2>1 DEF ImageLoad
  <1>2. CASE HandleThreadStart(t)
    <2>1. locked = Detectors
      <3>1. CASE t = Root BY <1>2, <3>1 DEF KernelFree, HandleThreadStart, StartInv
      <3>2. CASE t # Root BY <1>2, <3>2 DEF HandleThreadStart, StartInv
      <3> QED BY <3>1, <3>2
    <2> QED BY <1>0, <1>2, <2>1 DEF HandleThreadStart
  <1>3. CASE EnterWrapper(t) \/ EnterCreate(t) \/ EnterJoin(t)
    <2>1. PICK c \in CallRecs, u \in Threads \cup {NoThread} : EnterCall(t, c, u)
      BY <1>3, Constants DEF EnterWrapper, EnterCreate, EnterJoin
    <2>2. c.before \in BOOLEAN BY DEF CallRecs
    <2> QED BY <1>0, <2>1, <2>2 DEF EnterCall
  <1>4. CASE LeaveCall(t)
    <2>1. call[t].after \in BOOLEAN BY DEF CallRecs
    <2>2. Seen(t) \in Clocks BY SeenType
    <2>3. child[t] # NoThread /\ ~Created(t) => child[t] \in Threads /\ pc[child[t]] = "ended"
      BY <1>4 DEF LeaveCall, Created
    <2>4. pc[t] \in {"inside", "returning"} /\ pc' = [pc EXCEPT ![t] = "ready"]
          /\ Distribute(t, Seen(t), call[t].after)
          /\ published' = IF pc[t] = "inside" /\ call[t].releases
                          THEN Joined(published, past[t]) ELSE published
      BY <1>4 DEF LeaveCall
    <2> QED BY <2>1, <2>2, <2>3, <2>4
  <1>5. CASE ThreadExit(t) BY <1>0, <1>5 DEF ThreadExit
  <1> QED BY <1>1, <1>2, <1>3, <1>4, <1>5 DEF Distributes

\* What a thread has seen of the others they have done.
LEMMA SeenBounds ==
  ASSUME Types, PlaceInv, CountInv, NEW t \in Threads, NEW v \in {past[t], Seen(t)}
  PROVE  v[t] = count[t] /\ \A u \in Threads : v[u] <= count[u]
  <1> USE DEF Types, CountInv, Clocks
  <1>0. past[t][t] = count[t] /\ \A u \in Threads : past[t][u] <= count[u] OBVIOUS
  <1>1. ASSUME NEW w \in Clocks, \A u \in Threads : w[u] <= count[u]
        PROVE  /\ Joined(past[t], w)[t] = count[t]
               /\ \A u \in Threads : Joined(past[t], w)[u] <= count[u]
    BY <1>1 DEF Joined
  <1>2. CASE child[t] # NoThread /\ ~Created(t)
    <2>1. child[t] \in Threads /\ past[child[t]] \in Clocks BY <1>2
    <2>2. Seen(t) = Joined(past[t], past[child[t]]) BY <1>2 DEF Seen
    <2>3. \A u \in Threads : past[child[t]][u] <= count[u] BY <2>1
    <2> QED BY <1>0, <1>1, <2>1, <2>2, <2>3
  <1>3. CASE ~(child[t] # NoThread /\ ~Created(t))
    <2>1. Seen(t) = Joined(past[t], published) \/ Seen(t) = past[t] BY <1>3 DEF Seen
    <2>2. published \in Clocks /\ \A u \in Threads : published[u] <= count[u] OBVIOUS
    <2> QED BY <1>0, <1>1, <2>1, <2>2
  <1> QED BY <1>2, <1>3

\* A new event is the next one of its thread.
LEMMA CreateCount ==
  ASSUME Types, CountInv, NEW t \in Threads, NEW v \in Clocks, NEW e, Makes(e, t, v),
         v[t] = count[t], \A u \in Threads : v[u] <= count[u],
         published' \in Clocks, \A u \in Threads : published'[u] <= count[u],
         pc[t] # "unborn", \A u \in Threads : pc'[u] = "unborn" => pc[u] = "unborn"
  PROVE  CountInv'
  <1>1. /\ e.thd = t /\ e.num = count[t] + 1 /\ e.after = v /\ issued' = issued \cup {e}
        /\ count' = [count EXCEPT ![t] = count[t] + 1]
        /\ past' = [past EXCEPT ![t] = [v EXCEPT ![t] = count[t] + 1]]
    BY DEF Makes
  <1>2. count \in [Threads -> Nat] /\ past \in [Threads -> [Threads -> Nat]] /\ v \in [Threads -> Nat]
    BY DEF Types, Clocks
  <1>3. count'[t] = count[t] + 1 /\ \A u \in Threads \ {t} : count'[u] = count[u]
    BY <1>1, <1>2
  <1>4. \A u \in Threads : count[u] <= count'[u] BY <1>2, <1>3
  <1>5. e \notin issued BY <1>1, <1>2 DEF CountInv
  <1>6. \A u \in Threads : /\ IsFiniteSet(Order!IssuedBy(u)')
                           /\ count'[u] = Cardinality(Order!IssuedBy(u)')
    <2> SUFFICES ASSUME NEW u \in Threads
                 PROVE IsFiniteSet(Order!IssuedBy(u)') /\ count'[u] = Cardinality(Order!IssuedBy(u)')
      OBVIOUS
    <2>1. CASE u = t
      <3>1. Order!IssuedBy(t)' = Order!IssuedBy(t) \cup {e} /\ e \notin Order!IssuedBy(t)
        BY <1>1, <1>5 DEF Order!IssuedBy
      <3>2. IsFiniteSet(Order!IssuedBy(t)) /\ count[t] = Cardinality(Order!IssuedBy(t))
        BY DEF CountInv
      <3> QED BY <1>3, <2>1, <3>1, <3>2, FS_AddElement
    <2>2. CASE u # t
      <3>1. Order!IssuedBy(u)' = Order!IssuedBy(u) BY <1>1, <2>2 DEF Order!IssuedBy
      <3> QED BY <1>3, <2>2, <3>1 DEF CountInv
    <2> QED BY <2>1, <2>2
  <1>7. ASSUME NEW f \in issued'
        PROVE  /\ f.num <= count'[f.thd] /\ f.after[f.thd] = f.num - 1
               /\ \A u \in Threads : f.after[u] <= count'[u]
    <2>1. CASE f = e
      <3>1. \A u \in Threads : v[u] \in Nat /\ count[u] \in Nat /\ count'[u] \in Nat
        BY <1>2, <1>3
      <3>2. \A u \in Threads : v[u] <= count'[u] BY <1>4, <3>1
      <3>3. f.num = count'[t] /\ f.thd = t /\ f.after = v /\ v[t] = f.num - 1 BY <1>1, <1>3, <2>1, <3>1
      <3> QED BY <3>1, <3>2, <3>3
    <2>2. CASE f \in issued
      <3>1. f.thd \in Threads /\ f.num \in Nat /\ f.after \in [Threads -> Nat]
        BY <2>2 DEF Types, Events, Clocks
      <3>2. /\ f.num <= count[f.thd] /\ f.after[f.thd] = f.num - 1
            /\ \A u \in Threads : f.after[u] <= count[u]
        BY <2>2 DEF CountInv
      <3>3. \A u \in Threads : f.after[u] \in Nat /\ count[u] \in Nat /\ count'[u] \in Nat
        BY <1>2, <1>3, <3>1
      <3> QED BY <1>4, <3>1, <3>2, <3>3
    <2> QED BY <1>1, <2>1, <2>2
  <1>8. ASSUME NEW u \in Threads
        PROVE  past'[u][u] = count'[u] /\ published'[u] <= count'[u]
               /\ \A w \in Threads : past'[u][w] <= count'[w]
    <2>0. published'[u] <= count'[u] BY <1>2, <1>3 DEF Clocks
    <2>1. CASE u = t BY <1>1, <1>2, <1>3, <1>4, <2>0, <2>1
    <2>2. CASE u # t
      <3>1. past'[u] = past[u] BY <1>1, <1>2, <2>2
      <3>2. past[u][u] = count[u] /\ \A w \in Threads : past[u][w] <= count[w] BY DEF CountInv
      <3>3. \A w \in Threads : past[u][w] \in Nat /\ count[w] \in Nat /\ count'[w] \in Nat
        BY <1>2, <1>3
      <3> QED BY <1>3, <1>4, <2>0, <2>2, <3>1, <3>2, <3>3
    <2> QED BY <2>1, <2>2
  <1>9. \A u \in Threads : pc'[u] = "unborn" => count'[u] = 0 BY <1>3 DEF CountInv
  <1> QED BY <1>6, <1>7, <1>8, <1>9 DEF CountInv

LEMMA CountStep ==
  ASSUME Types, Types', PlaceInv, StartInv, RingInv, CountInv, NEW t \in Threads, ThreadNext(t),
         EarlyImages = FALSE
  PROVE  CountInv'
  <1>1. CASE Send(t) \/ ThreadStart(t) \/ CreateBuffers(t) \/ FreeEventBuffer(t)
    <2>1. UNCHANGED <<count, past, published, issued>>
      BY <1>1, FlushForm, PushForm
         DEF Send, KeepEvent, ThreadStart, CreateBuffers, FreeEventBuffer
    <2>2. \A u \in Threads : pc'[u] = "unborn" => pc[u] = "unborn"
      BY <1>1, FlushForm, PushForm
         DEF Send, KeepEvent, ThreadStart, CreateBuffers, FreeEventBuffer, Types
    <2> QED BY <2>1, <2>2 DEF CountInv, Order!IssuedBy
  <1>2. CASE \E u \in Units : Access(t, u)
    <2>1. PICK u \in Units : Access(t, u) BY <1>2
    <2>2. PICK d \in Detectors, e \in Events : Makes(e, t, past[t])
      BY <2>1, AccessForm
    <2>3. pc[t] = "ready" /\ UNCHANGED <<pc, published>> BY <2>1, AccessForm
    <2>4. past[t] \in Clocks BY DEF Types
    <2>5. past[t][t] = count[t] /\ \A w \in Threads : past[t][w] <= count[w] BY SeenBounds
    <2>6. published' \in Clocks /\ \A w \in Threads : published'[w] <= count[w]
      BY <2>3 DEF CountInv, Types
    <2> QED BY <2>2, <2>3, <2>4, <2>5, <2>6, CreateCount
  <1>3. CASE Distributes(t)
    <2>1. PICK v \in Clocks, h \in BOOLEAN :
            Distribute(t, v, h) /\ (v = past[t] \/ v = Seen(t))
      BY <1>3, DistributeRest
    <2>2. v[t] = count[t] /\ \A w \in Threads : v[w] <= count[w] BY <2>1, SeenBounds
    <2>3. published' \in Clocks /\ \A w \in Threads : published'[w] <= count[w]
      <3>1. CASE published' = published BY <3>1 DEF CountInv, Types
      <3>2. CASE published' = Joined(published, past[t])
        BY <3>2 DEF CountInv, Types, Joined, Clocks
      <3> QED BY <1>3, <3>1, <3>2, DistributeRest
    <2>4. pc[t] # "unborn" /\ \A u \in Threads : pc'[u] = "unborn" => pc[u] = "unborn"
      BY ZenonT(30), <1>3, DistributeRest DEF SendingPC, Types
    <2>5. PICK e \in Events : Makes(e, t, v) BY <2>1, CreateBroadcast
    <2> QED BY <2>2, <2>3, <2>4, <2>5, CreateCount
  <1>4. CASE CallOriginal(t)
    <2>1. UNCHANGED <<count, issued>> /\ pc[t] = "inside" BY <1>4 DEF CallOriginal
    <2>2. CASE Created(t)
      <3>1. /\ pc' = [pc EXCEPT ![t] = "returning", ![child[t]] = "born"]
            /\ past' = [past EXCEPT ![child[t]] = past[t]] /\ published' = published
        BY <1>4, <2>2 DEF CallOriginal, Created, Waits, CreateCall, Call
      <3>2. child[t] \in Threads /\ pc[child[t]] = "unborn"
        BY <2>1, <2>2 DEF Created, PlaceInv, Types
      <3>3. \A u \in Threads : pc'[u] = "unborn" => pc[u] = "unborn" BY <3>1 DEF Types
      <3>4. count[child[t]] = 0 /\ past[t][child[t]] <= 0 /\ past[t][child[t]] \in Nat
        BY <3>2 DEF CountInv, Types, Clocks
      <3>5. \A u \in Threads : past'[u][u] = count[u]
        <4>1. past'[child[t]][child[t]] = 0 BY <3>1, <3>2, <3>4 DEF Types
        <4>2. \A u \in Threads : u # child[t] => past'[u] = past[u] BY <3>1 DEF Types
        <4> QED BY <3>4, <4>1, <4>2 DEF CountInv
      <3>6. \A u, w \in Threads : past'[u][w] <= count[w]
        BY <3>1, <3>2 DEF CountInv, Types
      <3> QED BY <2>1, <3>1, <3>3, <3>5, <3>6 DEF CountInv, Order!IssuedBy
    <2>3. CASE ~Created(t)
      <3>1. /\ pc' = [pc EXCEPT ![t] = "returning"] /\ past' = past
            /\ published' = Joined(published, past[t])
        BY <1>4, <2>3 DEF CallOriginal
      <3>2. \A u \in Threads : published'[u] <= count[u]
        BY <3>1 DEF CountInv, Types, Joined, Clocks
      <3>3. \A u \in Threads : pc'[u] = "unborn" => pc[u] = "unborn" BY <3>1 DEF Types
      <3> QED BY <2>1, <3>1, <3>2, <3>3 DEF CountInv, Order!IssuedBy
    <2> QED BY <2>2, <2>3
  <1> QED BY <1>1, <1>2, <1>3, <1>4 DEF ThreadNext, Distributes
-----------------------------------------------------------------------------
(* Buffers. *)

\* A ring that nothing can be popped from is in order.
LEMMA RingEmpty ==
  ASSUME NEW b \in Rings, Stored(b) = 0, \A i \in 0..MaxEventNum : b.vec[i] = NoEvent,
         NEW I, NEW t, NEW d
  PROVE  RingOK(b, I, t, d) /\ Range(Popped(b)) = {}
  <1>1. 1..Stored(b) = {} OBVIOUS
  <1> QED BY <1>1, PoppedProps DEF RingOK

LEMMA RingPush ==
  ASSUME NEW b \in Rings, NEW I, NEW t \in Threads, NEW d \in Detectors,
         RingOK(b, I, t, d), ~Full(b), NEW e \in Events, IsFor(e, t, d), After(e, Range(Popped(b)))
  PROVE  /\ RingOK(Push(b, e), I \cup {e}, t, d)
         /\ Range(Popped(Push(b, e))) = Range(Popped(b)) \cup {e}
  <1> DEFINE c == Push(b, e)
             n == Stored(b)
  <1>1. /\ c \in Rings /\ Stored(c) = n + 1
        /\ \A i \in 1..n : Popped(c)[i] = Popped(b)[i]
        /\ Popped(c)[n + 1] = e
        /\ \A i \in 0..MaxEventNum : c.vec[i] \in {b.vec[i], e}
    BY PushProps
  <1>2. /\ n \in Nat /\ Range(Popped(b)) = {Popped(b)[i] : i \in 1..n}
    BY PoppedProps
  <1>3. Range(Popped(c)) = {Popped(c)[i] : i \in 1..Stored(c)} BY <1>1, PoppedProps
  <1> HIDE DEF c, n
  <1>4. 1..(n + 1) = 1..n \cup {n + 1} BY <1>2
  <1>5. Range(Popped(c)) = Range(Popped(b)) \cup {e} BY <1>1, <1>2, <1>3, <1>4
  <1>6. /\ \A i \in 1..n : Popped(b)[i] \in I /\ Popped(b)[i].thd = t /\ Popped(b)[i].to = {d}
        /\ \A i, j \in 1..n : i < j => Popped(b)[i].num < Popped(b)[j].num
        /\ \A i \in 0..MaxEventNum : b.vec[i] # NoEvent => b.vec[i] \in Range(Popped(b))
    BY DEF RingOK, n
  <1>7. \A i \in 1..Stored(c) : Popped(c)[i] \in I \cup {e} /\ Popped(c)[i].thd = t /\ Popped(c)[i].to = {d}
    BY <1>1, <1>4, <1>6 DEF IsFor
  <1>8. \A i, j \in 1..Stored(c) : i < j => Popped(c)[i].num < Popped(c)[j].num
    <2> SUFFICES ASSUME NEW i \in 1..(n + 1), NEW j \in 1..(n + 1), i < j
                 PROVE  Popped(c)[i].num < Popped(c)[j].num
      BY <1>1
    <2>1. i \in 1..n BY <1>2
    <2>2. CASE j = n + 1 BY <1>1, <1>2, <2>1, <2>2 DEF After
    <2>3. CASE j \in 1..n BY <1>1, <1>6, <2>1, <2>3
    <2> QED BY <1>4, <2>2, <2>3
  <1>9. \A i \in 0..MaxEventNum : c.vec[i] # NoEvent => c.vec[i] \in Range(Popped(c))
    BY <1>1, <1>5, <1>6
  <1>10. RingOK(c, I \cup {e}, t, d) BY <1>7, <1>8, <1>9 DEF RingOK
  <1> QED BY <1>5, <1>10 DEF c

\* What a flush does: the buffer's events go to the queue.
LEMMA KeptFlush ==
  ASSUME Types, PlaceInv, RingInv, NEW t \in Threads, FlushBuffer(t)
  PROVE  \E d \in Detectors, P \in Seq(Events) :
           /\ RingOK(buffer[t][d], issued, t, d) /\ buffer[t][d] \in Rings
           /\ P = Popped(buffer[t][d]) /\ Range(P) = Kept(t, d) /\ Kept(t, d)' = {}
           /\ \A u \in Threads, x \in Detectors : u # t \/ x # d => Kept(u, x)' = Kept(u, x)
           /\ deq' = [deq EXCEPT ![d] = @ \o P]
           /\ RingInv'
  <1>1. PICK d \in Detectors :
          /\ HasBuffers(t) /\ buffer[t][d] \in Rings
          /\ Popped(buffer[t][d]) \in Seq(Events)
          /\ deq' = [deq EXCEPT ![d] = @ \o Popped(buffer[t][d])]
          /\ buffer' = [buffer EXCEPT ![t][d] = Drained(buffer[t][d])]
          /\ issued' = issued
    BY FlushForm
  <1> DEFINE c == Drained(buffer[t][d])
  <1>2. /\ c \in Rings /\ RingOK(c, issued, t, d) /\ Range(Popped(c)) = {}
    BY <1>1, DrainedProps, RingEmpty
  <1> HIDE DEF c
  <1>3. buffer[t] \in [Detectors -> Rings] BY <1>1 DEF HasBuffers, Types
  <1>4. /\ buffer'[t][d] = c /\ \A x \in Detectors \ {d} : buffer'[t][x] = buffer[t][x]
        /\ \A u \in Threads \ {t} : buffer'[u] = buffer[u]
        /\ buffer'[t] # NoBuffers
    BY <1>1, <1>2, <1>3, Constants DEF Types, c
  <1>5. RingInv'
    BY <1>1, <1>2, <1>4 DEF RingInv, HasBuffers
  <1>6. Kept(t, d)' = {} BY <1>2, <1>4 DEF KeptIn, HasBuffers
  <1>7. \A u \in Threads, x \in Detectors : u # t \/ x # d => Kept(u, x)' = Kept(u, x)
    BY <1>1, <1>4 DEF KeptIn, HasBuffers
  <1>8. RingOK(buffer[t][d], issued, t, d) BY <1>1 DEF RingInv
  <1>9. Range(Popped(buffer[t][d])) = Kept(t, d) BY <1>1 DEF KeptIn, HasBuffers
  <1> QED BY <1>1, <1>5, <1>6, <1>7, <1>8, <1>9

\* The buffer of t for d takes in e, after it has been emptied of P.
Takes(t, d, e, P) ==
  \/ /\ RingOK(buffer[t][d], issued, t, d) /\ buffer[t][d] \in Rings
     /\ P = Popped(buffer[t][d]) /\ Range(P) = Kept(t, d) /\ Kept(t, d)' = {e}
  \/ P = <<>> /\ Kept(t, d)' = Kept(t, d) \cup {e}

\* What an access does: its event goes into the buffer, which is emptied first if it is full.
LEMMA KeptAccess ==
  ASSUME Types, PlaceInv, RingInv, CountInv, NEW t \in Threads, NEW u \in Units, Access(t, u)
  PROVE  \E d \in Detectors, e \in Events, P \in Seq(Events) :
           /\ Makes(e, t, past[t]) /\ IsFor(e, t, d) /\ Takes(t, d, e, P)
           /\ \A w \in Threads, x \in Detectors : w # t \/ x # d => Kept(w, x)' = Kept(w, x)
           /\ deq' = [deq EXCEPT ![d] = @ \o P]
           /\ RingInv'
  <1>0. HasBuffers(t) BY AccessForm
  <1>1. PICK d \in Detectors, e \in Events :
          /\ Makes(e, t, past[t]) /\ IsFor(e, t, d)
          /\ buffer[t][d] \in Rings
          /\ \/ /\ Popped(buffer[t][d]) \in Seq(Events)
                /\ deq' = [deq EXCEPT ![d] = @ \o Popped(buffer[t][d])]
                /\ buffer' = [buffer EXCEPT ![t][d] = Push(Drained(buffer[t][d]), e)]
             \/ /\ ~Full(buffer[t][d])
                /\ deq' = deq
                /\ buffer' = [buffer EXCEPT ![t][d] = Push(buffer[t][d], e)]
    BY AccessForm
  <1> DEFINE b == buffer[t][d]
             D == Drained(b)
  <1>3. IsFor(e, t, d) /\ e.thd = t /\ e.num = count[t] + 1 /\ issued' = issued \cup {e}
    BY <1>1 DEF Makes
  <1>4. D \in Rings /\ ~Full(D) /\ RingOK(D, issued, t, d) /\ Range(Popped(D)) = {}
    BY <1>1, DrainedProps, RingEmpty
  <1>5. b \in Rings /\ RingOK(b, issued, t, d) /\ Range(Popped(b)) = Kept(t, d)
    BY <1>0, <1>1 DEF RingInv, KeptIn, HasBuffers
  <1>6. After(e, Range(Popped(b)))
    <2>1. \A f \in Range(Popped(b)) : f \in issued /\ f.thd = t
      BY <1>5, PoppedProps DEF RingOK
    <2>2. count[t] \in Nat /\ \A f \in issued : f.num \in Nat BY DEF Types, Clocks, Events
    <2>3. \A f \in issued : f.num <= count[f.thd] BY DEF CountInv
    <2> QED BY <1>3, <2>1, <2>2, <2>3 DEF After
  <1>7. issued \in SUBSET Events BY DEF Types
  <1>8. /\ Push(D, e) \in Rings /\ RingOK(Push(D, e), issued', t, d)
        /\ Range(Popped(Push(D, e))) = {e}
    <2> HIDE DEF D
    <2>1. Push(D, e) \in Rings BY <1>4, PushProps
    <2>2. After(e, Range(Popped(D))) BY <1>4 DEF After
    <2>3. RingOK(Push(D, e), issued \cup {e}, t, d)
          /\ Range(Popped(Push(D, e))) = Range(Popped(D)) \cup {e}
      <3>1. D \in Rings /\ ~Full(D) /\ RingOK(D, issued, t, d) BY <1>4
      <3> QED BY <1>3, <2>2, <3>1, RingPush
    <2> QED BY <1>3, <1>4, <2>1, <2>3
  <1>9. ~Full(b) => /\ Push(b, e) \in Rings /\ RingOK(Push(b, e), issued', t, d)
                    /\ Range(Popped(Push(b, e))) = Kept(t, d) \cup {e}
    <2> SUFFICES ASSUME ~Full(b)
                 PROVE  /\ Push(b, e) \in Rings /\ RingOK(Push(b, e), issued', t, d)
                        /\ Range(Popped(Push(b, e))) = Kept(t, d) \cup {e}
      OBVIOUS
    <2> HIDE DEF b
    <2>1. Push(b, e) \in Rings BY <1>5, PushProps
    <2>2. RingOK(Push(b, e), issued \cup {e}, t, d)
          /\ Range(Popped(Push(b, e))) = Range(Popped(b)) \cup {e}
      <3>1. b \in Rings /\ ~Full(b) /\ RingOK(b, issued, t, d) BY <1>5
      <3> QED BY <1>3, <1>6, <3>1, RingPush
    <2> QED BY <1>3, <1>5, <2>1, <2>2
  <1>10. buffer[t] \in [Detectors -> Rings] BY <1>0 DEF HasBuffers, Types
  <1>11. ASSUME NEW c \in Rings, buffer' = [buffer EXCEPT ![t][d] = c], RingOK(c, issued', t, d)
         PROVE  /\ RingInv' /\ Kept(t, d)' = Range(Popped(c))
                /\ \A w \in Threads, x \in Detectors : w # t \/ x # d => Kept(w, x)' = Kept(w, x)
    <2>1. /\ buffer'[t][d] = c /\ \A x \in Detectors \ {d} : buffer'[t][x] = buffer[t][x]
          /\ \A w \in Threads \ {t} : buffer'[w] = buffer[w]
          /\ buffer'[t] # NoBuffers
      BY <1>10, <1>11, Constants DEF Types
    <2>2. ASSUME NEW w \in Threads, NEW x \in Detectors, HasBuffers(w)'
          PROVE  RingOK(buffer'[w][x], issued', w, x)
      <3>1. CASE w = t /\ x = d BY <1>11, <2>1, <3>1
      <3>2. CASE ~(w = t /\ x = d)
        <4>1. HasBuffers(w) /\ buffer'[w][x] = buffer[w][x] BY <1>0, <2>1, <2>2, <3>2 DEF HasBuffers
        <4>2. RingOK(buffer[w][x], issued, w, x) BY <4>1 DEF RingInv
        <4> QED BY <1>3, <4>1, <4>2 DEF RingOK
      <3> QED BY <3>1, <3>2
    <2>3. RingInv' BY <2>2 DEF RingInv
    <2>4. Kept(t, d)' = Range(Popped(c)) BY <2>1 DEF KeptIn, HasBuffers
    <2>5. \A w \in Threads, x \in Detectors : w # t \/ x # d => Kept(w, x)' = Kept(w, x)
      BY <1>0, <2>1 DEF KeptIn, HasBuffers
    <2> QED BY <2>3, <2>4, <2>5
  <1>12. CASE /\ Popped(b) \in Seq(Events)
              /\ deq' = [deq EXCEPT ![d] = @ \o Popped(b)]
              /\ buffer' = [buffer EXCEPT ![t][d] = Push(D, e)]
    <2> HIDE DEF b, D
    <2>1. /\ RingInv' /\ Kept(t, d)' = {e}
          /\ \A w \in Threads, x \in Detectors : w # t \/ x # d => Kept(w, x)' = Kept(w, x)
      BY <1>8, <1>11, <1>12
    <2>2. Takes(t, d, e, Popped(b)) BY <1>5, <2>1 DEF Takes, b
    <2> QED BY <1>1, <1>12, <2>1, <2>2 DEF b
  <1>13. CASE ~Full(b) /\ deq' = deq /\ buffer' = [buffer EXCEPT ![t][d] = Push(b, e)]
    <2> HIDE DEF b, D
    <2>1. /\ RingInv' /\ Kept(t, d)' = Kept(t, d) \cup {e}
          /\ \A w \in Threads, x \in Detectors : w # t \/ x # d => Kept(w, x)' = Kept(w, x)
      BY <1>9, <1>11, <1>13
    <2>2. <<>> \in Seq(Events) /\ deq' = [deq EXCEPT ![d] = @ \o <<>>]
      BY <1>13 DEF Types
    <2>3. Takes(t, d, e, <<>>) BY <2>1 DEF Takes
    <2> QED BY <1>1, <2>1, <2>2, <2>3
  <1> QED BY <1>1, <1>12, <1>13

\* All other steps leave what is in the buffers.
LEMMA KeptSame ==
  ASSUME Types, PlaceInv, StartInv, RingInv, QuietInv, NEW t \in Threads,
         KeepEvent(t) \/ PushEvent(t) \/ Distributes(t) \/ Moves(t)
  PROVE  (\A u \in Threads, x \in Detectors : Kept(u, x)' = Kept(u, x)) /\ RingInv'
  <1>1. issued \subseteq issued'
    BY PushForm, DistributeForm
       DEF KeepEvent, Moves, ThreadStart, CreateBuffers, CallOriginal, FreeEventBuffer, Distribute, Create
  <1>2. CASE buffer' = buffer
    <2>1. \A u \in Threads, x \in Detectors : RingOK(buffer[u][x], issued, u, x) =>
            RingOK(buffer[u][x], issued', u, x)
      BY <1>1 DEF RingOK
    <2> QED BY <1>2, <2>1 DEF KeptIn, HasBuffers, RingInv
  <1>3. CASE CreateBuffers(t)
    <2>1. EmptyRing \in Rings /\ Stored(EmptyRing) = 0
          /\ \A i \in 0..MaxEventNum : EmptyRing.vec[i] = NoEvent
      BY DispatchAssumption DEF EmptyRing, Rings, Stored, Slots
    <2>2. \A x \in Detectors : RingOK(EmptyRing, issued', t, x) /\ Range(Popped(EmptyRing)) = {}
      BY <2>1, RingEmpty
    <2>3. buffer[t] = NoBuffers BY <1>3 DEF CreateBuffers, PlaceInv, BufferPC
    <2>4. /\ \A x \in Detectors : buffer'[t][x] = EmptyRing
          /\ \A u \in Threads \ {t} : buffer'[u] = buffer[u] /\ issued' = issued
      BY <1>3 DEF CreateBuffers, Types
    <2>5. RingInv'
      <3>1. ASSUME NEW u \in Threads, NEW x \in Detectors, HasBuffers(u)'
            PROVE  RingOK(buffer'[u][x], issued', u, x)
        BY <2>2, <2>4, <3>1 DEF RingInv, HasBuffers
      <3> QED BY <3>1 DEF RingInv
    <2> QED BY <2>2, <2>3, <2>4, <2>5 DEF KeptIn, HasBuffers
  <1>4. CASE FreeEventBuffer(t)
    <2>1. \A d \in Detectors : Kept(t, d) = {}
      BY <1>4 DEF FreeEventBuffer, QuietInv, PassingPC, Idle
    <2>2. /\ buffer'[t] = NoBuffers /\ \A u \in Threads \ {t} : buffer'[u] = buffer[u]
          /\ issued' = issued
      BY <1>4 DEF FreeEventBuffer, Types
    <2>3. RingInv' BY <2>2 DEF RingInv, HasBuffers
    <2> QED BY <2>1, <2>2, <2>3 DEF KeptIn, HasBuffers
  <1> QED BY <1>2, <1>3, <1>4, PushForm, DistributeForm
          DEF KeepEvent, Moves, ThreadStart, CallOriginal
-----------------------------------------------------------------------------
(* What is to be sent, and by whom. *)

\* While events from before the first detector are left, only the first thread is there.
LEMMA PreRoot ==
  ASSUME Types, PreInv, PreLeft, NEW t \in Threads, pc[t] # "unborn"
  PROVE  /\ t = Root /\ \A d \in Detectors : Kept(Root, d) = {}
         /\ \/ pc[t] \in {"loading", "announced", "starting"}
            \/ pc[t] = "ready" /\ event[t] # NoEvent
  BY DEF PreInv

LEMMA QuietStep ==
  ASSUME Types, PlaceInv, StartInv, RingInv, CountInv, QuietInv, NEW t \in Threads, ThreadNext(t)
  PROVE  QuietInv'
  <1> USE DEF PassingPC
  <1>0. ASSUME UNCHANGED pc, \A u \in Threads \ {t} : event'[u] = event[u],
               \A u \in Threads \ {t}, d \in Detectors : Kept(u, d)' = Kept(u, d),
               pc[t] \in PassingPC /\ event'[t] = NoEvent => \A d \in Detectors : Kept(t, d)' = {}
        PROVE  QuietInv'
    BY <1>0 DEF QuietInv
  <1>1. CASE FlushBuffer(t)
    <2>1. UNCHANGED <<pc, event>> /\ event[t] # NoEvent BY <1>1, FlushForm
    <2>2. \A u \in Threads \ {t}, d \in Detectors : Kept(u, d)' = Kept(u, d)
      BY <1>1, KeptFlush
    <2> QED BY <1>0, <2>1, <2>2
  <1>2. CASE KeepEvent(t)
    <2>1. /\ event[t] # NoEvent /\ registered = {} /\ UNCHANGED pc
          /\ event' = [event EXCEPT ![t] = NoEvent]
      BY <1>2 DEF KeepEvent, Finished
    <2>2. locked # Detectors BY <2>1, Constants DEF StartInv
    <2>3. pc[t] \notin PassingPC BY <2>2 DEF StartInv
    <2>4. \A u \in Threads \ {t} : event'[u] = event[u] BY <2>1 DEF Types
    <2>5. \A u \in Threads \ {t}, d \in Detectors : Kept(u, d)' = Kept(u, d) BY <1>2, KeptSame
    <2> QED BY <1>0, <2>1, <2>3, <2>4, <2>5
  <1>3. CASE PushEvent(t)
    <2>1. (\A d \in Detectors : Kept(t, d) = {}) /\ UNCHANGED pc BY <1>3, PushForm
    <2>2. \A u \in Threads, d \in Detectors : Kept(u, d)' = Kept(u, d) BY <1>3, KeptSame
    <2>3. \A u \in Threads \ {t} : event'[u] = event[u] BY <1>3, PushRest
    <2> QED BY <1>0, <2>1, <2>2, <2>3
  <1>4. CASE \E u \in Units : Access(t, u)
    <2>0. PICK u \in Units : Access(t, u) BY <1>4
    <2>1. pc[t] = "ready" /\ UNCHANGED <<pc, event>> BY <2>0, AccessForm
    <2>2. \A w \in Threads \ {t}, d \in Detectors : Kept(w, d)' = Kept(w, d)
      <3>1. PICK d \in Detectors :
              \A w \in Threads, x \in Detectors : w # t \/ x # d => Kept(w, x)' = Kept(w, x)
        BY <2>0, KeptAccess
      <3> QED BY <3>1
    <2> QED BY <1>0, <2>1, <2>2
  <1>5. CASE Distributes(t)
    <2>1. PICK v \in Clocks, h \in BOOLEAN : Distribute(t, v, h) BY <1>5, DistributeRest
    <2>2. PICK p \in SendingPC : pc' = [pc EXCEPT ![t] = p] BY <1>5, DistributeRest
    <2>3. PICK e \in Events : Makes(e, t, v) /\ event' = [event EXCEPT ![t] = e]
      BY <2>1, CreateBroadcast
    <2>4. event'[t] # NoEvent /\ \A u \in Threads \ {t} : event'[u] = event[u] /\ pc'[u] = pc[u]
      BY <2>2, <2>3, Constants DEF Types
    <2>5. \A u \in Threads, d \in Detectors : Kept(u, d)' = Kept(u, d) BY <1>5, KeptSame
    <2> QED BY <2>4, <2>5 DEF QuietInv
  <1>6. CASE Moves(t)
    <2>1. \A u \in Threads, d \in Detectors : Kept(u, d)' = Kept(u, d) BY <1>6, KeptSame
    <2>2. event' = event
      BY <1>6 DEF Moves, ThreadStart, CreateBuffers, CallOriginal, FreeEventBuffer
    <2>3. \A u \in Threads : pc'[u] \in PassingPC /\ event[u] = NoEvent => pc[u] \in PassingPC
      <3>1. CASE ThreadStart(t) BY <3>1 DEF ThreadStart, Types
      <3>2. CASE CreateBuffers(t) BY <3>2 DEF CreateBuffers, Types
      <3>3. CASE CallOriginal(t) BY <3>3 DEF CallOriginal, Types
      <3>4. CASE FreeEventBuffer(t) BY <3>4 DEF FreeEventBuffer, Types
      <3> QED BY <1>6, <3>1, <3>2, <3>3, <3>4 DEF Moves
    <2> QED BY <2>1, <2>2, <2>3 DEF QuietInv
  <1> QED BY <1>1, <1>2, <1>3, <1>4, <1>5, <1>6 DEF ThreadNext, Send, Distributes, Moves

\* What is in a thread's buffer is its own, of the past.
LEMMA KeptOld ==
  ASSUME Types, RingInv, CountInv, NEW t \in Threads, NEW d \in Detectors, NEW e \in Kept(t, d)
  PROVE  e \in issued /\ e.thd = t /\ e.to = {d} /\ e.num <= count[t]
  <1>1. HasBuffers(t) /\ e \in Range(Popped(buffer[t][d])) BY DEF KeptIn, HasBuffers
  <1>2. buffer[t][d] \in Rings /\ RingOK(buffer[t][d], issued, t, d)
    BY <1>1 DEF RingInv, Types, HasBuffers
  <1>3. e \in issued /\ e.thd = t /\ e.to = {d} BY <1>1, <1>2, PoppedProps DEF RingOK
  <1> QED BY <1>3 DEF CountInv

\* What a thread sends next is an event of its own for all detectors.
LEMMA ToSendForm ==
  ASSUME Types, PlaceInv, EventInv, PreInv, NEW t \in Threads, event[t] # NoEvent
  PROVE  /\ IsBroadcast(ToSend(t), t) /\ ToSend(t) \in Events /\ ToSend(t) # NoEvent
         /\ \/ out[t] # NoEvent /\ ToSend(t) = out[t]
            \/ /\ out[t] = NoEvent /\ preEvents # <<>> /\ t = Root /\ ToSend(t) = Head(preEvents)
               /\ ToSend(t).num < event[t].num
               /\ \A i \in 1..Len(Tail(preEvents)) : ToSend(t).num < Tail(preEvents)[i].num
            \/ out[t] = NoEvent /\ preEvents = <<>> /\ ToSend(t) = event[t]
  <1>1. pc[t] # "unborn" BY DEF PlaceInv, SendingPC
  <1>2. CASE out[t] # NoEvent
    <2>1. IsBroadcast(out[t], t) BY <1>2 DEF EventInv
    <2> QED BY <1>2, <2>1, Constants DEF ToSend, IsBroadcast, Types
  <1>3. CASE out[t] = NoEvent /\ preEvents # <<>>
    <2>1. t = Root BY <1>1, <1>3, PreRoot DEF PreLeft
    <2>2. preEvents \in Seq(Events) /\ 1 \in 1..Len(preEvents) /\ Head(preEvents) = preEvents[1]
      BY <1>3 DEF Types
    <2>3. ToSend(t) = preEvents[1] BY <1>3, <2>2 DEF ToSend
    <2>4. IsBroadcast(preEvents[1], Root) BY <2>2 DEF PreInv
    <2>5. preEvents[1].num < event[t].num BY <2>1, <2>2 DEF PreInv
    <2>6. \A i \in 1..Len(Tail(preEvents)) : i + 1 \in 1..Len(preEvents) /\ Tail(preEvents)[i] = preEvents[i + 1]
                                             /\ 1 < i + 1
      BY <2>2
    <2>7. \A i \in 1..Len(Tail(preEvents)) : preEvents[1].num < Tail(preEvents)[i].num
      BY <2>2, <2>6 DEF PreInv
    <2>8. ToSend(t) \in Events /\ ToSend(t) # NoEvent BY <2>2, <2>3, Constants
    <2> QED BY <1>3, <2>1, <2>2, <2>3, <2>4, <2>5, <2>7, <2>8
  <1>4. CASE out[t] = NoEvent /\ preEvents = <<>>
    <2>1. IsBroadcast(event[t], t) BY DEF EventInv
    <2> QED BY <1>4, <2>1, Constants DEF ToSend, IsBroadcast, Types
  <1> QED BY <1>2, <1>3, <1>4

LEMMA EventStep ==
  ASSUME Types, PlaceInv, StartInv, RingInv, CountInv, QuietInv, EventInv, PreInv,
         NEW t \in Threads, ThreadNext(t)
  PROVE  EventInv'
  <1> DEFINE OK(u) ==
        /\ event[u] # NoEvent => IsBroadcast(event[u], u) /\ event[u].num = count[u]
        /\ out[u] # NoEvent => IsBroadcast(out[u], u)
        /\ event[u] # NoEvent => \A d \in Detectors : \A e \in Kept(u, d) : e.num < event[u].num
        /\ out[u] # NoEvent => \A d \in Detectors : Kept(u, d) = {}
  <1>0. ASSUME NEW u \in Threads, issued \subseteq issued',
               event'[u] = event[u], out'[u] = out[u], count'[u] = count[u],
               \A d \in Detectors : Kept(u, d)' \subseteq Kept(u, d)
        PROVE  OK(u)'
    BY <1>0 DEF IsBroadcast, EventInv
  <1> SUFFICES ASSUME NEW u \in Threads PROVE OK(u)'
    BY DEF EventInv
  <1>1. CASE FlushBuffer(t)
    <2>1. UNCHANGED <<event, out, issued, count>> BY <1>1, FlushForm
    <2>2. \A d \in Detectors : Kept(u, d)' \subseteq Kept(u, d)
      <3>1. PICK d \in Detectors :
              /\ Kept(t, d)' = {}
              /\ \A w \in Threads, x \in Detectors : w # t \/ x # d => Kept(w, x)' = Kept(w, x)
        BY <1>1, KeptFlush
      <3> QED BY <3>1
    <2> HIDE DEF OK
    <2> QED BY <1>0, <2>1, <2>2
  <1>2. CASE KeepEvent(t)
    <2>1. UNCHANGED <<issued, count>> /\ Finished(t) BY <1>2 DEF KeepEvent
    <2>2. \A d \in Detectors : Kept(u, d)' = Kept(u, d) BY <1>2, KeptSame
    <2>3. CASE u = t
      <3>1. event'[t] = NoEvent /\ out'[t] = NoEvent BY <2>1 DEF Finished, Types
      <3> QED BY <2>3, <3>1
    <2>4. CASE u # t
      <3>1. event'[u] = event[u] /\ out'[u] = out[u] BY <2>1, <2>4 DEF Finished, Types
      <3> HIDE DEF OK
      <3> QED BY <1>0, <2>1, <2>2, <3>1
    <2> QED BY <2>3, <2>4
  <1>3. CASE PushEvent(t)
    <2>1. /\ event[t] # NoEvent /\ (\A d \in Detectors : Kept(t, d) = {})
          /\ UNCHANGED <<issued, count>>
      BY <1>3, PushForm
    <2>2. \A d \in Detectors : Kept(u, d)' = Kept(u, d) BY <1>3, KeptSame
    <2>3. /\ event'[t] \in {event[t], NoEvent} /\ out'[t] \in {ToSend(t), NoEvent}
          /\ \A w \in Threads \ {t} : event'[w] = event[w] /\ out'[w] = out[w]
      BY <1>3, PushRest
    <2>4. CASE u = t
      <3>1. IsBroadcast(ToSend(t), t) BY <2>1, ToSendForm
      <3>2. IsBroadcast(event[t], t) /\ event[t].num = count[t] BY <2>1 DEF EventInv
      <3>3. \A d \in Detectors : Kept(t, d)' = {} BY <2>1, <2>2, <2>4
      <3> HIDE DEF Kept
      <3>4. event'[t] # NoEvent => IsBroadcast(event[t], t)' /\ event'[t].num = count'[t]
        BY <2>1, <2>3, <3>2 DEF IsBroadcast
      <3>5. out'[t] # NoEvent => IsBroadcast(out[t], t)'
        BY <2>1, <2>3, <3>1 DEF IsBroadcast
      <3> USE DEF Kept
      <3> QED BY <2>4, <3>3, <3>4, <3>5
    <2>5. CASE u # t
      <3>1. event'[u] = event[u] /\ out'[u] = out[u] BY <2>3, <2>5
      <3> HIDE DEF OK
      <3> QED BY <1>0, <2>1, <2>2, <3>1
    <2> QED BY <2>4, <2>5
  <1>4. CASE \E x \in Units : Access(t, x)
    <2>0. PICK x \in Units : Access(t, x) BY <1>4
    <2>1. UNCHANGED threadVars /\ event[t] = NoEvent /\ out[t] = NoEvent BY <2>0, AccessForm
    <2>2. PICK d \in Detectors, e \in Events :
            /\ Makes(e, t, past[t])
            /\ \A w \in Threads, y \in Detectors : w # t \/ y # d => Kept(w, y)' = Kept(w, y)
      BY <2>0, KeptAccess
    <2>3. issued' = issued \cup {e} /\ count' = [count EXCEPT ![t] = count[t] + 1]
      BY <2>2 DEF Makes
    <2>4. CASE u = t BY <2>1, <2>4
    <2>5. CASE u # t
      <3>1. count'[u] = count[u] BY <2>3, <2>5 DEF Types, Clocks
      <3>2. \A y \in Detectors : Kept(u, y)' = Kept(u, y) BY <2>2, <2>5
      <3> HIDE DEF OK
      <3> QED BY <1>0, <2>1, <2>3, <3>1, <3>2
    <2> QED BY <2>4, <2>5
  <1>5. CASE Distributes(t)
    <2>1. PICK v \in Clocks, h \in BOOLEAN : Distribute(t, v, h) BY <1>5, DistributeRest
    <2>9. PICK e \in Events : Makes(e, t, v) /\ e.to = Detectors /\ event' = [event EXCEPT ![t] = e]
      BY <2>1, CreateBroadcast
    <2>2. /\ e # NoEvent /\ e.thd = t /\ e.num = count[t] + 1 /\ e.to = Detectors
          /\ issued' = issued \cup {e} /\ count' = [count EXCEPT ![t] = count[t] + 1]
          /\ event' = [event EXCEPT ![t] = e]
      BY <2>9 DEF Makes
    <2>3. \A d \in Detectors : Kept(u, d)' = Kept(u, d) BY <1>5, KeptSame
    <2>4. out[t] = NoEvent /\ out' = out BY <1>5, DistributeForm
    <2>5. CASE u = t
      <3>1. event'[t] = e /\ count'[t] = count[t] + 1 /\ count[t] \in Nat
        BY <2>2 DEF Types, Clocks
      <3>2. \A d \in Detectors : \A f \in Kept(t, d) : f.num < e.num
        <4>1. \A f \in issued : f.num \in Nat BY DEF Types, Events
        <4>2. \A d \in Detectors : \A f \in Kept(t, d) : f \in issued /\ f.num <= count[t] BY KeptOld
        <4> QED BY <2>2, <3>1, <4>1, <4>2
      <3>3. IsBroadcast(event[t], t)' BY <2>2, <3>1 DEF IsBroadcast
      <3> QED BY <2>2, <2>3, <2>4, <2>5, <3>1, <3>2, <3>3
    <2>6. CASE u # t
      <3>1. event'[u] = event[u] /\ count'[u] = count[u] BY <2>2, <2>6 DEF Types, Clocks
      <3> HIDE DEF OK
      <3> QED BY <1>0, <2>2, <2>3, <2>4, <3>1
    <2> QED BY <2>5, <2>6
  <1>6. CASE Moves(t)
    <2>1. UNCHANGED <<event, out, count, issued>>
      BY <1>6 DEF Moves, ThreadStart, CreateBuffers, CallOriginal, FreeEventBuffer
    <2>2. \A d \in Detectors : Kept(u, d)' = Kept(u, d) BY <1>6, KeptSame
    <2> HIDE DEF OK
    <2> QED BY <1>0, <2>1, <2>2
  <1> HIDE DEF OK
  <1> QED BY <1>1, <1>2, <1>3, <1>4, <1>5, <1>6 DEF ThreadNext, Send, Distributes, Moves

\* A thread that sends one of the first events is the first thread.
LEMMA OutsideRoot ==
  ASSUME Types, PlaceInv, PreInv, NEW t \in Threads, event[t] # NoEvent,
         NEW u \in Threads, out[u] \notin {NoEvent, event[u]}
  PROVE  u = t /\ t = Root
  <1>1. pc[t] # "unborn" /\ pc[u] # "unborn" BY DEF PlaceInv, SendingPC
  <1>2. PreLeft BY DEF PreLeft
  <1> QED BY <1>1, <1>2, PreRoot

LEMMA PreStep ==
  ASSUME Types, Types', PlaceInv, StartInv, RingInv, CountInv, QuietInv, EventInv, PreInv,
         NEW t \in Threads, ThreadNext(t)
  PROVE  PreInv'
  <1>0. Root \in Threads BY DispatchAssumption
  \* a step that sends nothing and makes no event
  <1>1. ASSUME UNCHANGED <<event, out, preEvents>>, issued \subseteq issued',
               PreLeft => /\ \A u \in Threads \ {Root} : pc'[u] = "unborn"
                          /\ \/ pc'[Root] \in {"loading", "announced", "starting"}
                             \/ pc'[Root] = "ready" /\ event[Root] # NoEvent
                          /\ \A d \in Detectors : Kept(Root, d)' = {}
        PROVE  PreInv'
    <2>1. PreLeft' <=> PreLeft BY <1>1 DEF PreLeft
    <2>2. \A e, u : IsBroadcast(e, u) => IsBroadcast(e, u)' BY <1>1 DEF IsBroadcast
    <2> QED BY <1>1, <2>1, <2>2 DEF PreInv
  <1>2. CASE FlushBuffer(t)
    <2>1. UNCHANGED <<pc, event, out, preEvents, issued>> BY <1>2, FlushForm
    <2>2. \A u \in Threads, d \in Detectors : Kept(u, d)' \subseteq Kept(u, d)
      BY <1>2, KeptFlush
    <2> QED BY <1>0, <1>1, <2>1, <2>2 DEF PreInv
  <1>3. CASE KeepEvent(t)
    <2>1. /\ event[t] # NoEvent /\ out[t] = NoEvent /\ registered = {} /\ Finished(t)
          /\ preEvents' = Append(preEvents, event[t]) /\ UNCHANGED <<pc, issued>>
          /\ Unflushed(t) = {}
      BY <1>3 DEF KeepEvent
    <2>2. locked # Detectors BY <2>1, Constants DEF StartInv
    <2>3. t = Root /\ \A u \in Threads \ {Root} : pc[u] = "unborn"
      BY <2>1, <2>2 DEF PlaceInv, SendingPC, StartInv
    <2>4. pc[Root] \in {"loading", "announced", "starting"} BY <1>0, <2>2 DEF StartInv
    <2>5. \A u \in Threads : out'[u] = NoEvent
      BY <2>1, <2>2 DEF StartInv, Finished, Types
    <2>6. event'[Root] = NoEvent BY <1>0, <2>1, <2>3 DEF Finished, Types
    <2>7. \A d \in Detectors : Kept(Root, d) = {}
      <3> SUFFICES ASSUME NEW d \in Detectors, HasBuffers(Root)
                   PROVE Range(Popped(buffer[Root][d])) = {}
        BY DEF KeptIn, HasBuffers
      <3>1. buffer[Root][d] \in Rings BY <1>0 DEF HasBuffers, Types
      <3>2. Empty(buffer[Root][d]) BY <2>1, <2>3 DEF Unflushed
      <3> QED BY <3>1, <3>2, PoppedProps
    <2>8. \A d \in Detectors : Kept(Root, d)' = {} BY <1>0, <1>3, <2>7, KeptSame
    <2>9. IsBroadcast(event[t], Root) BY <2>1, <2>3 DEF EventInv
    <2>10. /\ preEvents \in Seq(Events) /\ Len(preEvents') = Len(preEvents) + 1
           /\ \A i \in 1..Len(preEvents) : preEvents'[i] = preEvents[i]
           /\ preEvents'[Len(preEvents) + 1] = event[t]
           /\ Len(preEvents) \in Nat
      BY <2>1 DEF Types
    <2>11. \A i \in 1..Len(preEvents) : preEvents[i].num < event[t].num
      BY <2>1, <2>3 DEF PreInv
    <2>12. \A i \in 1..Len(preEvents') : IsBroadcast(preEvents[i], Root)'
      <3>1. \A i \in 1..Len(preEvents') : IsBroadcast(preEvents'[i], Root)
        BY <2>9, <2>10 DEF PreInv
      <3> QED BY <2>1, <3>1 DEF IsBroadcast
    <2>13. \A i, j \in 1..Len(preEvents') : i < j => preEvents'[i].num < preEvents'[j].num
      <3> SUFFICES ASSUME NEW i \in 1..(Len(preEvents) + 1), NEW j \in 1..(Len(preEvents) + 1), i < j
                   PROVE  preEvents'[i].num < preEvents'[j].num
        BY <2>10
      <3>1. i \in 1..Len(preEvents) BY <2>10
      <3>2. CASE j \in 1..Len(preEvents) BY <2>10, <3>1, <3>2 DEF PreInv
      <3>3. CASE j = Len(preEvents) + 1 BY <2>10, <2>11, <3>1, <3>3
      <3> QED BY <2>10, <3>2, <3>3
    <2> QED BY <2>1, <2>3, <2>4, <2>5, <2>6, <2>8, <2>12, <2>13 DEF PreInv
  <1>4. CASE PushEvent(t)
    <2> DEFINE e == ToSend(t)
    <2>1. /\ event[t] # NoEvent
          /\ preEvents' = IF out[t] = NoEvent /\ preEvents # <<>> THEN Tail(preEvents) ELSE preEvents
          /\ \/ event' = event /\ out' = [out EXCEPT ![t] = e]
             \/ e = event[t] /\ Finished(t)
             \/ e # event[t] /\ event' = event /\ out' = [out EXCEPT ![t] = NoEvent]
          /\ UNCHANGED <<pc, issued>>
      BY <1>4, PushForm
    <2>2. /\ IsBroadcast(e, t) /\ e # NoEvent
          /\ \/ out[t] # NoEvent /\ e = out[t]
             \/ /\ out[t] = NoEvent /\ preEvents # <<>> /\ t = Root /\ e = Head(preEvents)
                /\ e.num < event[t].num
                /\ \A i \in 1..Len(Tail(preEvents)) : e.num < Tail(preEvents)[i].num
             \/ out[t] = NoEvent /\ preEvents = <<>> /\ e = event[t]
      BY <2>1, ToSendForm
    <2> HIDE DEF e
    <2>3. \A d \in Detectors : Kept(Root, d)' = Kept(Root, d) BY <1>0, <1>4, KeptSame
    <2>4. /\ preEvents \in Seq(Events)
          /\ preEvents # <<>> => \A i \in 1..Len(Tail(preEvents)) :
               i + 1 \in 1..Len(preEvents) /\ Tail(preEvents)[i] = preEvents[i + 1]
      BY DEF Types
    <2>5. \A i \in 1..Len(preEvents') : IsBroadcast(preEvents[i], Root)'
      <3>1. \A i \in 1..Len(preEvents') : IsBroadcast(preEvents'[i], Root)
        BY <2>1, <2>4 DEF PreInv
      <3> QED BY <2>1, <3>1 DEF IsBroadcast
    <2>6. \A i, j \in 1..Len(preEvents') : i < j => preEvents'[i].num < preEvents'[j].num
      BY <2>1, <2>4 DEF PreInv
    <2>7. \A u \in Threads \ {t} : event'[u] = event[u] /\ out'[u] = out[u]
      BY <2>1 DEF Finished, Types
    <2>8. event'[t] \in {event[t], NoEvent} BY <2>1 DEF Finished, Types
    <2>9. \A i \in 1..Len(preEvents') : event'[Root] # NoEvent => preEvents'[i].num < event'[Root].num
      <3>1. event'[Root] # NoEvent => event'[Root] = event[Root] BY <1>0, <2>7, <2>8
      <3> QED BY <2>1, <2>4, <3>1 DEF PreInv
    <2>10. PreLeft' => PreLeft
      <3>1. preEvents' # <<>> => preEvents # <<>> BY <2>1
      <3>2. ASSUME NEW u \in Threads, out'[u] \notin {NoEvent, event'[u]} PROVE PreLeft
        <4>1. CASE u # t BY <2>7, <3>2, <4>1 DEF PreLeft
        <4>2. CASE u = t
          <5>1. out'[t] = e /\ event' = event /\ e # event[t]
            BY <2>1, <3>2, <4>2 DEF Finished, Types
          <5> QED BY <2>2, <5>1 DEF PreLeft
        <4> QED BY <4>1, <4>2
      <3> QED BY <3>1, <3>2 DEF PreLeft
    <2>11. PreLeft => event'[t] = event[t]
      <3>1. CASE e = event[t]
        <4>1. preEvents = <<>>
          <5>1. event[t] \in Events /\ event[t].num \in Nat BY <2>1 DEF Types, Events
          <5>2. ~(e.num < event[t].num) BY <3>1, <5>1
          <5>3. CASE out[t] # NoEvent BY <2>2, <3>1, <5>2, <5>3 DEF PreInv
          <5>4. CASE out[t] = NoEvent BY <2>2, <5>2, <5>4
          <5> QED BY <5>3, <5>4
        <4>2. out[t] \in {NoEvent, event[t]} BY <2>2, <3>1
        <4>3. ~PreLeft
          <5> SUFFICES ASSUME NEW u \in Threads, out[u] \notin {NoEvent, event[u]} PROVE FALSE
            BY <4>1 DEF PreLeft
          <5> QED BY <2>1, <4>2, OutsideRoot
        <4> QED BY <4>3
      <3>2. CASE e # event[t] BY <2>1, <3>2
      <3> QED BY <3>1, <3>2
    <2>12. ASSUME NEW u \in Threads, out'[u] \notin {NoEvent, event'[u]}
           PROVE  /\ u = Root /\ out'[u].num < event'[u].num
                  /\ \A i \in 1..Len(preEvents') : out'[u].num < preEvents'[i].num
      <3>1. CASE u # t BY <2>1, <2>7, <2>12, <3>1, OutsideRoot
      <3>2. CASE u = t
        <4>1. out'[t] = e /\ event' = event /\ e # event[t]
          BY <2>1, <2>12, <3>2 DEF Finished, Types
        <4>2. CASE out[t] # NoEvent
          <5>1. out[t] = e /\ preEvents' = preEvents BY <2>1, <2>2, <4>2
          <5> QED BY <3>2, <4>1, <4>2, <5>1 DEF PreInv
        <4>3. CASE out[t] = NoEvent
          <5>1. preEvents # <<>> /\ preEvents' = Tail(preEvents) BY <2>1, <2>2, <4>1, <4>3
          <5> QED BY <2>2, <3>2, <4>1, <4>3, <5>1
        <4> QED BY <4>2, <4>3
      <3> QED BY <3>1, <3>2
    <2>13. ASSUME NEW u \in Threads, out'[u] # NoEvent, out'[u] = event'[u]
           PROVE  preEvents' = <<>>
      <3>1. CASE u # t
        <4>1. preEvents = <<>> BY <2>7, <2>13, <3>1 DEF PreInv
        <4> QED BY <2>1, <4>1
      <3>2. CASE u = t
        <4>1. out'[t] = e /\ event' = event /\ e = event[t]
          BY <2>1, <2>13, <3>2 DEF Finished, Types
        <4>2. CASE out[t] # NoEvent
          <5>1. preEvents = <<>> BY <2>2, <4>1, <4>2 DEF PreInv
          <5> QED BY <2>1, <4>2, <5>1
        <4>3. CASE out[t] = NoEvent
          <5>1. ~(e.num < event[t].num)
            <6>1. event[t] \in Events BY <2>1 DEF Types
            <6>2. event[t].num \in Nat BY <6>1 DEF Events
            <6> QED BY <4>1, <6>2
          <5>2. preEvents = <<>> BY <2>2, <4>3, <5>1
          <5> QED BY <2>1, <5>2
        <4> QED BY <4>2, <4>3
      <3> QED BY <3>1, <3>2
    <2>14. PreLeft' => /\ \A u \in Threads \ {Root} : pc'[u] = "unborn"
                       /\ \/ pc'[Root] \in {"loading", "announced", "starting"}
                          \/ pc'[Root] = "ready" /\ event'[Root] # NoEvent
                       /\ \A d \in Detectors : Kept(Root, d)' = {}
      <3> SUFFICES ASSUME PreLeft
                   PROVE  /\ \A u \in Threads \ {Root} : pc'[u] = "unborn"
                          /\ \/ pc'[Root] \in {"loading", "announced", "starting"}
                             \/ pc'[Root] = "ready" /\ event'[Root] # NoEvent
                          /\ \A d \in Detectors : Kept(Root, d)' = {}
        BY <2>10
      <3>1. event'[Root] = event[Root] BY <1>0, <2>7, <2>11
      <3> QED BY <2>1, <2>3, <3>1 DEF PreInv
    <2> QED BY <2>5, <2>6, <2>9, <2>12, <2>13, <2>14 DEF PreInv
  <1>5. CASE \E u \in Units : Access(t, u)
    <2>0. PICK u \in Units : Access(t, u) BY <1>5
    <2>1. UNCHANGED <<threadVars, preEvents>> /\ pc[t] = "ready" /\ event[t] = NoEvent
      BY <2>0, AccessForm
    <2>2. ~PreLeft BY <2>1, PreRoot
    <2>3. issued \subseteq issued'
      <3>1. PICK d \in Detectors, e \in Events : Makes(e, t, past[t]) BY <2>0, AccessForm
      <3> QED BY <3>1 DEF Makes
    <2> QED BY <1>1, <2>1, <2>2, <2>3
  <1>6. CASE Distributes(t)
    <2>1. PICK v \in Clocks, h \in BOOLEAN : Distribute(t, v, h) BY <1>6, DistributeRest
    <2>2. PICK p \in SendingPC : /\ pc' = [pc EXCEPT ![t] = p]
                                 /\ p = "loading" <=> pc[t] = "loading"
                                 /\ pc[t] = "starting" => p = "ready"
      BY <1>6, DistributeRest
    <2>3. PICK e \in Events : Makes(e, t, v) /\ event' = [event EXCEPT ![t] = e]
      BY <2>1, CreateBroadcast
    <2>5. event[t] = NoEvent /\ out[t] = NoEvent /\ UNCHANGED <<out, preEvents>>
      BY <1>6, DistributeForm
    <2>6. pc[t] \in {"loading", "starting", "ready", "inside", "returning"} BY <1>6, DistributeRest
    <2>7. e # NoEvent /\ e.num = count[t] + 1 /\ issued' = issued \cup {e}
      BY <2>3 DEF Makes
    <2>8. /\ event'[t] = e /\ \A u \in Threads \ {t} : event'[u] = event[u]
          /\ pc'[t] = p /\ \A u \in Threads \ {t} : pc'[u] = pc[u]
      BY <2>2, <2>3 DEF Types
    <2>9. \A u \in Threads : out[u] \notin {NoEvent, event'[u]} <=> out[u] \notin {NoEvent, event[u]}
      BY <2>5, <2>8
    <2>10. PreLeft' <=> PreLeft BY <2>5, <2>9 DEF PreLeft
    <2>11. PreLeft => t = Root /\ pc[t] \in {"loading", "starting"}
      BY <2>5, <2>6, PreRoot
    <2>12. \A d \in Detectors : Kept(Root, d)' = Kept(Root, d) BY <1>0, <1>6, KeptSame
    <2>13. \A f, u : IsBroadcast(f, u) => IsBroadcast(f, u)' BY <2>7 DEF IsBroadcast
    <2>14. \A i \in 1..Len(preEvents) : t = Root => preEvents[i].num < e.num
      <3>1. \A i \in 1..Len(preEvents) : preEvents[i] \in issued /\ preEvents[i].thd = Root
        BY DEF PreInv, IsBroadcast
      <3>2. \A f \in issued : f.num \in Nat /\ f.num <= count[f.thd]
        BY DEF Types, Events, CountInv
      <3>3. count[t] \in Nat BY DEF Types, Clocks
      <3> QED BY <2>7, <3>1, <3>2, <3>3
    <2>15. \A i \in 1..Len(preEvents) : event'[Root] # NoEvent => preEvents[i].num < event'[Root].num
      BY <1>0, <2>8, <2>14 DEF PreInv
    <2>16. ASSUME NEW u \in Threads, out[u] \notin {NoEvent, event'[u]}
           PROVE  /\ u = Root /\ out[u].num < event'[u].num
                  /\ \A i \in 1..Len(preEvents) : out[u].num < preEvents[i].num
      BY <2>5, <2>8, <2>16 DEF PreInv
    <2>17. ASSUME NEW u \in Threads, out[u] # NoEvent, out[u] = event'[u] PROVE preEvents = <<>>
      BY <2>5, <2>8, <2>17 DEF PreInv
    <2>18. PreLeft => /\ \A u \in Threads \ {Root} : pc'[u] = "unborn"
                      /\ \/ pc'[Root] \in {"loading", "announced", "starting"}
                         \/ pc'[Root] = "ready" /\ event'[Root] # NoEvent
                      /\ \A d \in Detectors : Kept(Root, d)' = {}
      BY <1>0, <2>2, <2>7, <2>8, <2>11, <2>12 DEF PreInv
    <2> QED BY <2>5, <2>10, <2>13, <2>15, <2>16, <2>17, <2>18 DEF PreInv
  <1>7. CASE Moves(t)
    <2>1. UNCHANGED <<event, out, preEvents, issued>>
      BY <1>7 DEF Moves, ThreadStart, CreateBuffers, CallOriginal, FreeEventBuffer
    <2>2. \A u \in Threads, d \in Detectors : Kept(u, d)' = Kept(u, d) BY <1>7, KeptSame
    <2>3. pc[t] # "unborn"
      BY <1>7 DEF Moves, ThreadStart, CreateBuffers, CallOriginal, FreeEventBuffer
    <2>4. PreLeft => t = Root /\ pc[t] \in {"loading", "announced", "starting", "ready"}
      BY <2>3, PreRoot
    <2>5. pc[t] \in {"loading", "announced", "starting", "ready"} =>
            \E p \in {"announced", "starting"} : pc' = [pc EXCEPT ![t] = p]
      BY <1>7 DEF Moves, ThreadStart, CreateBuffers, CallOriginal, FreeEventBuffer
    <2>6. PreLeft => /\ \A u \in Threads \ {Root} : pc'[u] = "unborn"
                     /\ pc'[Root] \in {"announced", "starting"}
      BY <1>0, <2>4, <2>5 DEF PreInv, Types
    <2> QED BY <1>0, <1>1, <2>1, <2>2, <2>6 DEF PreInv
  <1> QED BY <1>2, <1>3, <1>4, <1>5, <1>6, <1>7 DEF ThreadNext, Send, Distributes, Moves
-----------------------------------------------------------------------------
(* What a step does to the events. *)

\* t makes the events N and sends the events P, the first it has for d, to d.
Effect(t, N, d, P) ==
  /\ issued' = issued \cup N /\ handled' = handled
  /\ deq' = [deq EXCEPT ![d] = @ \o P]
  /\ \A e \in N : /\ e.thd = t /\ e.num = count[t] + 1 /\ e.to \subseteq Detectors
                  /\ e.to = Detectors \/ Single(e)
  /\ \A e, f \in N : e = f
  /\ \A u \in Threads \ {t}, x \in Detectors : Yet(u, x)' = Yet(u, x)
  /\ \A x \in Detectors :
       Yet(t, x)' = (Yet(t, x) \ (IF x = d THEN Range(P) ELSE {})) \cup {e \in N : x \in e.to}
  /\ Range(P) \subseteq Yet(t, d)
  /\ \A i, j \in 1..Len(P) : i < j => P[i].num < P[j].num
  /\ \A e \in Range(P) : \A f \in Yet(t, d) \ Range(P) : e.num < f.num

\* What a thread has to send to d is its own, and for d.
LEMMA YetProps ==
  ASSUME Types, RingInv, CountInv, EventInv, PreInv, NEW t \in Threads, NEW d \in Detectors,
         NEW e \in Yet(t, d)
  PROVE  e \in issued /\ e.thd = t /\ d \in e.to
  <1>1. CASE e \in Kept(t, d) BY <1>1, KeptOld
  <1>2. CASE e \in {event[t], out[t]} /\ e # NoEvent BY <1>2 DEF EventInv, IsBroadcast
  <1>3. CASE e \in Range(preEvents) /\ t = Root
    <2>1. PICK i \in 1..Len(preEvents) : e = preEvents[i] BY <1>3 DEF Range, Types
    <2> QED BY <1>3, <2>1 DEF PreInv, IsBroadcast
  <1> QED BY <1>1, <1>2, <1>3 DEF Yet, YetIn

\* Steps that leave the queues.
LEMMA NoPush ==
  ASSUME Types, NEW t \in Threads, NEW N, UNCHANGED <<deq, handled>>, issued' = issued \cup N,
         \A e \in N : /\ e.thd = t /\ e.num = count[t] + 1 /\ e.to \subseteq Detectors
                      /\ e.to = Detectors \/ Single(e),
         \A e, f \in N : e = f,
         \A u \in Threads \ {t}, x \in Detectors : Yet(u, x)' = Yet(u, x),
         \A x \in Detectors : Yet(t, x)' = Yet(t, x) \cup {e \in N : x \in e.to}
  PROVE  \E d \in Detectors, P \in Seq(Events) : Effect(t, N, d, P)
  <1>1. <<>> \in Seq(Events) /\ Range(<<>>) = {} /\ 1..Len(<<>>) = {} BY DEF Range
  <1>2. deq' = [deq EXCEPT ![1] = @ \o <<>>] BY Constants DEF Types
  <1>3. Effect(t, N, 1, <<>>) BY <1>1, <1>2 DEF Effect
  <1> QED BY <1>1, <1>3, Constants

LEMMA FlushEffect ==
  ASSUME Types, PlaceInv, RingInv, CountInv, EventInv, PreInv, NEW t \in Threads, FlushBuffer(t)
  PROVE  \E d \in Detectors, P \in Seq(Events) : Effect(t, {}, d, P)
  <1>1. PICK d \in Detectors, P \in Seq(Events) :
          /\ RingOK(buffer[t][d], issued, t, d) /\ buffer[t][d] \in Rings
          /\ P = Popped(buffer[t][d]) /\ Range(P) = Kept(t, d) /\ Kept(t, d)' = {}
          /\ \A u \in Threads, x \in Detectors : u # t \/ x # d => Kept(u, x)' = Kept(u, x)
          /\ deq' = [deq EXCEPT ![d] = @ \o P]
    BY KeptFlush
  <1>2. /\ event[t] # NoEvent /\ out[t] = NoEvent /\ UNCHANGED <<event, out, pos, preEvents, issued, handled>>
    BY FlushForm
  <1>3. \A u \in Threads, x \in Detectors : u # t \/ x # d => Yet(u, x)' = Yet(u, x)
    BY <1>1, <1>2 DEF Yet, YetIn
  <1>4. Kept(t, d) # {} => ~(t = Root /\ preEvents # <<>>)
    BY DEF PreInv, PreLeft
  <1>5. \A e \in Kept(t, d) : e.num < event[t].num BY <1>2 DEF EventInv
  <1>6. event[t] \notin Kept(t, d)
    <2>1. event[t].num \in Nat BY <1>2 DEF Types, Events
    <2> QED BY <1>5, <2>1
  <1>7. Kept(t, d) # {} => Yet(t, d) = Kept(t, d) \cup {event[t]}
    BY <1>2, <1>4 DEF Yet, YetIn, Range
  <1>8. Yet(t, d)' = Yet(t, d) \ Range(P)
    <2>1. Yet(t, d) = Kept(t, d) \cup Yet(t, d)' BY <1>1, <1>2 DEF Yet, YetIn
    <2>2. Yet(t, d)' \cap Kept(t, d) = {}
      <3>1. CASE Kept(t, d) = {} BY <3>1
      <3>2. CASE Kept(t, d) # {}
        <4>1. Yet(t, d)' = {event[t]} BY <1>1, <1>2, <1>4, <3>2 DEF Yet, YetIn, Range
        <4> QED BY <1>6, <4>1
      <3> QED BY <3>1, <3>2
    <2> QED BY <1>1, <2>1, <2>2
  <1>9. \A i, j \in 1..Len(P) : i < j => P[i].num < P[j].num
    BY <1>1, PoppedProps DEF RingOK
  <1>10. \A e \in Range(P) : \A f \in Yet(t, d) \ Range(P) : e.num < f.num
    BY <1>1, <1>5, <1>7
  <1>11. Range(P) \subseteq Yet(t, d) BY <1>1 DEF Yet, YetIn
  <1>12. \A x \in Detectors : Yet(t, x)' =
           (Yet(t, x) \ (IF x = d THEN Range(P) ELSE {})) \cup {e \in {} : x \in e.to}
    <2> SUFFICES ASSUME NEW x \in Detectors
                 PROVE  Yet(t, x)' = Yet(t, x) \ (IF x = d THEN Range(P) ELSE {})
      OBVIOUS
    <2> QED BY <1>3, <1>8
  <1>13. issued' = issued \cup {} /\ handled' = handled BY <1>2
  <1>14. \A u \in Threads \ {t}, x \in Detectors : Yet(u, x)' = Yet(u, x) BY <1>3
  <1>15. Effect(t, {}, d, P)
    BY <1>1, <1>9, <1>10, <1>11, <1>12, <1>13, <1>14 DEF Effect
  <1> QED BY <1>15

LEMMA AccessEffect ==
  ASSUME Types, PlaceInv, RingInv, CountInv, EventInv, PreInv, NEW t \in Threads, NEW u \in Units,
         Access(t, u)
  PROVE  \E d \in Detectors, e \in Events, P \in Seq(Events) :
           Makes(e, t, past[t]) /\ IsFor(e, t, d) /\ Effect(t, {e}, d, P)
  <1>1. PICK d \in Detectors, e \in Events, P \in Seq(Events) :
          /\ Makes(e, t, past[t]) /\ IsFor(e, t, d) /\ Takes(t, d, e, P)
          /\ \A w \in Threads, x \in Detectors : w # t \/ x # d => Kept(w, x)' = Kept(w, x)
          /\ deq' = [deq EXCEPT ![d] = @ \o P]
    BY KeptAccess
  <1>2. /\ event[t] = NoEvent /\ out[t] = NoEvent /\ pc[t] = "ready"
        /\ UNCHANGED <<event, out, pos, preEvents, handled>>
    BY AccessForm
  <1>4. e.thd = t /\ e.num = count[t] + 1 /\ e.to = {d} /\ issued' = issued \cup {e}
    BY <1>1 DEF Makes, IsFor
  <1>5. \A w \in Threads, x \in Detectors : w # t \/ x # d => Yet(w, x)' = Yet(w, x)
    BY <1>1, <1>2 DEF Yet, YetIn
  <1>6. preEvents = <<>> BY <1>2, PreRoot DEF PreLeft
  <1>7. /\ Yet(t, d) = Kept(t, d) /\ Yet(t, d)' = Kept(t, d)'
    BY <1>2, <1>6 DEF Yet, YetIn, Range
  <1>8. e \notin Kept(t, d)
    <2>1. count[t] \in Nat BY DEF Types, Clocks
    <2>2. ~(e.num <= count[t]) BY <1>4, <2>1
    <2> QED BY <2>2, KeptOld
  <1>9. \/ Range(P) = Kept(t, d) /\ Kept(t, d)' = {e}
        \/ Range(P) = {} /\ Kept(t, d)' = Kept(t, d) \cup {e}
    BY <1>1 DEF Range, Takes
  <1>10. \A x \in Detectors :
           Yet(t, x)' = (Yet(t, x) \ (IF x = d THEN Range(P) ELSE {})) \cup {f \in {e} : x \in f.to}
    <2> SUFFICES ASSUME NEW x \in Detectors
                 PROVE  Yet(t, x)' = (Yet(t, x) \ (IF x = d THEN Range(P) ELSE {}))
                                        \cup {f \in {e} : x \in f.to}
      OBVIOUS
    <2>1. CASE x = d
      <3>1. {f \in {e} : x \in f.to} = {e} BY <1>4, <2>1
      <3> QED BY <1>7, <1>9, <2>1, <3>1
    <2>2. CASE x # d
      <3>1. {f \in {e} : x \in f.to} = {} BY <1>4, <2>2
      <3> QED BY <1>5, <2>2, <3>1
    <2> QED BY <2>1, <2>2
  <1>11. \A i, j \in 1..Len(P) : i < j => P[i].num < P[j].num
    BY <1>1, PoppedProps DEF RingOK, Takes
  <1>12. Range(P) \subseteq Yet(t, d)
         /\ \A g \in Range(P) : \A f \in Yet(t, d) \ Range(P) : g.num < f.num
    BY <1>7, <1>9
  <1>13. Single(e) BY <1>4 DEF Single
  <1>14. Effect(t, {e}, d, P)
    BY <1>1, <1>2, <1>4, <1>5, <1>10, <1>11, <1>12, <1>13 DEF Effect
  <1> QED BY <1>1, <1>14

LEMMA DistributeEffect ==
  ASSUME Types, PlaceInv, StartInv, RingInv, CountInv, QuietInv, EventInv, PreInv, NEW t \in Threads,
         Distributes(t), NEW v \in Clocks, NEW e, Makes(e, t, v), e.to = Detectors,
         event' = [event EXCEPT ![t] = e]
  PROVE  \E d \in Detectors, P \in Seq(Events) : Effect(t, {e}, d, P)
  <1>1. event' = [event EXCEPT ![t] = e] OBVIOUS
  <1>3. e # NoEvent /\ e.thd = t /\ e.num = count[t] + 1 /\ e.to = Detectors /\ issued' = issued \cup {e}
    BY DEF Makes
  <1>4. /\ event[t] = NoEvent /\ out[t] = NoEvent /\ UNCHANGED <<out, pos, preEvents, deq, handled>>
    BY DistributeForm
  <1>5. \A u \in Threads, x \in Detectors : Kept(u, x)' = Kept(u, x) BY KeptSame
  <1>6. event'[t] = e /\ \A u \in Threads \ {t} : event'[u] = event[u] BY <1>1 DEF Types
  <1>7. \A u \in Threads \ {t}, x \in Detectors : Yet(u, x)' = Yet(u, x)
    BY <1>4, <1>5, <1>6 DEF Yet, YetIn
  <1>8. \A x \in Detectors : Yet(t, x)' = Yet(t, x) \cup {f \in {e} : x \in f.to}
    <2> SUFFICES ASSUME NEW x \in Detectors
                 PROVE  Yet(t, x)' = Yet(t, x) \cup {e}
      BY <1>3
    <2>1. {f \in {e} : f # NoEvent /\ (out'[t] = f => pos'[t] < x)} = {e} BY <1>3, <1>4
    <2>2. {f \in {event[t]} : f # NoEvent /\ (out[t] = f => pos[t] < x)} = {} BY <1>4
    <2> QED BY <1>4, <1>5, <1>6, <2>1, <2>2 DEF Yet, YetIn
  <1> QED BY <1>3, <1>4, <1>7, <1>8, NoPush

LEMMA KeepEffect ==
  ASSUME Types, PlaceInv, StartInv, RingInv, CountInv, QuietInv, EventInv, PreInv, NEW t \in Threads,
         KeepEvent(t) \/ Moves(t)
  PROVE  \E d \in Detectors, P \in Seq(Events) : Effect(t, {}, d, P)
  <1>1. UNCHANGED <<issued, deq, handled>>
    BY DEF KeepEvent, Moves, ThreadStart, CreateBuffers, CallOriginal, FreeEventBuffer
  <1>2. \A u \in Threads, x \in Detectors : Kept(u, x)' = Kept(u, x) BY KeptSame
  <1>3. \A u \in Threads, x \in Detectors : Yet(u, x)' = Yet(u, x)
    <2>1. CASE Moves(t)
      <3>1. UNCHANGED <<event, out, pos, preEvents>>
        BY <2>1 DEF Moves, ThreadStart, CreateBuffers, CallOriginal, FreeEventBuffer
      <3> QED BY <1>2, <3>1 DEF Yet, YetIn
    <2>2. CASE KeepEvent(t)
      <3>1. /\ event[t] # NoEvent /\ out[t] = NoEvent /\ registered = {} /\ Finished(t)
            /\ preEvents' = Append(preEvents, event[t])
        BY <2>2 DEF KeepEvent
      <3>2. locked # Detectors BY <3>1, Constants DEF StartInv
      <3>3. t = Root BY <3>1, <3>2 DEF PlaceInv, SendingPC, StartInv
      <3>4. /\ event'[t] = NoEvent /\ out'[t] = NoEvent
            /\ \A u \in Threads \ {t} : event'[u] = event[u] /\ out'[u] = out[u] /\ pos'[u] = pos[u]
        BY <3>1 DEF Finished, Types
      <3>5. Range(preEvents') = Range(preEvents) \cup {event[t]}
        <4>1. /\ preEvents \in Seq(Events) /\ Len(preEvents') = Len(preEvents) + 1 /\ Len(preEvents) \in Nat
              /\ \A i \in 1..Len(preEvents) : preEvents'[i] = preEvents[i]
              /\ preEvents'[Len(preEvents) + 1] = event[t]
              /\ event[t] \in Events
          BY <3>1 DEF Types
        <4>2. preEvents' \in Seq(Events) BY <3>1, <4>1
        <4>3. /\ Range(preEvents') = {preEvents'[i] : i \in 1..Len(preEvents')}
              /\ Range(preEvents) = {preEvents[i] : i \in 1..Len(preEvents)}
          BY <4>1, <4>2 DEF Range
        <4>4. 1..(Len(preEvents) + 1) = 1..Len(preEvents) \cup {Len(preEvents) + 1} BY <4>1
        <4> HIDE DEF Finished
        <4> QED BY <4>1, <4>3, <4>4
      <3>6. ASSUME NEW u \in Threads, NEW x \in Detectors, u # t PROVE Yet(u, x)' = Yet(u, x)
        BY <1>2, <3>3, <3>4, <3>6 DEF Yet, YetIn
      <3>7. ASSUME NEW x \in Detectors PROVE Yet(t, x)' = Yet(t, x)
        <4>1. Yet(t, x)' = Kept(t, x) \cup Range(preEvents')
          BY <1>2, <3>3, <3>4 DEF Yet, YetIn
        <4>2. Yet(t, x) = Kept(t, x) \cup {event[t]} \cup Range(preEvents)
          BY <3>1, <3>3 DEF Yet, YetIn
        <4> QED BY <3>5, <4>1, <4>2
      <3> QED BY <3>6, <3>7
    <2> QED BY <2>1, <2>2
  <1>4. \A x \in Detectors : Yet(t, x)' = Yet(t, x) \cup {e \in {} : x \in e.to} BY <1>3
  <1>5. issued' = issued \cup {} BY <1>1
  <1> QED BY <1>1, <1>3, <1>4, <1>5, NoPush
\* A push sends the first event there is, to the detector that is next.
LEMMA PushEffect ==
  ASSUME Types, PlaceInv, StartInv, RingInv, CountInv, QuietInv, EventInv, PreInv, NEW t \in Threads,
         PushEvent(t)
  PROVE  /\ Effect(t, {}, pos[t] + 1, <<ToSend(t)>>)
         /\ pos[t] + 1 \in Detectors /\ <<ToSend(t)>> \in Seq(Events)
  <1> DEFINE e == ToSend(t)
             d == pos[t] + 1
             Rest == ({event[t]} \ {e}) \cup (IF t = Root THEN Range(preEvents') ELSE {})
  <1>1. /\ event[t] # NoEvent /\ d \in Detectors
        /\ deq' = [deq EXCEPT ![d] = Append(@, e)]
        /\ preEvents' = IF out[t] = NoEvent /\ preEvents # <<>> THEN Tail(preEvents) ELSE preEvents
        /\ \/ d < NumDetectors /\ event' = event
              /\ pos' = [pos EXCEPT ![t] = d] /\ out' = [out EXCEPT ![t] = e]
           \/ d = NumDetectors /\ e = event[t] /\ Finished(t)
           \/ d = NumDetectors /\ e # event[t] /\ event' = event
              /\ pos' = [pos EXCEPT ![t] = 0] /\ out' = [out EXCEPT ![t] = NoEvent]
        /\ UNCHANGED <<issued, handled>>
    BY PushForm
  <1>2. /\ IsBroadcast(e, t) /\ e \in Events /\ e # NoEvent
        /\ \/ out[t] # NoEvent /\ e = out[t]
           \/ /\ out[t] = NoEvent /\ preEvents # <<>> /\ t = Root /\ e = Head(preEvents)
              /\ e.num < event[t].num
              /\ \A i \in 1..Len(Tail(preEvents)) : e.num < Tail(preEvents)[i].num
           \/ out[t] = NoEvent /\ preEvents = <<>> /\ e = event[t]
    BY <1>1, ToSendForm
  <1>3. \A x \in Detectors : Kept(t, x) = {} BY PushForm
  <1>4. \A u \in Threads, x \in Detectors : Kept(u, x)' = Kept(u, x) BY KeptSame
  <1>5. pos[t] \in Nat /\ d \in Nat /\ Detectors \subseteq Nat /\ (pos[t] = 0 <=> out[t] = NoEvent)
        /\ NumDetectors \in Nat /\ \A x \in Detectors : x >= 1 /\ x <= NumDetectors
    BY Constants DEF Types, PlaceInv, Detectors
  <1>6. e.num \in Nat BY <1>2 DEF Events
  <1> HIDE DEF e
  <1>7. preEvents \in Seq(Events) /\ preEvents' \in Seq(Events) BY <1>1 DEF Types
  <1>8. \A f \in Rest : e.num < f.num
    <2>1. CASE out[t] # NoEvent
      <3>1. e = out[t] /\ preEvents' = preEvents BY <1>1, <1>2, <2>1
      <3>2. CASE e = event[t]
        <4>1. preEvents = <<>> BY <2>1, <3>1, <3>2 DEF PreInv
        <4> QED BY <3>1, <3>2, <4>1 DEF Range
      <3>3. CASE e # event[t]
        <4>1. /\ e.num < event[t].num /\ \A i \in 1..Len(preEvents) : e.num < preEvents[i].num
          BY <2>1, <3>1, <3>3 DEF PreInv
        <4> QED BY <1>7, <3>1, <4>1 DEF Range
      <3> QED BY <3>2, <3>3
    <2>2. CASE out[t] = NoEvent /\ preEvents # <<>>
      <3>1. preEvents' = Tail(preEvents) /\ e.num < event[t].num
            /\ \A i \in 1..Len(Tail(preEvents)) : e.num < Tail(preEvents)[i].num
        BY <1>1, <1>2, <2>2
      <3> QED BY <1>7, <3>1 DEF Range
    <2>3. CASE out[t] = NoEvent /\ preEvents = <<>>
      <3>1. preEvents' = <<>> /\ e = event[t] BY <1>1, <1>2, <2>3
      <3> QED BY <3>1 DEF Range
    <2> QED BY <2>1, <2>2, <2>3
  <1>9. e \notin Rest BY <1>6, <1>8
  <1>10. \A x \in Detectors : Yet(t, x) = Rest \cup (IF pos[t] < x THEN {e} ELSE {})
    <2> SUFFICES ASSUME NEW x \in Detectors
                 PROVE  Yet(t, x) = Rest \cup (IF pos[t] < x THEN {e} ELSE {})
      OBVIOUS
    <2> DEFINE pre == IF t = Root THEN Range(preEvents) ELSE {}
    <2>0. Yet(t, x) = {f \in {event[t]} : out[t] = f => pos[t] < x}
                         \cup {f \in {out[t]} : f # NoEvent /\ pos[t] < x} \cup pre
      BY <1>1, <1>3 DEF Yet, YetIn
    <2>1. CASE out[t] # NoEvent
      <3>1. e = out[t] /\ preEvents' = preEvents BY <1>1, <1>2, <2>1
      <3>2. CASE e = event[t]
        <4>1. preEvents = <<>> BY <2>1, <3>1, <3>2 DEF PreInv
        <4>2. Rest = {} /\ pre = {} BY <3>1, <3>2, <4>1 DEF Range
        <4> QED BY <2>0, <2>1, <3>1, <3>2, <4>2
      <3>3. CASE e # event[t]
        <4>1. Rest = {event[t]} \cup pre BY <3>1, <3>3
        <4>2. {f \in {event[t]} : out[t] = f => pos[t] < x} = {event[t]} BY <3>1, <3>3
        <4>3. {f \in {out[t]} : f # NoEvent /\ pos[t] < x} = IF pos[t] < x THEN {e} ELSE {}
          BY <2>1, <3>1
        <4> HIDE DEF pre, Rest
        <4> QED BY <2>0, <4>1, <4>2, <4>3
      <3> QED BY <3>2, <3>3
    <2>2. CASE out[t] = NoEvent /\ preEvents # <<>>
      <3>1. t = Root /\ preEvents' = Tail(preEvents) /\ e = Head(preEvents) /\ e.num < event[t].num
        BY <1>1, <1>2, <2>2
      <3>2. pos[t] < x BY <1>5, <2>2
      <3>3. e # event[t] BY <1>6, <3>1
      <3>4. Range(preEvents) = {e} \cup Range(Tail(preEvents))
        <4>1. /\ Len(preEvents) \in Nat \ {0} /\ Len(Tail(preEvents)) = Len(preEvents) - 1
              /\ e = preEvents[1]
              /\ \A i \in 1..(Len(preEvents) - 1) : Tail(preEvents)[i] = preEvents[i + 1]
          BY <1>7, <2>2, <3>1
        <4>2. /\ Range(preEvents) = {preEvents[i] : i \in 1..Len(preEvents)}
              /\ Range(Tail(preEvents)) = {Tail(preEvents)[i] : i \in 1..Len(Tail(preEvents))}
          <5>1. Tail(preEvents) \in Seq(Events) BY <1>7, <2>2
          <5> QED BY <1>7, <5>1, RangeSeq
        <4>3. ASSUME NEW i \in 1..Len(preEvents)
              PROVE  i = 1 \/ \E j \in 1..(Len(preEvents) - 1) : i = j + 1
          <5>1. i = 1 \/ i - 1 \in 1..(Len(preEvents) - 1) BY <4>1
          <5> QED BY <5>1
        <4>4. \A j \in 1..(Len(preEvents) - 1) : j + 1 \in 1..Len(preEvents) BY <4>1
        <4>5. 1 \in 1..Len(preEvents) BY <4>1
        <4> QED BY SMTT(20), <4>1, <4>2, <4>3, <4>4, <4>5
      <3>5. Yet(t, x) = {event[t]} \cup Range(preEvents) BY <1>1, <2>0, <2>2, <3>1
      <3>6. Rest = {event[t]} \cup Range(Tail(preEvents)) BY <3>1, <3>3
      <3> QED BY <3>2, <3>4, <3>5, <3>6
    <2>3. CASE out[t] = NoEvent /\ preEvents = <<>>
      <3>1. preEvents' = <<>> /\ e = event[t] BY <1>1, <1>2, <2>3
      <3>2. Rest = {} /\ pre = {} BY <2>3, <3>1 DEF Range
      <3>3. pos[t] < x BY <1>5, <2>3
      <3> QED BY <1>1, <2>0, <2>3, <3>1, <3>2, <3>3
    <2> QED BY <2>1, <2>2, <2>3
  <1>11. \A x \in Detectors : Yet(t, x)' = Rest \cup (IF d < x THEN {e} ELSE {})
    <2> SUFFICES ASSUME NEW x \in Detectors
                 PROVE  Yet(t, x)' = Rest \cup (IF d < x THEN {e} ELSE {})
      OBVIOUS
    <2> DEFINE pre == IF t = Root THEN Range(preEvents') ELSE {}
    <2>1. Yet(t, x)' = {f \in {event'[t]} : f # NoEvent /\ (out'[t] = f => pos'[t] < x)}
                         \cup {f \in {out'[t]} : f # NoEvent /\ pos'[t] < x} \cup pre
      BY <1>3, <1>4 DEF Yet, YetIn
    <2>2. Rest = ({event[t]} \ {e}) \cup pre OBVIOUS
    <2> HIDE DEF pre, Rest
    <2>3. CASE d < NumDetectors /\ event' = event
               /\ pos' = [pos EXCEPT ![t] = d] /\ out' = [out EXCEPT ![t] = e]
      <3>1. event'[t] = event[t] /\ out'[t] = e /\ pos'[t] = d BY <2>3 DEF Types
      <3> QED BY <1>1, <1>2, <2>1, <2>2, <3>1
    <2>4. CASE d = NumDetectors /\ e = event[t] /\ Finished(t)
      <3>1. event'[t] = NoEvent /\ out'[t] = NoEvent BY <2>4 DEF Types, Finished
      <3>2. ~(d < x) BY <1>5, <2>4
      <3> QED BY <2>1, <2>2, <2>4, <3>1, <3>2
    <2>5. CASE d = NumDetectors /\ e # event[t] /\ event' = event
               /\ pos' = [pos EXCEPT ![t] = 0] /\ out' = [out EXCEPT ![t] = NoEvent]
      <3>1. event'[t] = event[t] /\ out'[t] = NoEvent BY <2>5 DEF Types
      <3>2. ~(d < x) BY <1>5, <2>5
      <3> QED BY <1>1, <2>1, <2>2, <2>5, <3>1, <3>2
    <2> QED BY <1>1, <2>3, <2>4, <2>5
  <1>12. ASSUME NEW u \in Threads \ {t}, NEW x \in Detectors PROVE Yet(u, x)' = Yet(u, x)
    <2>1. event'[u] = event[u] /\ out'[u] = out[u] /\ pos'[u] = pos[u]
      BY <1>1 DEF Finished, Types
    <2>2. u = Root => preEvents' = preEvents BY <1>1, <1>2
    <2> QED BY <1>4, <2>1, <2>2 DEF Yet, YetIn
  <1> HIDE DEF Rest
  <1>13. <<e>> \in Seq(Events) /\ Range(<<e>>) = {e} BY <1>2 DEF Range
  <1>14. deq' = [deq EXCEPT ![d] = @ \o <<e>>]
    <2>1. deq[d] \in Seq(Events) BY <1>1 DEF Types
    <2>2. Append(deq[d], e) = deq[d] \o <<e>> BY <1>2, <2>1
    <2> QED BY <1>1, <2>2
  <1>15. pos[t] < d BY <1>5
  <1>16. Yet(t, d) = Rest \cup {e} BY <1>1, <1>10, <1>15
  <1>17. \A x \in Detectors : Yet(t, x)' = (Yet(t, x) \ (IF x = d THEN {e} ELSE {})) \cup {f \in {} : x \in f.to}
    <2> SUFFICES ASSUME NEW x \in Detectors PROVE Yet(t, x)' = Yet(t, x) \ (IF x = d THEN {e} ELSE {})
      OBVIOUS
    <2>1. CASE x = d
      <3>1. ~(d < x) BY <1>5, <2>1
      <3> QED BY <1>9, <1>11, <1>16, <2>1, <3>1
    <2>2. CASE x # d
      <3>1. d < x <=> pos[t] < x BY <1>5, <2>2
      <3> QED BY <1>10, <1>11, <2>2, <3>1
    <2> QED BY <2>1, <2>2
  <1>18. \A i, j \in 1..Len(<<e>>) : ~(i < j) OBVIOUS
  <1>19. Effect(t, {}, d, <<e>>)
    BY <1>1, <1>8, <1>12, <1>13, <1>14, <1>16, <1>17, <1>18 DEF Effect
  <1> QED BY <1>1, <1>13, <1>19 DEF e
-----------------------------------------------------------------------------
(* Sending keeps the order. *)

LEMMA RangeConcat ==
  ASSUME NEW S, NEW s \in Seq(S), NEW r \in Seq(S)
  PROVE  Range(s \o r) = Range(s) \cup Range(r)
  <1>1. /\ s \o r \in Seq(S) /\ Len(s \o r) = Len(s) + Len(r) /\ Len(s) \in Nat /\ Len(r) \in Nat
        /\ \A i \in 1..Len(s) : (s \o r)[i] = s[i]
        /\ \A i \in 1..Len(r) : (s \o r)[Len(s) + i] = r[i]
    OBVIOUS
  <1>2. /\ Range(s) = {s[i] : i \in 1..Len(s)} /\ Range(r) = {r[i] : i \in 1..Len(r)}
        /\ Range(s \o r) = {(s \o r)[i] : i \in 1..Len(s \o r)}
    BY <1>1, RangeSeq
  <1>3. ASSUME NEW i \in 1..Len(s \o r) PROVE (s \o r)[i] \in Range(s) \cup Range(r)
    <2>1. CASE i \in 1..Len(s) BY <1>1, <1>2, <2>1
    <2>2. CASE i \notin 1..Len(s)
      <3>1. i - Len(s) \in 1..Len(r) /\ Len(s) + (i - Len(s)) = i BY <1>1, <2>2
      <3>2. (s \o r)[i] = r[i - Len(s)] BY <1>1, <3>1
      <3> QED BY <1>2, <3>1, <3>2
    <2> QED BY <2>1, <2>2
  <1>4. ASSUME NEW i \in 1..Len(s) PROVE s[i] \in Range(s \o r)
    <2>1. i \in 1..Len(s \o r) BY <1>1
    <2> QED BY <1>1, <1>2, <2>1
  <1>5. ASSUME NEW i \in 1..Len(r) PROVE r[i] \in Range(s \o r)
    <2>1. Len(s) + i \in 1..Len(s \o r) BY <1>1
    <2> QED BY <1>1, <1>2, <2>1
  <1> QED BY <1>2, <1>3, <1>4, <1>5

LEMMA SentAfter ==
  ASSUME Types, NEW t \in Threads, NEW N, NEW d \in Detectors, NEW P \in Seq(Events),
         Effect(t, N, d, P), NEW x \in Detectors, NEW f
  PROVE  f \in handled'[x] \cup Range(deq'[x]) <=> f \in Sent(x) \/ (x = d /\ f \in Range(P))
  <1>1. handled' = handled /\ deq' = [deq EXCEPT ![d] = @ \o P] BY DEF Effect
  <1>2. deq[d] \in Seq(Events) /\ deq \in [Detectors -> Seq(Events)] BY DEF Types
  <1>3. CASE x = d
    <2>1. Range(deq[d] \o P) = Range(deq[d]) \cup Range(P) BY <1>2, RangeConcat
    <2> QED BY <1>1, <1>2, <1>3, <2>1 DEF Sent
  <1>4. CASE x # d
    <2>1. deq'[x] = deq[x] BY <1>1, <1>2, <1>4
    <2> QED BY <1>1, <1>4, <2>1 DEF Sent
  <1> QED BY <1>3, <1>4

\* What is sent is what the thread has issued and not sent before.
LEMMA SendOld ==
  ASSUME Types, RingInv, CountInv, EventInv, PreInv, TrackInv, QueueInv,
         NEW t \in Threads, NEW N, NEW d \in Detectors, NEW P \in Seq(Events), Effect(t, N, d, P)
  PROVE  /\ \A f \in Range(P) : f \in issued /\ f.thd = t /\ d \in f.to /\ f \notin Sent(d)
         /\ \A f \in N : f \notin issued
         /\ \A x \in Detectors : Sent(x) \subseteq issued
  <1>1. Range(P) \subseteq Yet(t, d) BY DEF Effect
  <1>2. Yet(t, d) \cap Sent(d) = {} BY DEF TrackInv
  <1>3. \A f \in Range(P) : f \in issued /\ f.thd = t /\ d \in f.to BY <1>1, YetProps
  <1>4. \A f \in N : f.thd = t /\ f.num = count[t] + 1 BY DEF Effect
  <1>5. \A f \in issued : f.num <= count[f.thd] BY DEF CountInv
  <1>6. count[t] \in Nat BY DEF Types, Clocks
  <1>7. \A f \in N : f \notin issued BY <1>4, <1>5, <1>6
  <1>8. \A x \in Detectors : Sent(x) \subseteq issued BY DEF QueueInv, QueueOK, Sent
  <1> QED BY <1>1, <1>2, <1>3, <1>7, <1>8

LEMMA TrackStep ==
  ASSUME Types, Types', RingInv, CountInv, EventInv, PreInv, TrackInv, QueueInv,
         NEW t \in Threads, NEW N, NEW d \in Detectors, NEW P \in Seq(Events), Effect(t, N, d, P)
  PROVE  TrackInv'
  <1>1. /\ \A f \in Range(P) : f \in issued /\ f.thd = t /\ d \in f.to /\ f \notin Sent(d)
        /\ \A f \in N : f \notin issued
        /\ \A x \in Detectors : Sent(x) \subseteq issued
    BY SendOld
  <1>2. issued' = issued \cup N /\ \A f \in N : f.thd = t BY DEF Effect
  <1>6. ASSUME NEW u \in Threads, NEW x \in Detectors, NEW f
        PROVE  /\ f \in Yet(u, x)' => \/ f \in Yet(u, x) /\ (u # t \/ x # d \/ f \notin Range(P))
                                      \/ u = t /\ f \in N /\ x \in f.to
               /\ f \in Yet(u, x) /\ (u # t \/ x # d \/ f \notin Range(P)) => f \in Yet(u, x)'
               /\ u = t /\ f \in N /\ x \in f.to => f \in Yet(u, x)'
    <2>1. CASE u # t
      <3>1. Yet(u, x)' = Yet(u, x) BY <2>1 DEF Effect, Yet
      <3> QED BY <2>1, <3>1
    <2>2. CASE u = t
      <3>1. Yet(t, x)' = (Yet(t, x) \ (IF x = d THEN Range(P) ELSE {})) \cup {e \in N : x \in e.to}
        BY DEF Effect, Yet
      <3> QED BY <2>2, <3>1
    <2> QED BY <2>1, <2>2
  <1>3. ASSUME NEW e \in issued', NEW x \in e.to
        PROVE  e \in Sent(x)' \cup Yet(e.thd, x)'
    <2>1. e \in Events BY DEF Types
    <2>2. x \in Detectors /\ e.thd \in Threads BY <2>1 DEF Events
    <2>3. CASE e \in N
      <3>1. e \in Yet(e.thd, x)' BY <1>2, <2>2, <2>3, <1>6 DEF Yet
      <3> QED BY <3>1
    <2>4. CASE e \in Sent(x)
      <3>1. e \in handled'[x] \cup Range(deq'[x]) BY <2>2, <2>4, SentAfter
      <3> QED BY <3>1 DEF Sent
    <2>5. CASE e \in Yet(e.thd, x)
      <3>1. CASE e.thd = t /\ x = d /\ e \in Range(P)
        <4>1. e \in handled'[x] \cup Range(deq'[x]) BY <2>2, <3>1, SentAfter
        <4> QED BY <4>1 DEF Sent
      <3>2. CASE ~(e.thd = t /\ x = d /\ e \in Range(P))
        <4>1. e \in Yet(e.thd, x)' BY <2>2, <2>5, <3>2, <1>6 DEF Yet
        <4> QED BY <4>1
      <3> QED BY <3>1, <3>2
    <2>6. e \in issued => e \in Sent(x) \cup Yet(e.thd, x) BY DEF TrackInv
    <2> QED BY <1>2, <2>3, <2>4, <2>5, <2>6
  <1>4. ASSUME NEW u \in Threads, NEW x \in Detectors, NEW f \in Yet(u, x)', f \in Sent(x)'
        PROVE  FALSE
    <2>1. f \in Sent(x) \/ (x = d /\ f \in Range(P))
      <3>1. f \in handled'[x] \cup Range(deq'[x]) BY <1>4 DEF Sent
      <3> QED BY <3>1, SentAfter
    <2>2. f \in issued BY <1>1, <2>1
    <2>3. f \in Yet(u, x) /\ ~(u = t /\ x = d /\ f \in Range(P))
      <3>1. \/ f \in Yet(u, x) /\ ~(u = t /\ x = d /\ f \in Range(P))
            \/ u = t /\ f \in N /\ x \in f.to
        BY <1>4, <1>6 DEF Yet
      <3> QED BY <1>1, <2>2, <3>1
    <2>4. f \notin Sent(x) BY <2>3 DEF TrackInv
    <2>5. f.thd = u BY <2>3, YetProps
    <2> QED BY <1>1, <2>1, <2>3, <2>4, <2>5
  <1> QED BY <1>3, <1>4 DEF TrackInv
LEMMA QueueStep ==
  ASSUME Types, Types', RingInv, CountInv, EventInv, PreInv, TrackInv, HeardInv, QueueInv,
         NEW t \in Threads, NEW N, NEW d \in Detectors, NEW P \in Seq(Events), Effect(t, N, d, P)
  PROVE  QueueInv'
  <1>1. /\ \A f \in Range(P) : f \in issued /\ f.thd = t /\ d \in f.to /\ f \notin Sent(d)
        /\ \A f \in N : f \notin issued
        /\ \A x \in Detectors : Sent(x) \subseteq issued
    BY SendOld
  <1>2. /\ issued' = issued \cup N /\ handled' = handled /\ deq' = [deq EXCEPT ![d] = @ \o P]
        /\ \A f \in N : f.thd = t /\ f.num = count[t] + 1
        /\ \A i, j \in 1..Len(P) : i < j => P[i].num < P[j].num
        /\ \A e \in Range(P) : \A f \in Yet(t, d) \ Range(P) : e.num < f.num
    BY DEF Effect
  <1>3. /\ count[t] \in Nat /\ deq \in [Detectors -> Seq(Events)]
        /\ \A f \in issued : f.num \in Nat /\ f.thd \in Threads
    BY DEF Types, Clocks, Events
  <1>4. ASSUME NEW e \in issued, NEW f \in issued', f.thd = e.thd, f.num < e.num PROVE f \in issued
    <2>1. e.num <= count[e.thd] BY DEF CountInv
    <2> QED BY <1>2, <1>3, <1>4, <2>1
  <1>5. ASSUME NEW x \in Detectors, x # d PROVE QueueOK(deq'[x], handled'[x], issued', x)
    <2>1. deq'[x] = deq[x] /\ handled'[x] = handled[x] BY <1>2, <1>3, <1>5
    <2>2. QueueOK(deq[x], handled[x], issued, x) BY DEF QueueInv
    <2>3. \A e \in handled[x] \cup Range(deq[x]) : e \in issued BY <1>1 DEF Sent
    <2>4. QueueOK(deq[x], handled[x], issued', x) BY <1>2, <1>4, <2>2, <2>3 DEF QueueOK
    <2> QED BY <2>1, <2>4
  <1> DEFINE q == deq[d]
             h == handled[d]
             r == deq'[d]
  <1>6. r = q \o P /\ q \in Seq(Events) /\ handled'[d] = h BY <1>2, <1>3
  <1>7. Range(r) = Range(q) \cup Range(P) BY <1>6, RangeConcat
  <1>8. /\ \A e \in h \cup Range(q) : e \in issued /\ d \in e.to
        /\ \A e \in h \cup Range(q) : \A f \in issued :
             f.thd = e.thd /\ f.num < e.num /\ d \in f.to => f \in h \cup Range(q)
        /\ \A i, j \in 1..Len(q) : i < j => q[i] # q[j] /\ ~Order!Before(q[j], q[i])
        /\ Range(q) \cap h = {}
    BY DEF QueueInv, QueueOK
  <1>9. \A f \in Range(P) : f \in issued /\ f.thd = t /\ d \in f.to /\ f \notin h \cup Range(q)
    BY <1>1 DEF Sent
  <1> HIDE DEF q, h, r
  <1>10. \A e \in h \cup Range(r) : e \in issued' /\ d \in e.to BY <1>2, <1>7, <1>8, <1>9
  <1>11. ASSUME NEW e \in h \cup Range(r), NEW f \in issued', f.thd = e.thd, f.num < e.num, d \in f.to
         PROVE  f \in h \cup Range(r)
    <2>1. e \in issued /\ f \in issued BY <1>4, <1>7, <1>8, <1>9, <1>11
    <2>2. CASE e \in h \cup Range(q) BY <1>7, <1>8, <1>11, <2>1, <2>2
    <2>3. CASE e \in Range(P)
      <3>1. f \in Sent(d) \cup Yet(t, d) BY <1>9, <1>11, <2>1, <2>3 DEF TrackInv
      <3>2. f \in Yet(t, d) => f \in Range(P)
        <4>1. ~(e.num < f.num) BY <1>3, <1>11, <2>1
        <4> QED BY <1>2, <2>3, <4>1
      <3> QED BY <1>7, <3>1, <3>2 DEF Sent, h, q
    <2> QED BY <1>7, <1>11, <2>2, <2>3
  <1>12. ASSUME NEW e \in issued, NEW f \in Range(P), e.thd # t \/ e.num < f.num \/ e \in h \cup Range(q)
         PROVE  ~Order!Before(f, e)
    <2> SUFFICES ASSUME f.num <= e.after[t] PROVE FALSE
      BY <1>9 DEF Order!Before
    <2>1. f \in issued /\ f.thd = t /\ d \in f.to /\ f \notin h \cup Range(q) BY <1>9
    <2>2. CASE e.thd # t
      <3>1. HeardOf(e.after, e.thd) BY DEF HeardInv
      <3> QED BY <2>1, <2>2, <3>1 DEF HeardOf, HeardIn, h, q
    <2>3. CASE e.thd = t
      <3>1. e.after[t] = e.num - 1 BY <2>3 DEF CountInv
      <3>2. f.num < e.num BY <1>3, <2>1, <3>1
      <3>3. ~(e.num < f.num) BY <1>3, <2>1, <3>2
      <3> QED BY <1>8, <1>12, <2>1, <2>3, <3>2, <3>3
    <2> QED BY <2>2, <2>3
  <1>13. ASSUME NEW i \in 1..Len(r), NEW j \in 1..Len(r), i < j
         PROVE  r[i] # r[j] /\ ~Order!Before(r[j], r[i])
    <2>1. /\ Len(r) = Len(q) + Len(P) /\ Len(q) \in Nat /\ Len(P) \in Nat
          /\ \A k \in 1..Len(q) : r[k] = q[k] /\ q[k] \in Range(q)
          /\ \A k \in 1..Len(P) : r[Len(q) + k] = P[k] /\ P[k] \in Range(P)
      BY <1>6, RangeSeq
    <2>2. CASE j \in 1..Len(q)
      <3>1. i \in 1..Len(q) BY <1>13, <2>1, <2>2
      <3> QED BY <1>8, <1>13, <2>1, <2>2, <3>1
    <2>3. CASE j \notin 1..Len(q)
      <3>1. j - Len(q) \in 1..Len(P) /\ Len(q) + (j - Len(q)) = j BY <1>13, <2>1, <2>3
      <3>2. PICK m \in 1..Len(P) : m = j - Len(q) /\ r[j] = P[m] BY <2>1, <3>1
      <3>3. r[j] \in Range(P) BY <2>1, <3>2
      <3>4. CASE i \in 1..Len(q)
        <4>1. r[i] \in Range(q) /\ r[i] \in issued BY <1>8, <2>1, <3>4
        <4> QED BY <1>9, <1>12, <3>3, <4>1
      <3>5. CASE i \notin 1..Len(q)
        <4>1. i - Len(q) \in 1..Len(P) /\ Len(q) + (i - Len(q)) = i BY <1>13, <2>1, <3>5
        <4>2. PICK k \in 1..Len(P) : k = i - Len(q) /\ r[i] = P[k] BY <2>1, <4>1
        <4>3. k < m BY <1>13, <2>1, <3>2, <4>2
        <4>4. r[i].num < r[j].num /\ r[i] \in Range(P) BY <1>2, <2>1, <3>2, <4>2, <4>3
        <4>5. r[i] \in issued /\ r[i].num \in Nat /\ r[j] \in issued /\ r[j].num \in Nat
          BY <1>3, <1>9, <3>3, <4>4
        <4>6. r[i] # r[j] BY <4>4, <4>5
        <4> QED BY <1>12, <3>3, <4>4, <4>5, <4>6
      <3> QED BY <3>4, <3>5
    <2> QED BY <2>2, <2>3
  <1>14. Range(r) \cap h = {} BY <1>7, <1>8, <1>9
  <1>15. QueueOK(r, h, issued', d) BY <1>10, <1>11, <1>13, <1>14 DEF QueueOK
  <1>16. QueueOK(deq'[d], handled'[d], issued', d) BY <1>6, <1>15 DEF r
  <1> QED BY <1>5, <1>16 DEF QueueInv

\* What has been heard of is still sent, and a new event has not been heard of.
LEMMA HeardKept ==
  ASSUME Types, CountInv, NEW t \in Threads, NEW N, NEW d \in Detectors, NEW P \in Seq(Events),
         Effect(t, N, d, P), Types',
         NEW v \in Clocks, NEW u, HeardOf(v, u), v[t] <= count[t]
  PROVE  HeardIn(v, u, issued', handled', deq')
  <1> SUFFICES ASSUME NEW f \in issued', f.thd # u, f.num <= v[f.thd], NEW x \in f.to
               PROVE  f \in handled'[x] \cup Range(deq'[x])
    BY DEF HeardIn
  <1>1. issued' = issued \cup N /\ \A e \in N : e.thd = t /\ e.num = count[t] + 1 BY DEF Effect
  <1>2. count[t] \in Nat /\ v[t] \in Nat BY DEF Types, Clocks
  <1>3. f \in issued BY <1>1, <1>2
  <1>4. x \in Detectors BY <1>3 DEF Types, Events
  <1>5. f \in Sent(x) BY <1>3 DEF HeardOf, HeardIn, Sent
  <1> QED BY <1>4, <1>5, SentAfter

\* What two have heard of.
LEMMA HeardJoined ==
  ASSUME Types, NEW v \in Clocks, NEW w \in Clocks, NEW u, HeardOf(v, u),
         \A f \in issued : f.thd # u /\ f.num <= w[f.thd] => \A x \in f.to : f \in Sent(x)
  PROVE  HeardOf(Joined(v, w), u)
  <1> SUFFICES ASSUME NEW f \in issued, f.thd # u, f.num <= Joined(v, w)[f.thd], NEW x \in f.to
               PROVE  f \in Sent(x)
    BY DEF HeardOf, HeardIn, Sent
  <1>1. f.thd \in Threads BY DEF Types, Events
  <1>2. Joined(v, w)[f.thd] \in {v[f.thd], w[f.thd]} BY <1>1 DEF Joined
  <1>3. CASE f.num <= v[f.thd] BY <1>3 DEF HeardOf, HeardIn, Sent
  <1> QED BY <1>2, <1>3

\* A thread that passes on what it has done has sent all its events.
LEMMA AllSent ==
  ASSUME Types, PlaceInv, QuietInv, PreInv, TrackInv, NEW t \in Threads, pc[t] \in PassingPC,
         event[t] = NoEvent, NEW f \in issued, f.thd = t, NEW x \in f.to
  PROVE  f \in Sent(x)
  <1>1. x \in Detectors BY DEF Types, Events
  <1>2. Kept(t, x) = {} BY <1>1 DEF QuietInv
  <1>3. out[t] = NoEvent BY DEF PlaceInv
  <1>4. ~PreLeft BY PreRoot DEF PassingPC
  <1>5. preEvents = <<>> BY <1>4 DEF PreLeft
  <1>6. Range(preEvents) = {} BY <1>5 DEF Range
  <1>7. Yet(t, x) = {} BY <1>2, <1>3, <1>6 DEF Yet, YetIn
  <1>8. f \in Sent(x) \cup Yet(t, x) BY DEF TrackInv
  <1> QED BY <1>7, <1>8

\* So all it has heard of, and done, has been sent.
LEMMA PassedOn ==
  ASSUME Types, PlaceInv, QuietInv, PreInv, TrackInv, HeardInv, NEW t \in Threads, pc[t] \in PassingPC,
         event[t] = NoEvent, NEW f \in issued, f.num <= past[t][f.thd], NEW x \in f.to
  PROVE  f \in Sent(x)
  <1>1. CASE f.thd = t BY <1>1, AllSent
  <1>2. CASE f.thd # t
    <2>1. HeardOf(past[t], t) BY DEF HeardInv
    <2> QED BY <1>2, <2>1 DEF HeardOf, HeardIn, Sent
  <1> QED BY <1>1, <1>2
\* What a thread takes over at the end of a call has been sent, and so has what it passes on.
LEMMA SeenHeard ==
  ASSUME Types, PlaceInv, QuietInv, PreInv, TrackInv, HeardInv, NEW t \in Threads,
         child[t] # NoThread /\ ~Created(t) => child[t] \in Threads /\ pc[child[t]] = "ended"
  PROVE  HeardOf(Seen(t), t)
  <1>1. past[t] \in Clocks /\ published \in Clocks BY DEF Types
  <1>2. HeardOf(past[t], t) /\ HeardOf(published, NoThread) BY DEF HeardInv
  <1>3. CASE child[t] # NoThread /\ ~Created(t)
    <2>1. child[t] \in Threads /\ pc[child[t]] \in PassingPC /\ event[child[t]] = NoEvent
      BY <1>3 DEF PlaceInv, PassingPC, SendingPC
    <2>2. past[child[t]] \in Clocks BY <2>1 DEF Types
    <2>3. \A f \in issued : f.thd # t /\ f.num <= past[child[t]][f.thd] => \A x \in f.to : f \in Sent(x)
      BY <2>1, PassedOn
    <2>4. HeardOf(Joined(past[t], past[child[t]]), t) BY <1>1, <1>2, <2>2, <2>3, HeardJoined
    <2> QED BY <1>3, <2>4 DEF Seen
  <1>4. CASE ~(child[t] # NoThread /\ ~Created(t)) /\ call[t].acquires
    <2>1. \A f \in issued : f.thd # NoThread BY DispatchAssumption DEF Types, Events
    <2>2. \A f \in issued : f.thd # t /\ f.num <= published[f.thd] => \A x \in f.to : f \in Sent(x)
      BY <1>2, <2>1 DEF HeardOf, HeardIn, Sent
    <2>3. HeardOf(Joined(past[t], published), t) BY <1>1, <1>2, <2>2, HeardJoined
    <2> QED BY <1>4, <2>3 DEF Seen
  <1>5. CASE ~(child[t] # NoThread /\ ~Created(t)) /\ ~call[t].acquires
    BY <1>2, <1>5 DEF Seen
  <1> QED BY <1>3, <1>4, <1>5

LEMMA PublishHeard ==
  ASSUME Types, PlaceInv, QuietInv, PreInv, TrackInv, HeardInv, CountInv, NEW t \in Threads,
         pc[t] \in PassingPC, event[t] = NoEvent
  PROVE  /\ HeardOf(Joined(published, past[t]), NoThread) /\ Joined(published, past[t]) \in Clocks
         /\ \A u \in Threads : Joined(published, past[t])[u] <= count[u]
  <1>1. past[t] \in Clocks /\ published \in Clocks BY DEF Types
  <1>2. HeardOf(published, NoThread) BY DEF HeardInv
  <1>3. \A f \in issued : f.thd # NoThread /\ f.num <= past[t][f.thd] => \A x \in f.to : f \in Sent(x)
    BY PassedOn
  <1>4. HeardOf(Joined(published, past[t]), NoThread) BY <1>1, <1>2, <1>3, HeardJoined
  <1>5. Joined(published, past[t]) \in Clocks BY <1>1 DEF Clocks, Joined
  <1>6. \A u \in Threads : Joined(published, past[t])[u] <= count[u]
    BY DEF CountInv, Joined
  <1> QED BY <1>4, <1>5, <1>6

\* A step of t that passes on and takes over only what has been sent.
LEMMA HeardStep ==
  ASSUME Types, Types', CountInv, HeardInv, NEW t \in Threads, NEW N, NEW d \in Detectors,
         NEW P \in Seq(Events), Effect(t, N, d, P),
         \A e \in N : e.after \in Clocks /\ HeardOf(e.after, t) /\ e.after[t] <= count[t],
         \A u \in Threads : \E w \in Clocks : /\ HeardOf(w, u) /\ w[t] <= count[t]
                                              /\ \A x \in Threads \ {u} : past'[u][x] = w[x],
         \E w \in Clocks : HeardOf(w, NoThread) /\ w[t] <= count[t] /\ published' = w
  PROVE  HeardInv'
  <1>1. ASSUME NEW w \in Clocks, NEW u, HeardOf(w, u), w[t] <= count[t]
        PROVE  HeardIn(w, u, issued', handled', deq')
    BY <1>1, HeardKept
  <1>2. issued' = issued \cup N /\ \A e \in N : e.thd = t BY DEF Effect
  <1>3. ASSUME NEW e \in issued' PROVE HeardIn(e.after, e.thd, issued', handled', deq')
    <2>1. CASE e \in N BY <1>1, <1>2, <2>1
    <2>2. CASE e \in issued
      <3>1. e.after \in Clocks BY <2>2 DEF Types, Events
      <3>2. HeardOf(e.after, e.thd) /\ e.after[t] <= count[t] BY <2>2 DEF HeardInv, CountInv
      <3> QED BY <1>1, <3>1, <3>2
    <2> QED BY <1>2, <2>1, <2>2
  <1>4. ASSUME NEW u \in Threads PROVE HeardIn(past'[u], u, issued', handled', deq')
    <2>1. PICK w \in Clocks : /\ HeardOf(w, u) /\ w[t] <= count[t]
                              /\ \A x \in Threads \ {u} : past'[u][x] = w[x]
      OBVIOUS
    <2>2. HeardIn(w, u, issued', handled', deq') BY <1>1, <2>1
    <2>3. \A f \in issued' : f.thd \in Threads BY DEF Types, Events
    <2> QED BY <2>1, <2>2, <2>3 DEF HeardIn
  <1>5. HeardIn(published', NoThread, issued', handled', deq') BY <1>1
  <1> QED BY <1>3, <1>4, <1>5 DEF HeardInv, HeardOf

\* The parts of the invariant that are about the steps of threads.
LocalInv == ControlInv /\ CountInv /\ RingInv /\ QuietInv /\ EventInv /\ PreInv
FlowInv == TrackInv /\ HeardInv /\ QueueInv

LEMMA FlowStep ==
  ASSUME LocalInv, FlowInv, Types', NEW t \in Threads, NEW N, NEW d \in Detectors,
         NEW P \in Seq(Events), Effect(t, N, d, P),
         \A e \in N : e.after \in Clocks /\ HeardOf(e.after, t) /\ e.after[t] <= count[t],
         \A u \in Threads : \E w \in Clocks : /\ HeardOf(w, u) /\ w[t] <= count[t]
                                              /\ \A x \in Threads \ {u} : past'[u][x] = w[x],
         \E w \in Clocks : HeardOf(w, NoThread) /\ w[t] <= count[t] /\ published' = w
  PROVE  FlowInv'
  <1> USE DEF LocalInv, ControlInv, FlowInv
  <1>1. TrackInv' BY TrackStep
  <1>2. QueueInv' BY QueueStep
  <1>3. HeardInv' BY HeardStep
  <1> QED BY <1>1, <1>2, <1>3

\* What the others have seen stays the same, and they have heard of it.
LEMMA OthersHeard ==
  ASSUME Types, CountInv, HeardInv, NEW t \in Threads, NEW u \in Threads
  PROVE  \E w \in Clocks : /\ HeardOf(w, u) /\ w[t] <= count[t]
                           /\ \A x \in Threads \ {u} : past[u][x] = w[x]
  <1>1. past[u] \in Clocks /\ HeardOf(past[u], u) /\ past[u][t] <= count[t]
    BY DEF Types, HeardInv, CountInv
  <1> QED BY <1>1

\* The two modules count alike.
LEMMA SameCardinality == \A S : Order!Cardinality(S) = Cardinality(S)
  BY DEF Order!Cardinality, Cardinality

\* A thread that makes an event.
LEMMA MakesStep ==
  ASSUME LocalInv, FlowInv, Types', NEW t \in Threads, NEW v \in Clocks, NEW e, Makes(e, t, v),
         HeardOf(v, t), v[t] = count[t], \A u \in Threads : v[u] <= count[u],
         \E w \in Clocks : HeardOf(w, NoThread) /\ w[t] <= count[t] /\ published' = w,
         NEW d \in Detectors, NEW P \in Seq(Events), Effect(t, {e}, d, P)
  PROVE  FlowInv' /\ e \in issued' \ issued /\ Order!Issue(e)
  <1> USE DEF LocalInv, ControlInv, FlowInv
  <1>1. /\ e \in Events /\ e.thd = t /\ e.num = count[t] + 1 /\ e.after = v /\ issued' = issued \cup {e}
        /\ past' = [past EXCEPT ![t] = [v EXCEPT ![t] = count[t] + 1]]
    BY DEF Makes
  <1>2. count[t] \in Nat /\ v \in [Threads -> Nat] BY DEF Types, Clocks
  <1>3. v[t] <= count[t] BY <1>2
  <1>4. ASSUME NEW u \in Threads
        PROVE  \E w \in Clocks : /\ HeardOf(w, u) /\ w[t] <= count[t]
                                 /\ \A x \in Threads \ {u} : past'[u][x] = w[x]
    <2>1. CASE u = t
      <3>1. \A x \in Threads \ {t} : past'[t][x] = v[x] BY <1>1, <1>2 DEF Types
      <3> QED BY <1>3, <2>1, <3>1
    <2>2. CASE u # t
      <3>1. past'[u] = past[u] BY <1>1, <2>2 DEF Types
      <3> QED BY <3>1, OthersHeard
    <2> QED BY <2>1, <2>2
  <1>5. FlowInv'
    <2> HIDE DEF LocalInv, FlowInv
    <2>1. \A f \in {e} : f.after \in Clocks /\ HeardOf(f.after, t) /\ f.after[t] <= count[t]
      BY <1>1, <1>3
    <2> QED BY <1>4, <2>1, FlowStep
  <1>6. e \notin issued
    <2>1. \A f \in issued : f.num <= count[f.thd] BY DEF CountInv
    <2> QED BY <1>1, <1>2, <2>1
  <1>7. Order!Issue(e)
    <2>1. \A u \in Threads : count[u] = Cardinality(Order!IssuedBy(u)) BY DEF CountInv
    <2>2. handled' = handled BY DEF Effect
    <2>3. e.num = Cardinality(Order!IssuedBy(t)) + 1 BY <1>1, <2>1
    <2>4. e.after[t] = e.num - 1 BY <1>1, <1>2
    <2>5. \A u \in Threads : e.after[u] <= Cardinality(Order!IssuedBy(u)) BY <1>1, <2>1
    <2>6. e.to \subseteq Detectors BY <1>1 DEF Events
    <2>7. e.num = Cardinality(Order!IssuedBy(e.thd)) + 1 /\ e.after[e.thd] = e.num - 1
      BY Zenon, <1>1, <2>3, <2>4
    <2>8. issued' = issued \cup {e} /\ UNCHANGED handled BY <1>1, <2>2
    <2> QED BY Zenon, <2>5, <2>6, <2>7, <2>8, SameCardinality DEF Order!Issue
  <1> QED BY <1>1, <1>5, <1>6, <1>7

\* A thread that makes none.
LEMMA StaysStep ==
  ASSUME LocalInv, FlowInv, Types', NEW t \in Threads, UNCHANGED <<past, published>>,
         NEW d \in Detectors, NEW P \in Seq(Events), Effect(t, {}, d, P)
  PROVE  FlowInv' /\ UNCHANGED <<issued, handled>>
  <1> USE DEF LocalInv, ControlInv, FlowInv
  <1>1. UNCHANGED <<issued, handled>> BY DEF Effect
  <1>2. \A u \in Threads : \E w \in Clocks : /\ HeardOf(w, u) /\ w[t] <= count[t]
                                             /\ \A x \in Threads \ {u} : past'[u][x] = w[x]
    BY OthersHeard
  <1>3. published \in Clocks /\ HeardOf(published, NoThread) /\ published[t] <= count[t]
    BY DEF Types, HeardInv, CountInv
  <1>4. \E w \in Clocks : HeardOf(w, NoThread) /\ w[t] <= count[t] /\ published' = w BY <1>3
  <1> HIDE DEF LocalInv, FlowInv
  <1> QED BY <1>1, <1>2, <1>4, FlowStep
\* What the program has passed on has been sent, and is still passed on.
LEMMA PublishedHeard ==
  ASSUME Types, CountInv, HeardInv, NEW t \in Threads
  PROVE  HeardOf(published, NoThread) /\ published \in Clocks /\ published[t] <= count[t]
  BY DEF Types, HeardInv, CountInv

\* The events' order is kept, and the program issues at most the next event.
Issues == \/ UNCHANGED <<issued, handled>>
          \/ \E e \in issued' \ issued : Order!Issue(e)

LEMMA AccessFlow ==
  ASSUME LocalInv, FlowInv, Types', NEW t \in Threads, NEW u \in Units, Access(t, u)
  PROVE  FlowInv' /\ Issues
  <1>1. Types /\ PlaceInv /\ RingInv /\ CountInv /\ EventInv /\ PreInv /\ HeardInv
    BY DEF LocalInv, ControlInv, FlowInv
  <1>2. PICK d \in Detectors, e \in Events, P \in Seq(Events) :
          Makes(e, t, past[t]) /\ IsFor(e, t, d) /\ Effect(t, {e}, d, P)
    BY <1>1, AccessEffect
  <1>3. past[t] \in Clocks /\ HeardOf(past[t], t) BY <1>1 DEF Types, HeardInv
  <1>4. past[t][t] = count[t] /\ \A x \in Threads : past[t][x] <= count[x] BY <1>1 DEF CountInv
  <1>5. \E w \in Clocks : HeardOf(w, NoThread) /\ w[t] <= count[t] /\ published' = w
    <2>1. published' = published BY DEF Access
    <2> QED BY <1>1, <2>1, PublishedHeard
  <1>6. FlowInv' /\ e \in issued' \ issued /\ Order!Issue(e)
    BY <1>2, <1>3, <1>4, <1>5, MakesStep
  <1> QED BY <1>6 DEF Issues

LEMMA DistributeFlow ==
  ASSUME LocalInv, FlowInv, Types', NEW t \in Threads, Distributes(t)
  PROVE  FlowInv' /\ Issues
  <1>1. /\ Types /\ PlaceInv /\ StartInv /\ RingInv /\ CountInv /\ QuietInv /\ EventInv /\ PreInv
        /\ TrackInv /\ HeardInv
    BY DEF LocalInv, ControlInv, FlowInv
  <1>2. PICK v \in Clocks, h \in BOOLEAN :
          /\ Distribute(t, v, h)
          /\ \/ v = past[t]
             \/ /\ pc[t] \in {"inside", "returning"} /\ v = Seen(t)
                /\ child[t] # NoThread /\ ~Created(t) =>
                     child[t] \in Threads /\ pc[child[t]] = "ended"
    BY <1>1, DistributeRest
  <1>3. published' = published \/ (pc[t] = "inside" /\ published' = Joined(published, past[t]))
    BY <1>1, DistributeRest
  <1>4. PICK e \in Events :
          Makes(e, t, v) /\ e.to = Detectors /\ event' = [event EXCEPT ![t] = e]
    BY <1>1, <1>2, CreateBroadcast
  <1>5. PICK d \in Detectors, P \in Seq(Events) : Effect(t, {e}, d, P)
    BY <1>1, <1>4, DistributeEffect
  <1>6. HeardOf(v, t)
    <2>1. CASE v = past[t] BY <1>1, <2>1 DEF HeardInv
    <2>2. CASE v # past[t] BY <1>1, <1>2, <2>2, SeenHeard
    <2> QED BY <2>1, <2>2
  <1>7. v[t] = count[t] /\ \A x \in Threads : v[x] <= count[x] BY <1>1, <1>2, SeenBounds
  <1>8. \E w \in Clocks : HeardOf(w, NoThread) /\ w[t] <= count[t] /\ published' = w
    <2>1. CASE published' = published BY <1>1, <2>1, PublishedHeard
    <2>2. CASE pc[t] = "inside" /\ published' = Joined(published, past[t])
      <3>1. event[t] = NoEvent BY <1>1, DistributeForm
      <3>2. pc[t] \in PassingPC BY <2>2 DEF PassingPC
      <3> QED BY <1>1, <2>2, <3>1, <3>2, PublishHeard
    <2> QED BY <1>3, <2>1, <2>2
  <1>9. FlowInv' /\ e \in issued' \ issued /\ Order!Issue(e)
    BY <1>4, <1>5, <1>6, <1>7, <1>8, MakesStep
  <1> QED BY <1>9 DEF Issues

\* The call that a thread waits in: what it passes on has been sent.
LEMMA CallFlow ==
  ASSUME LocalInv, FlowInv, Types', NEW t \in Threads, CallOriginal(t)
  PROVE  FlowInv' /\ Issues
  <1>1. /\ Types /\ PlaceInv /\ StartInv /\ RingInv /\ CountInv /\ QuietInv /\ EventInv /\ PreInv
        /\ TrackInv /\ HeardInv
    BY DEF LocalInv, ControlInv, FlowInv
  <1>2. PICK d \in Detectors, P \in Seq(Events) : Effect(t, {}, d, P)
    BY <1>1, KeepEffect DEF Moves
  <1>3. UNCHANGED <<issued, handled>> BY <1>2 DEF Effect
  <1>4. pc[t] \in PassingPC /\ event[t] = NoEvent BY DEF CallOriginal, PassingPC, Idle
  <1>5. /\ HeardOf(Joined(published, past[t]), NoThread) /\ Joined(published, past[t]) \in Clocks
        /\ Joined(published, past[t])[t] <= count[t]
    BY <1>1, <1>4, PublishHeard
  <1>6. \E w \in Clocks : HeardOf(w, NoThread) /\ w[t] <= count[t] /\ published' = w
    <2>1. CASE published' = published BY <1>1, <2>1, PublishedHeard
    <2>2. CASE published' = Joined(published, past[t]) BY <1>5, <2>2
    <2> QED BY <2>1, <2>2 DEF CallOriginal
  <1>7. ASSUME NEW u \in Threads
        PROVE  \E w \in Clocks : /\ HeardOf(w, u) /\ w[t] <= count[t]
                                 /\ \A x \in Threads \ {u} : past'[u][x] = w[x]
    <2>1. CASE past'[u] = past[u] BY <1>1, <2>1, OthersHeard
    <2>2. CASE past'[u] = past[t]
      <3>1. past[t] \in Clocks /\ past[t][t] <= count[t] BY <1>1 DEF Types, CountInv
      <3>2. \A f \in issued : f.num <= past[t][f.thd] => \A x \in f.to : f \in Sent(x)
        BY <1>1, <1>4, PassedOn
      <3>3. HeardOf(past[t], u) BY <3>2 DEF HeardOf, HeardIn, Sent
      <3> QED BY <2>2, <3>1, <3>3
    <2>3. past'[u] = past[u] \/ past'[u] = past[t]
      BY <1>1 DEF CallOriginal, Types
    <2> QED BY <2>1, <2>2, <2>3
  <1>8. \A e \in {} : e.after \in Clocks /\ HeardOf(e.after, t) /\ e.after[t] <= count[t]
    OBVIOUS
  <1>9. FlowInv' BY <1>2, <1>6, <1>7, <1>8, FlowStep
  <1> QED BY <1>3, <1>9 DEF Issues

LEMMA ThreadFlow ==
  ASSUME LocalInv, FlowInv, Types', NEW t \in Threads, ThreadNext(t)
  PROVE  FlowInv' /\ Issues
  <1>1. /\ Types /\ PlaceInv /\ StartInv /\ RingInv /\ CountInv /\ QuietInv /\ EventInv /\ PreInv
    BY DEF LocalInv, ControlInv
  <1>2. CASE \E u \in Units : Access(t, u) BY <1>2, AccessFlow
  <1>3. CASE Distributes(t) BY <1>3, DistributeFlow
  <1>4. CASE CallOriginal(t) BY <1>4, CallFlow
  <1>5. CASE Send(t) \/ ThreadStart(t) \/ CreateBuffers(t) \/ FreeEventBuffer(t)
    <2>1. UNCHANGED <<past, published>>
      BY <1>5 DEF Send, FlushBuffer, KeepEvent, PushEvent, ThreadStart, CreateBuffers, FreeEventBuffer
    <2>2. \E d \in Detectors, P \in Seq(Events) : Effect(t, {}, d, P)
      <3>1. CASE FlushBuffer(t) BY <1>1, <3>1, FlushEffect
      <3>2. CASE PushEvent(t) BY <1>1, <3>2, PushEffect
      <3>3. CASE KeepEvent(t) \/ Moves(t) BY <1>1, <3>3, KeepEffect
      <3> QED BY <1>5, <3>1, <3>2, <3>3 DEF Send, Moves
    <2>3. PICK d \in Detectors, P \in Seq(Events) : Effect(t, {}, d, P) BY <2>2
    <2> QED BY <2>1, <2>3, StaysStep DEF Issues
  <1> QED BY <1>2, <1>3, <1>4, <1>5 DEF ThreadNext, Distributes
-----------------------------------------------------------------------------
(* Handling keeps the order. *)

LEMMA RangeTail ==
  ASSUME NEW S, NEW s \in Seq(S), s # <<>>
  PROVE  Head(s) \in Range(s) /\ Tail(s) \in Seq(S) /\ Range(s) = {Head(s)} \cup Range(Tail(s))
  <1>1. /\ Len(s) \in Nat /\ Len(s) >= 1 /\ Tail(s) \in Seq(S) /\ Len(Tail(s)) = Len(s) - 1
        /\ \A i \in 1..Len(Tail(s)) : Tail(s)[i] = s[i + 1]
        /\ Head(s) = s[1]
    OBVIOUS
  <1>2. Range(s) = {s[i] : i \in 1..Len(s)} /\ Range(Tail(s)) = {Tail(s)[i] : i \in 1..Len(Tail(s))}
    BY <1>1, RangeSeq
  <1>3. Head(s) \in Range(s) BY <1>1, <1>2
  <1>4. ASSUME NEW x \in Range(s) PROVE x = Head(s) \/ x \in Range(Tail(s))
    <2>1. PICK i \in 1..Len(s) : x = s[i] BY <1>2
    <2>2. CASE i = 1 BY <1>1, <2>1, <2>2
    <2>3. CASE i # 1
      <3>1. i - 1 \in 1..Len(Tail(s)) /\ (i - 1) + 1 = i BY <1>1, <2>3
      <3>2. Tail(s)[i - 1] = x BY <1>1, <2>1, <3>1
      <3> QED BY <1>2, <3>1, <3>2
    <2> QED BY <2>2, <2>3
  <1>5. ASSUME NEW x \in Range(Tail(s)) PROVE x \in Range(s)
    <2>1. PICK i \in 1..Len(Tail(s)) : x = Tail(s)[i] BY <1>2
    <2>2. i + 1 \in 1..Len(s) /\ x = s[i + 1] BY <1>1, <2>1
    <2> QED BY <1>2, <2>2
  <1> QED BY <1>1, <1>3, <1>4, <1>5

\* The event that d takes from its queue.
Handles(d, e) ==
  /\ deq[d] # <<>> /\ e = Head(deq[d])
  /\ deq' = [deq EXCEPT ![d] = Tail(@)]
  /\ handled' = [handled EXCEPT ![d] = @ \cup {e}]
  /\ UNCHANGED <<threadVars, buffer, preEvents, pastVars>>

\* What has been sent stays the same.
LEMMA SentSame ==
  ASSUME Types, NEW d \in Detectors, NEW e, Handles(d, e), NEW x \in Detectors, NEW f
  PROVE  f \in handled'[x] \cup Range(deq'[x]) <=> f \in Sent(x)
  <1>1. deq[x] \in Seq(Events) /\ deq[d] \in Seq(Events) BY DEF Types
  <1>2. CASE x = d
    <2>1. deq'[x] = Tail(deq[d]) /\ handled'[x] = handled[d] \cup {Head(deq[d])}
      BY <1>2 DEF Types, Handles
    <2>2. Range(deq[d]) = {Head(deq[d])} \cup Range(Tail(deq[d])) BY <1>1, RangeTail DEF Handles
    <2> QED BY <1>2, <2>1, <2>2 DEF Sent
  <1>3. CASE x # d
    <2>1. deq'[x] = deq[x] /\ handled'[x] = handled[x] BY <1>3 DEF Types, Handles
    <2> QED BY <2>1 DEF Sent
  <1> QED BY <1>2, <1>3

\* Taking the first event of a queue leaves the others in an order that is possible.
LEMMA QueueTail ==
  ASSUME NEW q \in Seq(Events), q # <<>>, NEW h, NEW I, NEW d, QueueOK(q, h, I, d)
  PROVE  /\ QueueOK(Tail(q), h \cup {Head(q)}, I, d)
         /\ Head(q) \in I /\ d \in Head(q).to /\ Head(q) \notin h
         /\ \A f \in Range(Tail(q)) : ~Order!Before(f, Head(q))
  <1> DEFINE e == Head(q)
             r == Tail(q)
  <1>1. e \in Range(q) /\ r \in Seq(Events) /\ Range(q) = {e} \cup Range(r) BY RangeTail
  <1>2. /\ Len(q) \in Nat /\ Len(q) >= 1 /\ Len(r) = Len(q) - 1 /\ e = q[1]
        /\ \A i \in 1..Len(r) : r[i] = q[i + 1]
    OBVIOUS
  <1>3. Range(r) = {r[i] : i \in 1..Len(r)} BY <1>1, RangeSeq
  <1>4. /\ \A f \in h \cup Range(q) : f \in I /\ d \in f.to
        /\ \A f \in h \cup Range(q) : \A g \in I :
             g.thd = f.thd /\ g.num < f.num /\ d \in g.to => g \in h \cup Range(q)
        /\ \A i, j \in 1..Len(q) : i < j => q[i] # q[j] /\ ~Order!Before(q[j], q[i])
        /\ Range(q) \cap h = {}
    BY DEF QueueOK
  <1>5. ASSUME NEW f \in Range(r) PROVE f # e /\ ~Order!Before(f, e)
    <2> HIDE DEF e, r
    <2>1. PICK i \in 1..Len(r) : f = r[i] BY <1>3
    <2>2. i + 1 \in 1..Len(q) /\ 1 \in 1..Len(q) /\ 1 < i + 1 /\ f = q[i + 1] BY <1>2, <2>1
    <2> QED BY <1>2, <1>4, <2>2
  <1>6. ASSUME NEW i \in 1..Len(r), NEW j \in 1..Len(r), i < j
        PROVE  r[i] # r[j] /\ ~Order!Before(r[j], r[i])
    <2> HIDE DEF e, r
    <2>1. i + 1 \in 1..Len(q) /\ j + 1 \in 1..Len(q) /\ i + 1 < j + 1 BY <1>2, <1>6
    <2>2. r[i] = q[i + 1] /\ r[j] = q[j + 1] BY <1>2
    <2> QED BY <1>4, <2>1, <2>2
  <1> HIDE DEF e, r
  <1>7. e \notin Range(r) BY <1>5
  <1>8. QueueOK(r, h \cup {e}, I, d)
    <2>1. (h \cup {e}) \cup Range(r) = h \cup Range(q) BY <1>1
    <2>2. Range(r) \cap (h \cup {e}) = {} BY <1>1, <1>4, <1>7
    <2> QED BY <1>4, <1>6, <2>1, <2>2 DEF QueueOK
  <1>9. e \in I /\ d \in e.to /\ e \notin h BY <1>1, <1>4
  <1> QED BY <1>5, <1>8, <1>9 DEF e, r
LEMMA HandleFlow ==
  ASSUME LocalInv, FlowInv, Types', NEW d \in Detectors, NEW e, Handles(d, e)
  PROVE  FlowInv' /\ Order!HandleSome(d)
  <1>1. Types /\ CountInv /\ TrackInv /\ HeardInv /\ QueueInv BY DEF LocalInv, ControlInv, FlowInv
  <1>2. /\ UNCHANGED <<threadVars, buffer, preEvents, past, published, issued>>
        /\ deq[d] # <<>> /\ e = Head(deq[d])
        /\ deq' = [deq EXCEPT ![d] = Tail(@)] /\ handled' = [handled EXCEPT ![d] = @ \cup {e}]
    BY DEF Handles
  <1>3. \A u \in Threads, x \in Detectors : Yet(u, x)' = Yet(u, x) BY <1>2 DEF Yet
  <1>4. \A x \in Detectors : Sent(x)' = Sent(x)
    <2> SUFFICES ASSUME NEW x \in Detectors PROVE Sent(x)' = Sent(x)
      OBVIOUS
    <2>1. \A f : f \in handled'[x] \cup Range(deq'[x]) <=> f \in Sent(x) BY <1>1, SentSame
    <2> QED BY <2>1 DEF Sent
  <1>5. \A f \in issued : f \in Events /\ f.thd \in Threads /\ f.to \subseteq Detectors /\ f.num \in Nat
    BY <1>1 DEF Types, Events
  <1>6. TrackInv'
    <2>1. ASSUME NEW f \in issued', NEW x \in f.to PROVE f \in Sent(x)' \cup Yet(f.thd, x)'
      <3>1. f \in Sent(x) \cup Yet(f.thd, x) /\ f \in issued BY <1>1, <1>2 DEF TrackInv
      <3>2. x \in Detectors /\ f.thd \in Threads BY <1>5, <3>1
      <3>3. Yet(f.thd, x)' = Yet(f.thd, x) BY <1>3, <3>2 DEF Yet
      <3> QED BY <1>4, <3>1, <3>2, <3>3
    <2>2. ASSUME NEW u \in Threads, NEW x \in Detectors PROVE Yet(u, x)' \cap Sent(x)' = {}
      <3>1. Yet(u, x)' = Yet(u, x) BY <1>3 DEF Yet
      <3>2. Yet(u, x) \cap Sent(x) = {} BY <1>1 DEF TrackInv
      <3> QED BY <1>4, <3>1, <3>2
    <2> QED BY <2>1, <2>2 DEF TrackInv
  <1>7. HeardInv'
    <2>1. ASSUME NEW v, NEW u, HeardOf(v, u) PROVE HeardIn(v, u, issued', handled', deq')
      <3> SUFFICES ASSUME NEW f \in issued', f.thd # u, f.num <= v[f.thd], NEW x \in f.to
                   PROVE  f \in handled'[x] \cup Range(deq'[x])
        BY DEF HeardIn
      <3>1. f \in Sent(x) /\ x \in Detectors BY <1>2, <1>5, <2>1 DEF HeardOf, HeardIn, Sent
      <3> QED BY <1>1, <3>1, SentSame
    <2>2. /\ \A f \in issued : HeardOf(f.after, f.thd)
          /\ \A u \in Threads : HeardOf(past[u], u)
          /\ HeardOf(published, NoThread)
      BY <1>1 DEF HeardInv
    <2>3. /\ \A f \in issued' : HeardIn(f.after, f.thd, issued', handled', deq')
          /\ \A u \in Threads : HeardIn(past'[u], u, issued', handled', deq')
          /\ HeardIn(published', NoThread, issued', handled', deq')
      BY <1>2, <2>1, <2>2
    <2> QED BY <2>3 DEF HeardInv, HeardOf
  <1>8. /\ QueueOK(Tail(deq[d]), handled[d] \cup {e}, issued, d)
        /\ e \in issued /\ d \in e.to /\ e \notin handled[d]
        /\ \A f \in Range(Tail(deq[d])) : ~Order!Before(f, e)
    <2>1. deq[d] \in Seq(Events) /\ QueueOK(deq[d], handled[d], issued, d)
      BY <1>1 DEF Types, QueueInv
    <2> QED BY <1>2, <2>1, QueueTail
  <1>9. QueueInv'
    <2>1. ASSUME NEW x \in Detectors PROVE QueueOK(deq'[x], handled'[x], issued', x)
      <3>1. CASE x = d
        <4>1. deq'[x] = Tail(deq[d]) /\ handled'[x] = handled[d] \cup {e}
          BY <1>1, <1>2, <3>1 DEF Types
        <4> QED BY <1>2, <1>8, <3>1, <4>1
      <3>2. CASE x # d
        <4>1. deq'[x] = deq[x] /\ handled'[x] = handled[x] BY <1>1, <1>2, <3>2 DEF Types
        <4> QED BY <1>1, <1>2, <4>1 DEF QueueInv
      <3> QED BY <3>1, <3>2
    <2> QED BY <2>1 DEF QueueInv
  <1>10. ASSUME NEW f \in issued, f \notin handled[d], d \in f.to PROVE ~Order!Before(f, e)
    <2> SUFFICES ASSUME f.num <= e.after[f.thd] PROVE FALSE
      BY DEF Order!Before
    <2>1. CASE f.thd # e.thd
      <3>1. HeardOf(e.after, e.thd) BY <1>1, <1>8 DEF HeardInv
      <3>2. f \in Range(deq[d]) BY <1>10, <2>1, <3>1 DEF HeardOf, HeardIn
      <3>3. f \in {e} \cup Range(Tail(deq[d]))
        BY <1>1, <1>2, <3>2, RangeTail DEF Types
      <3> QED BY <1>8, <2>1, <3>3 DEF Order!Before
    <2>2. CASE f.thd = e.thd
      <3>1. e.after[e.thd] = e.num - 1 BY <1>1, <1>8 DEF CountInv
      <3>2. f.num < e.num BY <1>5, <1>8, <2>2, <3>1
      <3>3. f \in handled[d] \cup {e} \cup Range(Tail(deq[d]))
        BY <1>2, <1>8, <1>10, <2>2, <3>2 DEF QueueOK
      <3>4. f # e BY <1>5, <1>8, <3>2
      <3> QED BY <1>8, <1>10, <3>3, <3>4 DEF Order!Before
    <2> QED BY <2>1, <2>2
  <1>11. Order!HandleSome(d)
    <2>1. e \in Order!Pending(d) BY <1>8 DEF Order!Pending
    <2>2. Order!Handle(d, e) BY <1>2, <1>10 DEF Order!Handle, Order!Pending
    <2> QED BY <2>1, <2>2 DEF Order!HandleSome
  <1> QED BY <1>6, <1>7, <1>9, <1>11 DEF FlowInv

\* A detector's step: it handles the first event of its queue, or leaves them all.
Handled == \/ UNCHANGED <<issued, handled>>
           \/ \E d \in Detectors : Order!HandleSome(d)

LEMMA DetectorFlow ==
  ASSUME LocalInv, FlowInv, Types', NEW d \in Detectors, DetectorNext(d), EarlyImages = FALSE
  PROVE  FlowInv' /\ Handled
  <1>1. UNCHANGED <<threadVars, buffer, preEvents, unlockedUse, pastVars, boundVars>>
    BY DetectorControl DEF LocalInv
  <1>2. CASE HandleEvent(d)
    <2>1. Handles(d, Head(deq[d])) BY <1>1, <1>2 DEF HandleEvent, Handles
    <2>2. FlowInv' /\ Order!HandleSome(d) BY <2>1, HandleFlow
    <2> QED BY <2>2 DEF Handled
  <1>3. CASE RegisterQueue(d) \/ RegisterLock(d) \/ DeleteEvent(d) \/ ExitDetection(d)
    <2>1. UNCHANGED <<deq, handled>>
      BY <1>3 DEF RegisterQueue, RegisterLock, DeleteEvent, ExitDetection
    <2>2. TrackInv' BY <1>1, <2>1 DEF FlowInv, TrackInv, Sent, Yet
    <2>3. HeardInv' BY <1>1, <2>1 DEF FlowInv, HeardInv, HeardOf
    <2>4. QueueInv' BY <1>1, <2>1 DEF FlowInv, QueueInv
    <2>5. UNCHANGED <<issued, handled>> BY <1>1, <2>1
    <2> QED BY <2>2, <2>3, <2>4, <2>5 DEF FlowInv, Handled
  <1> QED BY <1>2, <1>3 DEF DetectorNext
-----------------------------------------------------------------------------
(* The invariant. *)

LEMMA InitOrder == Init => OrderInv
  <1> SUFFICES ASSUME Init PROVE OrderInv
    OBVIOUS
  <1> USE DEF Init
  <1>1. Types
    <2>1. NoCall \in CallRecs /\ NumDetectors \in Nat \ {0} BY Constants, DispatchAssumption
    <2>2. pc \in [Threads -> PCs] /\ call \in [Threads -> CallRecs] BY <2>1 DEF PCs
    <2>3. /\ child \in [Threads -> Threads \cup {NoThread}]
          /\ event \in [Threads -> Events \cup {NoEvent}] /\ out \in [Threads -> Events \cup {NoEvent}]
          /\ pos \in [Threads -> 0..(NumDetectors - 1)]
          /\ buffer \in [Threads -> [Detectors -> Rings] \cup {NoBuffers}]
      BY <2>1
    <2>4. preEvents \in Seq(Events) /\ deq \in [Detectors -> Seq(Events)] OBVIOUS
    <2>5. dpc \in [Detectors -> DPCs] /\ current \in [Detectors -> Events \cup {NoEvent}] BY DEF DPCs
    <2>6. count \in Clocks /\ published \in Clocks /\ past \in [Threads -> Clocks] BY DEF Clocks
    <2>7. /\ registered \subseteq Detectors /\ locked \subseteq Detectors /\ issued \subseteq Events
          /\ handled \in [Detectors -> SUBSET Events]
      OBVIOUS
    <2> QED BY <2>2, <2>3, <2>4, <2>5, <2>6, <2>7 DEF Types
  <1>2. PlaceInv BY DispatchAssumption DEF PlaceInv, BufferPC
  <1>3. StartInv
    <2>1. \A d \in Detectors : dpc[d] = "spawned" OBVIOUS
    <2>2. /\ registered = {d \in Detectors : dpc[d] # "spawned"}
          /\ locked = {d \in Detectors : dpc[d] \notin {"spawned", "registering"}}
      BY <2>1
    <2>3. \A t \in Threads : pc[t] = IF t = Root THEN "loading" ELSE "unborn" OBVIOUS
    <2>4. \A t \in Threads :
            pc[t] \in IF t = Root THEN {"loading", "announced", "starting"} ELSE {"unborn"}
      BY <2>3
    <2>5. pc[Root] = "loading" BY <2>3, DispatchAssumption
    <2>6. \A t \in Threads : event[t] = NoEvent /\ out[t] = NoEvent OBVIOUS
    <2>7. unlockedUse = FALSE OBVIOUS
    <2> HIDE DEF Init
    <2> QED BY Zenon, <2>2, <2>4, <2>5, <2>6, <2>7 DEF StartInv
  <1>4. ExitInv BY DEF ExitInv
  <1>5. CountInv
    <2>1. \A t \in Threads : Order!IssuedBy(t) = {} BY DEF Order!IssuedBy
    <2>2. \A t \in Threads : IsFiniteSet(Order!IssuedBy(t)) /\ count[t] = Cardinality(Order!IssuedBy(t))
      BY <2>1, FS_EmptySet
    <2>3. \A t, u \in Threads : past[t][u] = 0 /\ count[t] = 0 /\ published[t] = 0 OBVIOUS
    <2> QED BY <2>2, <2>3 DEF CountInv
  <1>6. RingInv BY DEF RingInv, HasBuffers
  <1>7. \A t \in Threads, d \in Detectors : Kept(t, d) = {} BY DEF KeptIn
  <1>8. QuietInv BY <1>7 DEF QuietInv
  <1>9. EventInv BY DEF EventInv
  <1>10. PreInv BY DEF PreInv, PreLeft
  <1>11. \A d \in Detectors : Range(deq[d]) = {} BY DEF Range
  <1>12. TrackInv
    <2>1. Range(preEvents) = {} BY DEF Range
    <2>2. \A t \in Threads, d \in Detectors : Sent(d) = {} BY <1>11 DEF Sent
    <2> QED BY <2>2 DEF TrackInv
  <1>13. HeardInv BY DEF HeardInv, HeardOf, HeardIn
  <1>14. QueueInv
    <2> SUFFICES ASSUME NEW d \in Detectors PROVE QueueOK(deq[d], handled[d], issued, d)
      BY DEF QueueInv
    <2>1. Range(deq[d]) = {} /\ handled[d] = {} /\ Len(deq[d]) = 0 BY <1>11
    <2> QED BY <2>1 DEF QueueOK
  <1> QED BY <1>1, <1>2, <1>3, <1>4, <1>5, <1>6, <1>8, <1>9, <1>10, <1>12, <1>13, <1>14
          DEF OrderInv, ControlInv

LEMMA ThreadLocal ==
  ASSUME LocalInv, NEW t \in Threads, ThreadNext(t), EarlyImages = FALSE
  PROVE  LocalInv'
  <1>1. /\ Types /\ PlaceInv /\ StartInv /\ ExitInv /\ RingInv /\ CountInv /\ QuietInv /\ EventInv
        /\ PreInv
    BY DEF LocalInv, ControlInv
  <1>2. Types' BY <1>1, ThreadTypes
  <1>3. PlaceInv' BY <1>1, <1>2, PlaceStep
  <1>4. StartInv' BY <1>1, StartStep
  <1>5. ExitInv' BY <1>1, ExitStep
  <1>6. CountInv' BY <1>1, <1>2, CountStep
  <1>7. RingInv'
    <2>1. CASE FlushBuffer(t) BY <1>1, <2>1, KeptFlush
    <2>2. CASE \E u \in Units : Access(t, u) BY <1>1, <2>2, KeptAccess
    <2>3. CASE KeepEvent(t) \/ PushEvent(t) \/ Distributes(t) \/ Moves(t) BY <1>1, <2>3, KeptSame
    <2> QED BY <2>1, <2>2, <2>3 DEF ThreadNext, Send, Distributes, Moves
  <1>8. QuietInv' BY <1>1, QuietStep
  <1>9. EventInv' BY <1>1, EventStep
  <1>10. PreInv' BY <1>1, <1>2, PreStep
  <1> QED BY <1>2, <1>3, <1>4, <1>5, <1>6, <1>7, <1>8, <1>9, <1>10 DEF LocalInv, ControlInv

LEMMA DetectorLocal ==
  ASSUME LocalInv, NEW d \in Detectors, DetectorNext(d), EarlyImages = FALSE
  PROVE  LocalInv'
  <1>1. ControlInv' /\ UNCHANGED <<threadVars, buffer, preEvents, unlockedUse, pastVars, boundVars>>
    BY DetectorControl DEF LocalInv
  <1>2. CountInv' BY <1>1 DEF LocalInv, CountInv, Order!IssuedBy
  <1>3. RingInv' BY <1>1 DEF LocalInv, RingInv, HasBuffers
  <1>4. QuietInv' BY <1>1 DEF LocalInv, QuietInv
  <1>5. EventInv' BY <1>1 DEF LocalInv, EventInv, IsBroadcast
  <1>6. PreInv' BY <1>1 DEF LocalInv, PreInv, PreLeft, IsBroadcast
  <1> QED BY <1>1, <1>2, <1>3, <1>4, <1>5, <1>6 DEF LocalInv

LEMMA StutterOrder ==
  ASSUME OrderInv, UNCHANGED vars
  PROVE  OrderInv'
  <1> USE DEF OrderInv, vars
  <1>1. ControlInv'
    BY DEF ControlInv, Types, PlaceInv, StartInv, ExitInv, ProcessExiting
  <1>2. CountInv' /\ RingInv' /\ QuietInv'
    BY DEF CountInv, Order!IssuedBy, RingInv, HasBuffers, QuietInv
  <1>3. EventInv' /\ PreInv' BY DEF EventInv, PreInv, PreLeft, IsBroadcast
  <1>4. TrackInv' BY DEF TrackInv, Sent, Yet
  <1>5. HeardInv' /\ QueueInv' BY DEF HeardInv, HeardOf, QueueInv
  <1> QED BY <1>1, <1>2, <1>3, <1>4, <1>5

\* Every step keeps the invariant and the promise.
LEMMA NextOrder ==
  ASSUME OrderInv, [Next]_vars, EarlyImages = FALSE
  PROVE  OrderInv' /\ [Order!OrderNext]_<<issued, handled>>
  <1>1. LocalInv /\ FlowInv BY DEF OrderInv, LocalInv, FlowInv
  <1>2. ASSUME NEW t \in Threads, ThreadNext(t)
        PROVE  OrderInv' /\ [Order!OrderNext]_<<issued, handled>>
    <2>1. LocalInv' BY <1>1, <1>2, ThreadLocal
    <2>2. FlowInv' /\ Issues
      <3>1. Types' BY <2>1 DEF LocalInv, ControlInv
      <3> QED BY <1>1, <1>2, <3>1, ThreadFlow
    <2> QED BY <2>1, <2>2 DEF OrderInv, LocalInv, FlowInv, Issues, Order!OrderNext
  <1>3. ASSUME NEW d \in Detectors, DetectorNext(d)
        PROVE  OrderInv' /\ [Order!OrderNext]_<<issued, handled>>
    <2>1. LocalInv' BY <1>1, <1>3, DetectorLocal
    <2>2. FlowInv' /\ Handled
      <3>1. Types' BY <2>1 DEF LocalInv, ControlInv
      <3> QED BY <1>1, <1>3, <3>1, DetectorFlow
    <2> QED BY <2>1, <2>2 DEF OrderInv, LocalInv, FlowInv, Handled, Order!OrderNext
  <1>4. CASE UNCHANGED vars BY <1>4, StutterOrder DEF vars
  <1> QED BY <1>2, <1>3, <1>4 DEF Next, ProgramExit

\* Types, control, numbers, buffers and queues fit together in every state.
THEOREM OrderInvariant ==
  ASSUME EarlyImages = FALSE
  PROVE  Spec => []OrderInv
  <1>1. Init => OrderInv BY InitOrder
  <1>2. OrderInv /\ [Next]_vars => OrderInv' BY NextOrder
  <1> QED BY <1>1, <1>2, PTL DEF Spec

\* Parallel detection keeps the promise of EventOrder: a detector handles each event once, and
\* after all those for it that happen before.
THEOREM OrderKept ==
  ASSUME EarlyImages = FALSE
  PROVE  Spec => KeepsOrder
  <1>1. Init => Order!OrderInit BY DEF Init, Order!OrderInit
  <1>2. OrderInv /\ [Next]_vars => [Order!OrderNext]_<<issued, handled>> BY NextOrder
  <1> QED BY <1>1, <1>2, OrderInvariant, PTL DEF Spec, KeepsOrder, Order!OrderSpec
LEMMA LeftAtEnd == OrderInv => NothingLeft
  <1> SUFFICES ASSUME OrderInv, Done, NEW d \in Detectors
               PROVE  handled[d] = {e \in issued : d \in e.to}
    BY DEF NothingLeft
  <1>1. /\ Types /\ PlaceInv /\ ExitInv /\ PreInv /\ TrackInv /\ QueueOK(deq[d], handled[d], issued, d)
    BY DEF OrderInv, ControlInv, QueueInv
  <1>2. deq[d] = <<>> BY <1>1 DEF Done, ExitInv
  <1>3. Sent(d) = handled[d] BY <1>2 DEF Sent, Range
  <1>4. ASSUME NEW t \in Threads PROVE Yet(t, d) = {}
    <2>1. pc[t] \in {"unborn", "ended"} BY DEF Done, ProcessExiting
    <2>2. event[t] = NoEvent /\ out[t] = NoEvent /\ buffer[t] = NoBuffers
      BY <1>1, <2>1 DEF PlaceInv, SendingPC, BufferPC
    <2>3. preEvents = <<>>
      <3>1. pc[Root] \in {"unborn", "ended"} BY DispatchAssumption DEF Done, ProcessExiting
      <3> QED BY <1>1, <3>1 DEF PreInv, PreLeft
    <2>4. Kept(t, d) = {} BY <2>2 DEF KeptIn
    <2>5. Range(preEvents) = {} BY <2>3 DEF Range
    <2> QED BY <2>2, <2>4, <2>5 DEF Yet, YetIn
  <1>5. ASSUME NEW e \in issued, d \in e.to PROVE e \in handled[d]
    <2>1. e.thd \in Threads BY <1>1 DEF Types, Events
    <2>2. e \in Sent(d) \cup Yet(e.thd, d) BY <1>1, <1>5 DEF TrackInv
    <2> QED BY <1>3, <1>4, <2>1, <2>2
  <1>6. \A e \in handled[d] : e \in issued /\ d \in e.to BY <1>1 DEF QueueOK
  <1> QED BY <1>5, <1>6

\* When the tool has ended each detector has handled all its events.
THEOREM AllHandled ==
  ASSUME EarlyImages = FALSE
  PROVE  Spec => []NothingLeft
  BY OrderInvariant, LeftAtEnd, PTL
-----------------------------------------------------------------------------
(* Reference counts. *)

LEMMA RemainingProps ==
  ASSUME Types, NEW e \in issued
  PROVE  Remaining(e) \subseteq Detectors /\ IsFiniteSet(Remaining(e))
         /\ Cardinality(Remaining(e)) \in Nat /\ Cardinality(Remaining(e)) <= NumDetectors
  <1>1. e.to \subseteq Detectors BY DEF Types, Events
  <1>2. Remaining(e) \subseteq Detectors BY <1>1 DEF Remaining, RemainingIn
  <1>3. IsFiniteSet(Detectors) /\ Cardinality(Detectors) = NumDetectors BY Constants
  <1>4. IsFiniteSet(Remaining(e)) /\ Cardinality(Remaining(e)) <= Cardinality(Detectors)
    BY <1>2, <1>3, FS_Subset
  <1> QED BY <1>2, <1>3, <1>4, FS_CardinalityType

\* What has been sent, or is to be, to a detector that has not handled it is not freed.
LEMMA InUseCounted ==
  ASSUME RefInv, NEW e \in issued, NEW d \in e.to,
         e \notin handled[d] \/ (dpc[d] = "deleting" /\ current[d] = e)
  PROVE  e \in DOMAIN ref
  BY DEF RefInv, Remaining, RemainingIn

LEMMA YetCounted ==
  ASSUME OrderInv, RefInv, NEW t \in Threads, NEW d \in Detectors, NEW e \in Yet(t, d)
  PROVE  e \in DOMAIN ref
  <1>1. Types /\ RingInv /\ CountInv /\ EventInv /\ PreInv /\ TrackInv
    BY DEF OrderInv, ControlInv
  <1>2. e \in issued /\ d \in e.to BY <1>1, YetProps
  <1>3. e \notin handled[d] BY <1>1 DEF TrackInv, Sent
  <1> QED BY <1>2, <1>3, InUseCounted

LEMMA NothingFreed == OrderInv /\ RefInv => NoUseAfterFree
  <1> SUFFICES ASSUME OrderInv, RefInv PROVE NoUseAfterFree
    OBVIOUS
  <1>1. /\ Types /\ StartInv /\ PlaceInv /\ RingInv /\ CountInv /\ EventInv /\ PreInv /\ QueueInv
    BY DEF OrderInv, ControlInv
  <1>2. NumDetectors \in Detectors /\ 1 \in Detectors BY DispatchAssumption DEF Detectors
  <1>3. ASSUME NEW t \in Threads, NEW e \in Reachable(t), e # NoEvent PROVE e \in DOMAIN ref
    <2>1. CASE e \in {event[t], out[t]}
      <3>1. pos[t] < NumDetectors BY <1>1, DispatchAssumption DEF Types
      <3>2. e \in Yet(t, NumDetectors) BY <1>3, <2>1, <3>1 DEF Yet, YetIn
      <3> QED BY <1>2, <3>2, YetCounted
    <2>2. CASE e \notin {event[t], out[t]}
      <3>1. PICK d \in DOMAIN buffer[t], i \in 0..MaxEventNum : e = buffer[t][d].vec[i]
        BY <2>2 DEF Reachable
      <3>2. HasBuffers(t) BY <3>1 DEF HasBuffers, NoBuffers
      <3>3. d \in Detectors
        <4>1. buffer[t] \in [Detectors -> Rings] BY <1>1, <3>2 DEF Types, HasBuffers
        <4> QED BY <3>1, <4>1
      <3>4. e \in Kept(t, d) BY <1>1, <1>3, <3>1, <3>2, <3>3 DEF RingInv, RingOK, KeptIn, HasBuffers
      <3>5. e \in Yet(t, d) BY <3>4 DEF Yet, YetIn
      <3> QED BY <3>3, <3>5, YetCounted
    <2> QED BY <2>1, <2>2
  <1>4. ASSUME NEW d \in Detectors, NEW e \in Range(deq[d]) PROVE e \in DOMAIN ref
    <2>1. e \in issued /\ d \in e.to /\ e \notin handled[d] BY <1>1 DEF QueueInv, QueueOK
    <2> QED BY <2>1, InUseCounted
  <1>5. ASSUME NEW d \in Detectors, current[d] # NoEvent PROVE current[d] \in DOMAIN ref
    <2>1. dpc[d] = "deleting" /\ current[d] \in handled[d] BY <1>5 DEF RefInv
    <2>2. current[d] \in issued /\ d \in current[d].to BY <1>1, <2>1 DEF QueueInv, QueueOK
    <2> QED BY <2>1, <2>2, InUseCounted
  <1>6. ASSUME NEW e \in Range(preEvents) PROVE e \in DOMAIN ref
    <2>1. e \in Yet(Root, 1) BY DEF Yet, YetIn
    <2> QED BY <1>2, <2>1, YetCounted, DispatchAssumption
  <1>7. ~unlockedUse BY <1>1 DEF StartInv
  <1> SUFFICES ASSUME NEW e \in (UNION {Reachable(t) : t \in Threads}) \cup Range(preEvents) \cup
                             (UNION {Range(deq[d]) \cup {current[d]} : d \in Detectors}),
                      e # NoEvent
               PROVE  e \in DOMAIN ref
    BY <1>7 DEF NoUseAfterFree
  <1>8. CASE \E t \in Threads : e \in Reachable(t) BY <1>3, <1>8
  <1>9. CASE \E d \in Detectors : e \in Range(deq[d]) \/ e = current[d] BY <1>4, <1>5, <1>9
  <1>10. CASE e \in Range(preEvents) BY <1>6, <1>10
  <1>11. \/ \E t \in Threads : e \in Reachable(t)
         \/ \E d \in Detectors : e \in Range(deq[d]) \/ e = current[d]
         \/ e \in Range(preEvents)
    <2>1. e \in UNION {Reachable(t) : t \in Threads} => \E t \in Threads : e \in Reachable(t)
      OBVIOUS
    <2>2. e \in UNION {Range(deq[d]) \cup {current[d]} : d \in Detectors} =>
            \E d \in Detectors : e \in Range(deq[d]) \/ e = current[d]
      OBVIOUS
    <2> QED BY <2>1, <2>2
  <1> QED BY <1>8, <1>9, <1>10, <1>11
\* A step of a thread that leaves the detectors adds the events N, with counts that are not set,
\* and leaves the counts of what it has sent or sets them to the number of detectors.
CountsNew(N) ==
  /\ issued' = issued \cup N
  /\ \A e \in N : /\ e.to = Detectors \/ Single(e)
                  /\ e \in DOMAIN ref' /\ UnsetIn(handled', deq', out', e)
CountsKept ==
  /\ \A e \in issued : e \in DOMAIN ref => e \in DOMAIN ref'
  /\ \A e \in DOMAIN ref' : ref'[e] \in Int
  /\ \A e \in issued \cap DOMAIN ref' : ~Single(e) /\ ~UnsetIn(handled', deq', out', e) =>
       \/ ~Unset(e) /\ e \in DOMAIN ref /\ ref'[e] = ref[e]
       \/ ref'[e] = NumDetectors

LEMMA RefThread ==
  ASSUME Types, RefInv, UNCHANGED <<handled, dpc, current, reg>>, NEW N, CountsNew(N), CountsKept
  PROVE  RefInv'
  <1> USE DEF CountsNew, CountsKept
  <1>1. \A e : RemainingIn(handled', dpc', current', e) = Remaining(e) BY DEF Remaining
  <1>2. \A e \in issued' : e.to = Detectors \/ Single(e) BY DEF RefInv
  <1>3. \A e \in issued' : Remaining(e) # {} => e \in DOMAIN ref' BY DEF RefInv
  <1>4. ASSUME NEW e \in issued' \cap DOMAIN ref', ~Single(e), ~UnsetIn(handled', deq', out', e)
        PROVE  Cardinality(Remaining(e)) <= ref'[e]
    <2>1. e \in issued BY <1>4
    <2>2. CASE ~Unset(e) /\ e \in DOMAIN ref /\ ref'[e] = ref[e] BY <1>4, <2>1, <2>2 DEF RefInv
    <2>3. CASE ref'[e] = NumDetectors BY <2>1, <2>3, RemainingProps
    <2> QED BY <1>4, <2>1, <2>2, <2>3
  <1>5. ASSUME NEW d \in Detectors
        PROVE  IF dpc'[d] = "deleting"
               THEN /\ current'[d] \in handled'[d] /\ ~Single(current'[d])
                    /\ Cardinality(Remaining(current'[d])) <= reg'[d]
               ELSE current'[d] = NoEvent
    BY DEF RefInv
  <1>6. reg' \in [Detectors -> Int] BY DEF RefInv
  <1> QED BY <1>1, <1>2, <1>3, <1>4, <1>5, <1>6 DEF RefInv, Remaining, Unset

\* An event that is new has not been sent.
LEMMA NewUnset ==
  ASSUME OrderInv, NEW t \in Threads, NEW e, e \in Events, e \notin issued, NEW d \in Detectors,
         NEW P \in Seq(Events), Effect(t, {e}, d, P), out' = out
  PROVE  UnsetIn(handled', deq', out', e)
  <1>1. /\ Types /\ RingInv /\ CountInv /\ EventInv /\ PreInv /\ TrackInv /\ QueueInv
    BY DEF OrderInv, ControlInv
  <1>2. /\ \A f \in Range(P) : f \in issued
        /\ \A x \in Detectors : Sent(x) \subseteq issued
    BY <1>1, SendOld
  <1>3. ASSUME NEW x \in Detectors PROVE e \notin handled'[x] \cup Range(deq'[x])
    BY <1>1, <1>2, SentAfter
  <1>4. ASSUME NEW u \in Threads PROVE out'[u] # e
    <2>1. e # NoEvent BY Constants
    <2>2. out[u] # NoEvent => out[u] \in issued BY <1>1 DEF EventInv, IsBroadcast
    <2> QED BY <2>1, <2>2
  <1> QED BY <1>3, <1>4 DEF UnsetIn

\* What is sent is for one detector.
SentSingle == \A x \in Detectors : \A f \in Range(deq'[x]) : f \in Range(deq[x]) \/ Single(f)

LEMMA KeptSingle ==
  ASSUME Types, RingInv, CountInv, NEW t \in Threads, NEW d \in Detectors, NEW P \in Seq(Events),
         deq' = [deq EXCEPT ![d] = @ \o P], \A f \in Range(P) : f \in Kept(t, d)
  PROVE  SentSingle
  <1> SUFFICES ASSUME NEW x \in Detectors, NEW f \in Range(deq'[x])
               PROVE  f \in Range(deq[x]) \/ Single(f)
    BY DEF SentSingle
  <1>1. deq[x] \in Seq(Events) /\ deq'[x] = (IF x = d THEN deq[x] \o P ELSE deq[x]) BY DEF Types
  <1>2. CASE x = d
    <2>1. Range(deq[x] \o P) = Range(deq[x]) \cup Range(P) BY <1>1, RangeConcat
    <2>2. f \in Range(deq[x]) \/ f \in Kept(t, d) BY <1>1, <1>2, <2>1
    <2> QED BY <2>2, KeptOld DEF Single
  <1> QED BY <1>1, <1>2

\* What Create does to the counts.
LEMMA RefCreate ==
  ASSUME OrderInv, RefInv, NEW t \in Threads, NEW v \in Clocks, NEW e, Makes(e, t, v),
         NEW d \in Detectors, NEW P \in Seq(Events), Effect(t, {e}, d, P), out' = out,
         UNCHANGED <<dpc, current, reg>>, SentSingle
  PROVE  RefInv'
  <1>1. Types /\ CountInv BY DEF OrderInv, ControlInv
  <1>2. e \in Events /\ e.thd = t /\ e.num = count[t] + 1 /\ Create(e) /\ issued' = issued \cup {e}
    BY DEF Makes
  <1>3. ref' = [f \in DOMAIN ref \cup {e} |-> IF f = e THEN 1 ELSE ref[f]] BY <1>2 DEF Create
  <1>4. e \notin issued
    <2>1. \A f \in issued : f.num <= count[f.thd] BY <1>1 DEF CountInv
    <2>2. count[t] \in Nat BY <1>1 DEF Types, Clocks
    <2> QED BY <1>2, <2>1, <2>2
  <1>5. (e.to = Detectors \/ Single(e)) /\ handled' = handled BY DEF Effect
  <1>6. UnsetIn(handled', deq', out', e) BY <1>2, <1>4, NewUnset
  <1>7. ASSUME NEW f \in issued \cap DOMAIN ref', ~Single(f), ~UnsetIn(handled', deq', out', f)
        PROVE  ~Unset(f) /\ f \in DOMAIN ref /\ ref'[f] = ref[f]
    <2>1. f # e BY <1>4
    <2>2. f \in DOMAIN ref /\ ref'[f] = ref[f] BY <1>3, <2>1
    <2>3. \A x \in Detectors : f \in Range(deq'[x]) => f \in Range(deq[x])
      BY <1>7 DEF SentSingle
    <2>4. ~Unset(f) BY <1>5, <1>7, <2>3 DEF UnsetIn, Unset
    <2> QED BY <2>2, <2>4
  <1>8. /\ \A f \in {e} : /\ f.to = Detectors \/ Single(f)
                          /\ f \in DOMAIN ref' /\ UnsetIn(handled', deq', out', f)
        /\ \A f \in issued : f \in DOMAIN ref => f \in DOMAIN ref'
    BY <1>3, <1>5, <1>6
  <1>9. \A f \in DOMAIN ref' : ref'[f] \in Int BY <1>3 DEF RefInv
  <1>10. CountsNew({e}) BY <1>2, <1>8 DEF CountsNew
  <1>11. CountsKept BY <1>7, <1>8, <1>9 DEF CountsKept
  <1> QED BY <1>1, <1>5, <1>10, <1>11, RefThread

\* Steps that make no event and leave the counts.
LEMMA RefKeep ==
  ASSUME OrderInv, RefInv, UNCHANGED <<issued, handled, dpc, current, reg, ref>>,
         \A u \in Threads : out'[u] \in {out[u], NoEvent}, SentSingle
  PROVE  RefInv'
  <1>1. Types BY DEF OrderInv, ControlInv
  <1>2. issued' = issued \cup {} OBVIOUS
  <1>3. ASSUME NEW f \in issued \cap DOMAIN ref', ~Single(f), ~UnsetIn(handled', deq', out', f)
        PROVE  ~Unset(f) /\ f \in DOMAIN ref /\ ref'[f] = ref[f]
    <2>1. \A x \in Detectors : f \in Range(deq'[x]) => f \in Range(deq[x])
      BY <1>3 DEF SentSingle
    <2>2. f # NoEvent BY <1>1, Constants DEF Types
    <2>3. ~Unset(f) BY <1>3, <2>1, <2>2 DEF UnsetIn, Unset
    <2> QED BY <1>3, <2>3
  <1>4. /\ \A f \in {} : /\ f.to = Detectors \/ Single(f)
                         /\ f \in DOMAIN ref' /\ UnsetIn(handled', deq', out', f)
        /\ \A f \in issued : f \in DOMAIN ref => f \in DOMAIN ref'
    OBVIOUS
  <1>5. \A f \in DOMAIN ref' : ref'[f] \in Int BY DEF RefInv
  <1>6. CountsNew({}) BY <1>2, <1>4 DEF CountsNew
  <1>7. CountsKept BY <1>3, <1>4, <1>5 DEF CountsKept
  <1> QED BY Zenon, <1>1, <1>2, <1>6, <1>7, RefThread
\* The first push of an event sets its count.
LEMMA RefPush ==
  ASSUME OrderInv, RefInv, NEW t \in Threads, PushEvent(t)
  PROVE  RefInv'
  <1>1. /\ Types /\ PlaceInv /\ StartInv /\ RingInv /\ CountInv /\ QuietInv /\ EventInv /\ PreInv
    BY DEF OrderInv, ControlInv
  <1> DEFINE e == ToSend(t)
             d == pos[t] + 1
  <1>2. Effect(t, {}, d, <<e>>) /\ d \in Detectors /\ <<e>> \in Seq(Events) BY <1>1, PushEffect
  <1>3. /\ event[t] # NoEvent /\ UNCHANGED <<detectorVars, pastVars>>
        /\ ref' = IF out[t] = NoEvent THEN SetRef(e) ELSE ref
    BY <1>1, PushForm
  <1>4. /\ out'[t] \in {e, NoEvent} /\ \A u \in Threads \ {t} : out'[u] = out[u]
    BY <1>1, PushRest
  <1>5. e \in Events /\ e # NoEvent /\ (out[t] # NoEvent => e = out[t]) BY <1>1, <1>3, ToSendForm
  <1> HIDE DEF e, d
  <1>6. NumDetectors \in Int BY DispatchAssumption
  <1>7. DOMAIN ref' = DOMAIN ref /\ \A f \in DOMAIN ref : ref'[f] = ref[f] \/ ref'[f] = NumDetectors
    BY <1>3 DEF SetRef
  <1>8. ASSUME NEW f \in issued \cap DOMAIN ref', ~UnsetIn(handled', deq', out', f)
        PROVE  (~Unset(f) /\ ref'[f] = ref[f]) \/ ref'[f] = NumDetectors
    <2>1. CASE out[t] = NoEvent /\ f = e BY <1>3, <1>7, <2>1 DEF SetRef
    <2>2. CASE out[t] # NoEvent /\ f = e
      <3>1. ~Unset(f) BY <1>5, <2>2 DEF Unset, UnsetIn
      <3> QED BY <1>3, <2>2, <3>1
    <2>3. CASE f # e
      <3>1. f # NoEvent BY <1>1, Constants DEF Types
      <3>2. \A x \in Detectors : f \in handled'[x] \cup Range(deq'[x]) <=> f \in Sent(x)
        <4>1. f \notin Range(<<e>>) BY <2>3 DEF Range
        <4> QED BY <1>1, <1>2, <4>1, SentAfter
      <3>3. \A u \in Threads : out'[u] = f => out[u] = f BY <1>4, <2>3, <3>1
      <3>4. ~Unset(f) BY <1>8, <3>2, <3>3 DEF Unset, UnsetIn, Sent
      <3> QED BY <1>3, <1>7, <2>3, <3>4 DEF SetRef
    <2> QED BY <2>1, <2>2, <2>3
  <1>9. CountsKept BY <1>6, <1>7, <1>8 DEF CountsKept, RefInv
  <1>10. CountsNew({})
    <2>1. issued' = issued \cup {} BY <1>3
    <2> QED BY <2>1 DEF CountsNew
  <1> QED BY <1>1, <1>3, <1>9, <1>10, RefThread

LEMMA ThreadRef ==
  ASSUME OrderInv, RefInv, NEW t \in Threads, ThreadNext(t), EarlyImages = FALSE
  PROVE  RefInv'
  <1>1. /\ Types /\ PlaceInv /\ StartInv /\ RingInv /\ CountInv /\ QuietInv /\ EventInv /\ PreInv
    BY DEF OrderInv, ControlInv
  <1>2. UNCHANGED <<dpc, current, reg, handled>> BY <1>1, StartStep
  <1>3. CASE PushEvent(t) BY <1>3, RefPush
  <1>4. CASE FlushBuffer(t)
    <2>1. SentSingle
      <3>1. PICK d \in Detectors, P \in Seq(Events) :
              Range(P) = Kept(t, d) /\ deq' = [deq EXCEPT ![d] = @ \o P]
        BY <1>1, <1>4, KeptFlush
      <3> QED BY <1>1, <3>1, KeptSingle
    <2>2. UNCHANGED <<issued, ref, out>> BY <1>4 DEF FlushBuffer
    <2> QED BY <1>2, <2>1, <2>2, RefKeep
  <1>5. CASE KeepEvent(t) \/ Moves(t)
    <2>1. SentSingle
      <3>1. deq' = deq
        BY <1>5 DEF KeepEvent, Moves, ThreadStart, CreateBuffers, CallOriginal, FreeEventBuffer
      <3> QED BY <3>1 DEF SentSingle
    <2>2. UNCHANGED <<issued, ref>>
      BY <1>5 DEF KeepEvent, Moves, ThreadStart, CreateBuffers, CallOriginal, FreeEventBuffer
    <2>3. \A u \in Threads : out'[u] \in {out[u], NoEvent}
      BY <1>1, <1>5
      DEF KeepEvent, Finished, Moves, ThreadStart, CreateBuffers, CallOriginal, FreeEventBuffer, Types
    <2> QED BY <1>2, <2>1, <2>2, <2>3, RefKeep
  <1>6. CASE \E u \in Units : Access(t, u)
    <2>1. PICK u \in Units : Access(t, u) BY <1>6
    <2>2. SentSingle
      <3>1. PICK d \in Detectors, e \in Events, P \in Seq(Events) :
              Takes(t, d, e, P) /\ deq' = [deq EXCEPT ![d] = @ \o P]
        BY <1>1, <2>1, KeptAccess
      <3>2. \A f \in Range(P) : f \in Kept(t, d) BY <3>1 DEF Takes, Range
      <3> QED BY <1>1, <3>1, <3>2, KeptSingle
    <2>3. PICK d \in Detectors, e \in Events, P \in Seq(Events) :
            Makes(e, t, past[t]) /\ IsFor(e, t, d) /\ Effect(t, {e}, d, P)
      BY <1>1, <2>1, AccessEffect
    <2>4. past[t] \in Clocks BY <1>1 DEF Types
    <2>5. out' = out BY <2>1 DEF Access
    <2> QED BY <1>2, <2>2, <2>3, <2>4, <2>5, RefCreate
  <1>7. CASE Distributes(t)
    <2>1. out' = out /\ deq' = deq BY <1>1, <1>7, DistributeForm
    <2>2. SentSingle BY <2>1 DEF SentSingle
    <2>3. PICK v \in Clocks, h \in BOOLEAN : Distribute(t, v, h) BY <1>1, <1>7, DistributeRest
    <2>4. PICK e \in Events :
            Makes(e, t, v) /\ e.to = Detectors /\ event' = [event EXCEPT ![t] = e]
      BY <1>1, <2>3, CreateBroadcast
    <2>5. PICK d \in Detectors, P \in Seq(Events) : Effect(t, {e}, d, P)
      BY <1>1, <1>7, <2>4, DistributeEffect
    <2> QED BY <1>2, <2>1, <2>2, <2>4, <2>5, RefCreate
  <1> QED BY <1>3, <1>4, <1>5, <1>6, <1>7 DEF ThreadNext, Send, Distributes, Moves
\* A detector that has handled e and not deleted it is one of those that remain.
LEMMA DeletingProps ==
  ASSUME OrderInv, RefInv, NEW d \in Detectors, dpc[d] = "deleting", NEW e, e = current[d]
  PROVE  /\ e \in issued /\ d \in e.to /\ e \in handled[d] /\ ~Single(e) /\ d \in Remaining(e)
         /\ e \in DOMAIN ref
  <1>1. e \in handled[d] /\ ~Single(e) BY DEF RefInv
  <1>2. e \in issued /\ d \in e.to BY <1>1 DEF OrderInv, QueueInv, QueueOK
  <1>3. d \in Remaining(e) BY <1>2 DEF Remaining, RemainingIn
  <1> QED BY <1>1, <1>2, <1>3 DEF RefInv

\* A set that loses an element.
LEMMA FewerLeft ==
  ASSUME NEW S, IsFiniteSet(S), NEW x \in S, NEW T, T = S \ {x}
  PROVE  /\ Cardinality(S) \in Nat /\ Cardinality(T) \in Nat /\ Cardinality(T) = Cardinality(S) - 1
         /\ Cardinality(S) <= 1 => T = {}
  <1>1. IsFiniteSet(T) /\ Cardinality(T) = Cardinality(S) - 1 BY FS_RemoveElement
  <1>2. Cardinality(S) \in Nat /\ Cardinality(T) \in Nat BY <1>1, FS_CardinalityType
  <1>3. Cardinality(T) = 0 => T = {} BY <1>1, FS_EmptySet
  <1> QED BY <1>1, <1>2, <1>3

\* A detector that writes the count back, or frees the event, is no longer one that remains.
LEMMA DeleteRef ==
  ASSUME OrderInv, RefInv, NEW d \in Detectors, DeleteEvent(d)
  PROVE  RefInv'
  <1>1. /\ Types /\ current \in [Detectors -> Events \cup {NoEvent}] /\ dpc \in [Detectors -> DPCs]
        /\ issued \subseteq Events
    BY DEF OrderInv, ControlInv, Types
  <1> DEFINE c == current[d]
             Left(e) == RemainingIn(handled', dpc', current', e)
  <1>2. /\ dpc[d] = "deleting" /\ UNCHANGED <<issued, handled, deq, out>>
        /\ current' = [current EXCEPT ![d] = NoEvent] /\ dpc' = [dpc EXCEPT ![d] = "waiting"]
        /\ ref' = IF reg[d] = 1 THEN Freed(c) ELSE [ref EXCEPT ![c] = reg[d] - 1]
        /\ \A x \in Detectors \ {d} : reg'[x] = reg[x]
        /\ reg' \in [Detectors -> Int]
    BY DEF DeleteEvent, RefInv
  <1>3. c \in issued /\ d \in c.to /\ c \in handled[d] /\ d \in Remaining(c) /\ c \in DOMAIN ref
    BY <1>2, DeletingProps
  <1>4. Left(c) = Remaining(c) \ {d} BY <1>1, <1>2, <1>3 DEF Remaining, RemainingIn
  <1>5. \A e \in issued : e # c => Left(e) = Remaining(e)
    <2> SUFFICES ASSUME NEW e \in issued, e # c, NEW x
                 PROVE  x \in Left(e) <=> x \in Remaining(e)
      OBVIOUS
    <2>1. e # NoEvent BY <1>1, Constants
    <2>2. e.to \subseteq Detectors BY <1>1 DEF Events
    <2>3. CASE x = d BY <1>1, <1>2, <2>1, <2>3 DEF Remaining, RemainingIn
    <2>4. CASE x # d BY <1>1, <1>2, <2>2, <2>4 DEF Remaining, RemainingIn
    <2> QED BY <2>3, <2>4
  <1>6. reg[d] \in Int /\ Cardinality(Remaining(c)) <= reg[d] BY <1>2 DEF RefInv
  <1>7. /\ Cardinality(Remaining(c)) \in Nat /\ Cardinality(Left(c)) \in Nat
        /\ Cardinality(Left(c)) = Cardinality(Remaining(c)) - 1
        /\ Cardinality(Remaining(c)) <= 1 => Left(c) = {}
    <2>1. IsFiniteSet(Remaining(c)) BY <1>1, <1>3, RemainingProps
    <2> HIDE DEF c, Left
    <2> QED BY <1>3, <1>4, <2>1, FewerLeft
  <1> HIDE DEF c, Left
  <1>8. /\ \A e \in DOMAIN ref : e # c => e \in DOMAIN ref' /\ ref'[e] = ref[e]
        /\ DOMAIN ref' \subseteq DOMAIN ref
        /\ reg[d] # 1 => c \in DOMAIN ref' /\ ref'[c] = reg[d] - 1
        /\ reg[d] = 1 => c \notin DOMAIN ref'
    BY <1>2, <1>3 DEF Freed
  <1>9. \A e \in issued' : e.to = Detectors \/ Single(e) BY <1>2 DEF RefInv
  <1>10. \A e \in issued' : Left(e) # {} => e \in DOMAIN ref'
    <2> SUFFICES ASSUME NEW e \in issued', Left(e) # {} PROVE e \in DOMAIN ref'
      OBVIOUS
    <2>1. CASE e = c BY <1>6, <1>7, <1>8, <2>1
    <2>2. CASE e # c
      <3>1. e \in issued /\ Remaining(e) # {} BY <1>2, <1>5, <2>2
      <3>2. e \in DOMAIN ref BY <3>1 DEF RefInv
      <3> QED BY <1>8, <2>2, <3>2
    <2> QED BY <2>1, <2>2
  <1>11. \A e \in issued' \cap DOMAIN ref' : ~Single(e) /\ ~UnsetIn(handled', deq', out', e) =>
           Cardinality(Left(e)) <= ref'[e]
    <2> SUFFICES ASSUME NEW e \in issued' \cap DOMAIN ref', ~Single(e),
                        ~UnsetIn(handled', deq', out', e)
                 PROVE  Cardinality(Left(e)) <= ref'[e]
      OBVIOUS
    <2>1. CASE e = c BY <1>6, <1>7, <1>8, <2>1
    <2>2. CASE e # c
      <3>1. e \in issued /\ e \in DOMAIN ref /\ ~Unset(e) /\ ref'[e] = ref[e]
        BY <1>2, <1>8, <2>2 DEF Unset
      <3>2. Cardinality(Remaining(e)) <= ref[e] BY <3>1 DEF RefInv
      <3> QED BY <1>5, <2>2, <3>1, <3>2
    <2> QED BY <2>1, <2>2
  <1>12. \A e \in DOMAIN ref' : ref'[e] \in Int
    <2>1. \A e \in DOMAIN ref : ref[e] \in Int BY DEF RefInv
    <2> QED BY <1>6, <1>8, <2>1
  <1>13. ASSUME NEW x \in Detectors
         PROVE  IF dpc'[x] = "deleting"
                THEN /\ current'[x] \in handled'[x] /\ ~Single(current'[x])
                     /\ Cardinality(Left(current'[x])) <= reg'[x]
                ELSE current'[x] = NoEvent
    <2>1. CASE x = d BY <1>1, <1>2, <2>1
    <2>2. CASE x # d
      <3>1. dpc'[x] = dpc[x] /\ current'[x] = current[x] /\ reg'[x] = reg[x] /\ handled' = handled
        BY <1>1, <1>2, <2>2
      <3>2. CASE dpc[x] = "deleting"
        <4>1. /\ current[x] \in handled[x] /\ ~Single(current[x])
              /\ Cardinality(Remaining(current[x])) <= reg[x] /\ reg[x] \in Int
          BY <3>2 DEF RefInv
        <4>2. current[x] \in issued BY <3>2, DeletingProps
        <4>3. Cardinality(Left(current[x])) <= reg[x]
          <5>1. CASE current[x] = c BY <1>7, <4>1, <5>1
          <5>2. CASE current[x] # c BY <1>5, <4>1, <4>2, <5>2
          <5> QED BY <5>1, <5>2
        <4> QED BY <3>1, <3>2, <4>1, <4>3
      <3>3. CASE dpc[x] # "deleting" BY <3>1, <3>3 DEF RefInv
      <3> QED BY <3>2, <3>3
    <2> QED BY <2>1, <2>2
  <1> QED BY <1>2, <1>9, <1>10, <1>11, <1>12, <1>13 DEF RefInv, Remaining, Unset, Left
\* A detector that handles an event reads its count before it deletes the event, or frees one
\* that is its own.
LEMMA HandleRef ==
  ASSUME OrderInv, RefInv, NEW d \in Detectors, HandleEvent(d)
  PROVE  RefInv'
  <1>1. /\ Types /\ current \in [Detectors -> Events \cup {NoEvent}] /\ dpc \in [Detectors -> DPCs]
        /\ issued \subseteq Events /\ reg \in [Detectors -> Int]
        /\ handled \in [Detectors -> SUBSET Events]
    BY DEF OrderInv, ControlInv, Types, RefInv
  <1> DEFINE c == Head(deq[d])
             Left(e) == RemainingIn(handled', dpc', current', e)
             Deletes == c.handler /\ c.to # {d}
  <1>2. /\ dpc[d] = "waiting" /\ deq[d] # <<>> /\ UNCHANGED <<threadVars, buffer, preEvents, pastVars>>
        /\ deq' = [deq EXCEPT ![d] = Tail(@)] /\ handled' = [handled EXCEPT ![d] = @ \cup {c}]
        /\ IF Deletes
           THEN /\ current' = [current EXCEPT ![d] = c] /\ reg' = [reg EXCEPT ![d] = ref[c]]
                /\ dpc' = [dpc EXCEPT ![d] = "deleting"]
           ELSE UNCHANGED <<current, reg, dpc>>
        /\ ref' = IF c.to = {d} THEN Freed(c) ELSE ref
    BY DEF HandleEvent
  <1>3. c \in issued /\ d \in c.to /\ c \in Range(deq[d]) /\ c \notin handled[d]
    <2>1. deq[d] \in Seq(Events) BY <1>1 DEF Types
    <2>2. c \in Range(deq[d]) BY <1>2, <2>1, RangeTail
    <2> QED BY <2>2 DEF OrderInv, QueueInv, QueueOK
  <1>4. current[d] = NoEvent BY <1>2 DEF RefInv
  <1>5. c \in DOMAIN ref BY <1>3 DEF RefInv, Remaining, RemainingIn
  <1>6. ~Unset(c) BY <1>3 DEF Unset, UnsetIn
  <1> HIDE DEF c
  <1>7. Single(c) => c.to = {d} BY <1>3 DEF Single
  <1>8. \A e \in issued : Left(e) \subseteq Remaining(e)
    <2> SUFFICES ASSUME NEW e \in issued, NEW x \in Left(e) PROVE x \in Remaining(e)
      OBVIOUS
    <2>1. e.to \subseteq Detectors /\ x \in e.to BY <1>1 DEF Events, RemainingIn
    <2>2. CASE x # d BY <1>1, <1>2, <2>1, <2>2 DEF Remaining, RemainingIn
    <2>3. CASE x = d
      <3>1. e \notin handled[d] \/ (dpc'[d] = "deleting" /\ current'[d] = e)
        BY <1>1, <1>2, <2>1, <2>3 DEF RemainingIn
      <3>2. CASE e \notin handled[d] BY <2>1, <2>3, <3>2 DEF Remaining, RemainingIn
      <3>3. CASE dpc'[d] = "deleting" /\ current'[d] = e
        <4>1. e = c BY <1>1, <1>2, <3>3
        <4> QED BY <1>3, <2>3, <4>1 DEF Remaining, RemainingIn
      <3> QED BY <3>1, <3>2, <3>3
    <2> QED BY <2>2, <2>3
  <1>9. c.to = {d} => Left(c) = {}
    <2> SUFFICES ASSUME c.to = {d} PROVE d \notin Left(c)
      BY DEF RemainingIn
    <2>1. c \in handled'[d] /\ dpc'[d] = "waiting" BY <1>1, <1>2
    <2> QED BY <2>1 DEF RemainingIn
  <1> HIDE DEF Left
  <1>10. ASSUME NEW e \in issued
         PROVE  /\ Cardinality(Left(e)) \in Nat /\ Cardinality(Remaining(e)) \in Nat
                /\ Cardinality(Left(e)) <= Cardinality(Remaining(e))
    <2>1. IsFiniteSet(Remaining(e)) BY <1>1, RemainingProps
    <2>2. IsFiniteSet(Left(e)) /\ Cardinality(Left(e)) <= Cardinality(Remaining(e))
      BY <1>8, <2>1, FS_Subset
    <2> QED BY <2>1, <2>2, FS_CardinalityType
  <1>11. \A e \in issued' : e.to = Detectors \/ Single(e) BY <1>2 DEF RefInv
  <1>12. /\ \A e \in DOMAIN ref : e # c \/ c.to # {d} => e \in DOMAIN ref'
         /\ \A e \in DOMAIN ref' : e \in DOMAIN ref /\ ref'[e] = ref[e]
    BY <1>2 DEF Freed
  <1>13. \A e \in issued' : Left(e) # {} => e \in DOMAIN ref'
    <2> SUFFICES ASSUME NEW e \in issued', Left(e) # {} PROVE e \in DOMAIN ref'
      OBVIOUS
    <2>1. e \in issued /\ Remaining(e) # {} BY <1>2, <1>8
    <2>2. e \in DOMAIN ref BY <2>1 DEF RefInv
    <2> QED BY <1>9, <1>12, <2>2
  <1>14. \A e \in issued' \cap DOMAIN ref' : ~Single(e) /\ ~UnsetIn(handled', deq', out', e) =>
           Cardinality(Left(e)) <= ref'[e]
    <2> SUFFICES ASSUME NEW e \in issued' \cap DOMAIN ref', ~Single(e),
                        ~UnsetIn(handled', deq', out', e)
                 PROVE  Cardinality(Left(e)) <= ref'[e]
      OBVIOUS
    <2>1. e \in issued /\ e \in DOMAIN ref /\ ref'[e] = ref[e] BY <1>2, <1>12
    <2>2. ~Unset(e)
      <3>1. Handles(d, c) BY <1>2 DEF Handles, c
      <3>2. \A x \in Detectors : e \in handled'[x] \cup Range(deq'[x]) <=> e \in Sent(x)
        BY <1>1, <3>1, SentSame
      <3>3. out' = out BY <1>2
      <3> QED BY <3>2, <3>3 DEF Unset, UnsetIn, Sent
    <2>3. Cardinality(Remaining(e)) <= ref[e] /\ ref[e] \in Int BY <2>1, <2>2 DEF RefInv
    <2> QED BY <1>10, <2>1, <2>3
  <1>15. \A e \in DOMAIN ref' : ref'[e] \in Int BY <1>12 DEF RefInv
  <1>16. reg' \in [Detectors -> Int]
    <2>1. ref[c] \in Int BY <1>5 DEF RefInv
    <2> QED BY <1>1, <1>2, <2>1
  <1>17. ASSUME NEW x \in Detectors
         PROVE  IF dpc'[x] = "deleting"
                THEN /\ current'[x] \in handled'[x] /\ ~Single(current'[x])
                     /\ Cardinality(Left(current'[x])) <= reg'[x]
                ELSE current'[x] = NoEvent
    <2>1. CASE x = d /\ Deletes
      <3>1. dpc'[d] = "deleting" /\ current'[d] = c /\ reg'[d] = ref[c] /\ c \in handled'[d]
        BY <1>1, <1>2, <2>1
      <3>2. ~Single(c) BY <1>7, <2>1
      <3>3. Cardinality(Remaining(c)) <= ref[c] /\ ref[c] \in Int
        BY <1>3, <1>5, <1>6, <3>2 DEF RefInv
      <3>4. Cardinality(Left(c)) <= ref[c] BY <1>3, <1>10, <3>3
      <3> QED BY <2>1, <3>1, <3>2, <3>4
    <2>2. CASE x = d /\ ~Deletes
      <3>1. dpc'[d] = "waiting" /\ current'[d] = NoEvent BY <1>2, <1>4, <2>2
      <3> QED BY <2>2, <3>1
    <2>3. CASE x # d
      <3>1. dpc'[x] = dpc[x] /\ current'[x] = current[x] /\ reg'[x] = reg[x] /\ handled'[x] = handled[x]
        BY <1>1, <1>2, <2>3
      <3>2. CASE dpc[x] = "deleting"
        <4>1. /\ current[x] \in handled[x] /\ ~Single(current[x])
              /\ Cardinality(Remaining(current[x])) <= reg[x] /\ reg[x] \in Int
          BY <3>2 DEF RefInv
        <4>2. current[x] \in issued BY <3>2, DeletingProps
        <4>3. Cardinality(Left(current[x])) <= reg[x] BY <1>10, <4>1, <4>2
        <4> QED BY <3>1, <3>2, <4>1, <4>3
      <3>3. CASE dpc[x] # "deleting" BY <3>1, <3>3 DEF RefInv
      <3> QED BY <3>2, <3>3
    <2> QED BY <2>1, <2>2, <2>3
  <1> QED BY <1>11, <1>13, <1>14, <1>15, <1>16, <1>17 DEF RefInv, Remaining, Unset, Left
\* A detector that registers or exits has nothing to delete.
LEMMA RegisterRef ==
  ASSUME OrderInv, RefInv, NEW d \in Detectors,
         RegisterQueue(d) \/ RegisterLock(d) \/ ExitDetection(d)
  PROVE  RefInv'
  <1>1. /\ dpc[d] # "deleting" /\ \E p \in DPCs \ {"deleting"} : dpc' = [dpc EXCEPT ![d] = p]
        /\ UNCHANGED <<issued, handled, deq, out, current, reg, ref>>
    BY DEF RegisterQueue, RegisterLock, ExitDetection, DPCs
  <1>2. dpc \in [Detectors -> DPCs] /\ issued \subseteq Events BY DEF OrderInv, ControlInv, Types
  <1>3. \A x \in Detectors : dpc'[x] = "deleting" <=> dpc[x] = "deleting" BY <1>1, <1>2
  <1>4. ASSUME NEW e \in issued PROVE RemainingIn(handled', dpc', current', e) = Remaining(e)
    <2>1. e.to \subseteq Detectors BY <1>2 DEF Events
    <2> QED BY <1>1, <1>3, <2>1 DEF Remaining, RemainingIn
  <1>5. ASSUME NEW x \in Detectors
        PROVE  IF dpc'[x] = "deleting"
               THEN /\ current'[x] \in handled'[x] /\ ~Single(current'[x])
                    /\ Cardinality(RemainingIn(handled', dpc', current', current'[x])) <= reg'[x]
               ELSE current'[x] = NoEvent
    <2>1. CASE dpc[x] = "deleting"
      <3>1. /\ current[x] \in handled[x] /\ ~Single(current[x])
            /\ Cardinality(Remaining(current[x])) <= reg[x]
        BY <2>1 DEF RefInv
      <3>2. current[x] \in issued BY <2>1, DeletingProps
      <3> QED BY <1>1, <1>3, <1>4, <2>1, <3>1, <3>2
    <2>2. CASE dpc[x] # "deleting" BY <1>1, <1>3, <2>2 DEF RefInv
    <2> QED BY <2>1, <2>2
  <1>6. \A e \in issued' : e.to = Detectors \/ Single(e) BY <1>1 DEF RefInv
  <1>7. \A e \in issued' : RemainingIn(handled', dpc', current', e) # {} => e \in DOMAIN ref'
    BY <1>1, <1>4 DEF RefInv
  <1>8. \A e \in issued' \cap DOMAIN ref' : ~Single(e) /\ ~UnsetIn(handled', deq', out', e) =>
          Cardinality(RemainingIn(handled', dpc', current', e)) <= ref'[e]
    BY <1>1, <1>4 DEF RefInv, Unset
  <1>9. (\A e \in DOMAIN ref' : ref'[e] \in Int) /\ reg' \in [Detectors -> Int]
    BY <1>1 DEF RefInv
  <1> QED BY <1>5, <1>6, <1>7, <1>8, <1>9 DEF RefInv, Remaining, Unset

LEMMA InitRef == Init => RefInv
  BY DEF Init, RefInv

LEMMA NextRef ==
  ASSUME OrderInv, RefInv, [Next]_vars, EarlyImages = FALSE
  PROVE  RefInv'
  <1>1. ASSUME NEW t \in Threads, ThreadNext(t) PROVE RefInv' BY <1>1, ThreadRef
  <1>2. ASSUME NEW d \in Detectors, DetectorNext(d) PROVE RefInv'
    BY <1>2, RegisterRef, HandleRef, DeleteRef DEF DetectorNext
  <1>3. CASE UNCHANGED vars
    BY <1>3 DEF vars, RefInv, Remaining, RemainingIn, Unset, UnsetIn
  <1> QED BY <1>1, <1>2, <1>3 DEF Next, ProgramExit

\* No event that can be reached is freed, although decrements of its count can be lost, and no
\* queue is used whose lock is missing.
THEOREM EventsLive ==
  ASSUME EarlyImages = FALSE
  PROVE  Spec => []NoUseAfterFree
  <1>1. Init => RefInv BY InitRef
  <1>2. OrderInv /\ RefInv /\ [Next]_vars => RefInv' BY NextRef
  <1>3. OrderInv /\ RefInv => NoUseAfterFree BY NothingFreed
  <1> QED BY <1>1, <1>2, <1>3, OrderInvariant, PTL DEF Spec
=============================================================================
