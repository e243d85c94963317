----------------------------- MODULE AdhocDetector -----------------------------
(***************************************************************************)
(* MultiLock-HB (multilock_hb.cc) with the analyses of module AdhocMetas,  *)
(* on a program given as a text: every callback of detector.cc and         *)
(* multilock_hb.cc that calls into them, in the order they do.             *)
(*                                                                         *)
(* A thread's instruction is two steps, the callback before it and the     *)
(* instruction with the callback after it, and others run between them: a  *)
(* read's callback looks at a value which the read itself may not find any *)
(* more, a write is recorded before it is made.  A callback runs under     *)
(* internal_lock_.                                                         *)
(*                                                                         *)
(* Beside the tool's clocks run those the mutexes and signals of the       *)
(* program give (real), with an epoch per release.                         *)
(***************************************************************************)
EXTENDS AdhocMetas

CONSTANTS
  Programs,   \* [on, entry]: the analyses the knobs switch on, where each
              \* thread starts in Text
  MaxClock    \* bound: the epochs of a thread, in the tool and in truth

ASSUME ClockBound == MaxClock \in Nat

\* Control stays in the text, which only an exit ends; what is read is memory, and
\* what is waited with is a lock.
ASSUME TextAssumption ==
  /\ \A i \in DOMAIN Text :
       /\ Text[i].op # "exit" => {Text[i].next, Text[i].zero} \subseteq DOMAIN Text
       /\ Text[i].op = "read" => Text[i].arg \in Addr
       /\ Text[i].op = "wait" => Text[i].arg \in Lock
  /\ \A p \in Programs : p.entry \in [Thread -> DOMAIN Text]

VARIABLES
  d,                    \* all the detector knows
  pc, phase,            \* the thread's instruction, and how far it is with it
  reg, mem,             \* what it has read last; the memory
  owner, readers,       \* of each lock
  real, realLock,       \* the clocks the program's own synchronisation gives
  made                  \* accesses: [thd, epoch in the tool, epoch in truth]

programVars == <<pc, phase, reg, mem, owner, readers, real, realLock>>
vars        == <<d, programVars, made>>

Phase == {"before", "after", "asleep", "woken", "done"}

MaxId(S) == CHOOSE u \in S : \A v \in S : v <= u

Init ==
  /\ \E p \in Programs :
       /\ pc = p.entry
       /\ d = [on |-> p.on, crashed |-> FALSE, protected |-> {}, races |-> {},
               vc |-> [t \in Thread |-> Increment(Zero, t)],
               mutexVc |-> [l \in Lock |-> Zero],
               waitTable |-> [t \in Thread |-> Zero], signalTable |-> [t \in Thread |-> Zero],
               ls |-> [t \in Thread |-> {}], rdls |-> [t \in Thread |-> {}],
               ml |-> [a \in Addr |-> [k \in Kind |-> [t \in Thread |-> {}]]],
               inst |-> [a \in Addr |-> [k \in Kind |-> [t \in Thread |-> NoInst]]],
               reads |-> [t \in Thread |-> << >>], writes |-> [a \in Addr |-> None],
               syncInsts |-> {},
               spin |-> [t \in Thread |-> None], spinCall |-> [t \in Thread |-> NoCall],
               stack |-> [t \in Thread |-> << >>], signals |-> [t \in Thread |-> << >>],
               wrote |-> {}, cw |-> [t \in Thread |-> None], cwCall |-> [t \in Thread |-> None]]
  /\ phase = [t \in Thread |-> "before"]
  /\ reg = [t \in Thread |-> 0] /\ mem = [a \in Addr |-> 0]
  /\ owner = [l \in Lock |-> NoThread] /\ readers = [l \in Lock |-> {}]
  /\ real = [t \in Thread |-> Increment(Zero, t)] /\ realLock = [l \in Lock |-> Zero]
  /\ made = {}

-----------------------------------------------------------------------------
(* MultiLock-HB's checks.  ml[a][k][u] are the pairs of clock and lockset    *)
(* of u's accesses of kind k, inst[a][k][u] the last instruction.            *)

Protecting(c, t, k) == IF k = "R" THEN c.ls[t] \cup c.rdls[t] ELSE c.ls[t]

\* update_on_read, update_on_write.
Updated(c, t, a, k) ==
  LET new == [clk |-> c.vc[t][t], locks |-> Protecting(c, t, k)]
      redundant == \E j \in {k, "W"} : \E p \in c.ml[a][j][t] : p.clk = new.clk /\ p.locks \subseteq new.locks
      kept(S)   == {p \in S : ~(p.clk <= new.clk /\ new.locks \subseteq p.locks)} IN
  IF redundant THEN c.ml
  ELSE [c.ml EXCEPT ![a] = [j \in Kind |->
          IF j = "W" /\ k = "R" THEN @[j]
          ELSE [@[j] EXCEPT ![t] = kept(@) \cup (IF j = k THEN {new} ELSE {})]]]

\* The pairs of u's accesses of kind j that are concurrent with t.
Ahead(c, t, u, a, j) == {p \in c.ml[a][j][u] : p.clk > c.vc[t][u]}
Others(c, t, a, j)   == {u \in Thread \ {t} : Ahead(c, t, u, a, j) # {}}
Common(c, t, u, a, j, k) == \E p \in Ahead(c, t, u, a, j) : p.locks \cap Protecting(c, t, k) # {}

Reports(c, t, i, a, k) ==
  UNION {{Race(Event(u, c.inst[a][j][u], j), Event(t, i, k)) :
            u \in {v \in Others(c, t, a, j) :
                     \E p \in Ahead(c, t, v, a, j) : p.locks \cap Protecting(c, t, k) = {}}} :
         j \in IF k = "R" THEN {"W"} ELSE Kind}

Noted(c, t, i, a, k) ==
  [c EXCEPT !.ml = Updated(c, t, a, k), !.inst[a][k][t] = i, !.races = @ \cup Reports(c, t, i, a, k)]

\* ProcessRead and ProcessWrite: a concurrent writer is what a thread in a
\* spinning loop, whatever it reads, waits for.
MlRead(c, t, i, a) ==
  LET us == Others(c, t, a, "W") IN
  IF us = {} THEN Noted(c, t, i, a, "R")
  ELSE SpinWriter(Noted(c, t, i, a, "R"), t, MaxId(us), c.inst[a]["W"][MaxId(us)],
                  \E u \in us : Common(c, t, u, a, "W", "R"))

MlWrite(c, t, i, a) ==
  [Noted(c, t, i, a, "W") EXCEPT !.spin = [u \in Thread |->
     IF u \in Others(c, t, a, "R")
     THEN SpinWriter(c, u, t, i, Common(c, t, u, a, "R", "W")).spin[u] ELSE @[u]]]

-----------------------------------------------------------------------------
(* The callbacks. *)

Op(t)  == Text[pc[t]].op
Arg(t) == Text[pc[t]].arg

At(t, ops) == phase[t] = "before" /\ Op(t) \in ops /\ ~d.crashed
              /\ d.vc[t][t] < MaxClock /\ real[t][t] < MaxClock

Called(t) == phase' = [phase EXCEPT ![t] = "after"]
             /\ UNCHANGED <<pc, reg, mem, owner, readers, real, realLock>>

Syncs(c, t, i) == CondWaitSync(SpinSync(c, t, i), t, i)

\* The accesses made, as the waiting analysis' property wants them.
Make(t) ==
  made' = IF On(d, "condwait") THEN made \cup {<<t, d'.vc[t][t], real[t][t]>>} ELSE made

BeforeMemRead(t) ==
  LET i == pc[t]
      a == Arg(t)
      spin(astray) == SpinRead(SpinSync(AdhocRead(d, t, i, a, mem[a], astray), t, i), t, i, a)
      read(astray, found) ==
        MlRead(CondWaitRead(CondWaitSync(spin(astray), t, i), t, i, a, found), t, i, a) IN
  /\ At(t, {"read"})
  /\ \E astray, found \in BOOLEAN :
       d' = [read(astray, found) EXCEPT !.races = AdhocForget(d, @, t, i, a, mem[a], astray)]
  /\ Make(t) /\ Called(t)

BeforeMemWrite(t) ==
  LET i == pc[t]
      a == Arg(t)
      spin == SpinWrite(SpinSync(AddOrUpdateWriteMeta(d, t, i, a), t, i), t, a) IN
  /\ At(t, {"write"})
  /\ \E found \in BOOLEAN :
       d' = MlWrite(CondWaitWrite(SignalWrite(CondWaitSync(spin, t, i), t, a), t, found), t, i, a)
  /\ Make(t) /\ Called(t)

\* An access by an atomic instruction is not processed; before a lock is taken,
\* and before a return, there is nothing but the syncs.
BeforeOther(t) ==
  /\ At(t, {"atomic", "lock", "rdlock", "wrlock", "return"})
  /\ d' = Syncs(d, t, pc[t])
  /\ UNCHANGED made /\ Called(t)

\* The clock moves on for the spinning loops only.
BeforePthreadMutexUnlock(t) ==
  LET s == SpinSync(d, t, pc[t])
      c == IF On(d, "spin") THEN [s EXCEPT !.vc[t] = Increment(@, t)] ELSE s IN
  /\ At(t, {"unlock"})
  /\ d' = [SignalUnlock(CondWaitSync(c, t, pc[t]), t, Arg(t)) EXCEPT !.ls[t] = @ \ {Arg(t)}]
  /\ UNCHANGED made /\ Called(t)

BeforePthreadRwlockUnlock(t) ==
  LET c == SignalUnlock(Syncs(d, t, pc[t]), t, Arg(t)) IN
  /\ At(t, {"rwunlock"})
  /\ d' = [c EXCEPT !.ls[t] = @ \ {Arg(t)}, !.rdls[t] = @ \ {Arg(t)}]
  /\ UNCHANGED made /\ Called(t)

\* BeforePthreadCondSignal and Broadcast, with ProcessNotify.
BeforePthreadCondSignal(t) ==
  LET c       == SignalActive(SpinSync(d, t, pc[t]), t)
      waiting == {u \in Thread : c.waitTable[u] # Zero}
      all     == [u \in Thread |-> MaxId({c.vc[t][u]} \cup {c.waitTable[w][u] : w \in waiting})] IN
  /\ At(t, {"signal", "broadcast"})
  /\ d' = [c EXCEPT !.signalTable = [u \in Thread |-> IF u \in waiting THEN all ELSE @[u]],
                    !.vc[t] = Increment(all, t)]
  /\ UNCHANGED made /\ Called(t)

\* With ProcessUnlock and ProcessPreWait.
BeforePthreadCondWait(t) ==
  LET c == CondWaitForget(SpinSync(d, t, pc[t]), t) IN
  /\ At(t, {"wait"})
  /\ d' = [c EXCEPT !.mutexVc[Arg(t)] = c.vc[t], !.waitTable[t] = Increment(c.vc[t], t),
                    !.vc[t] = Increment(Increment(@, t), t)]
  /\ UNCHANGED made /\ Called(t)

\* A call on the line of a condition.
BeforeCall(t) ==
  LET i == pc[t]
      here(loops, entry) == IF Line(i) \in Conds(loops) THEN [inst |-> i, flag |-> TRUE] ELSE entry
      s == SpinSync(d, t, i)
      c == CondWaitSync([s EXCEPT !.spinCall[t] = here(SpinLoops, @)], t, i) IN
  /\ At(t, {"call"})
  /\ d' = [c EXCEPT !.cwCall[t] = here(CondLoops, @)]
  /\ UNCHANGED made /\ Called(t)

ThreadExit(t) ==
  /\ At(t, {"exit"})
  /\ d' = Syncs(d, t, NoInst)
  /\ phase' = [phase EXCEPT ![t] = "done"]
  /\ UNCHANGED <<pc, reg, mem, owner, readers, real, realLock, made>>

-----------------------------------------------------------------------------
(* The instructions, with the callbacks after them. *)

\* The instruction is done; the real clock moves on with a release.
Go(t, next) == pc' = [pc EXCEPT ![t] = next] /\ phase' = [phase EXCEPT ![t] = "before"]
Done(t, ops) == phase[t] = "after" /\ Op(t) \in ops /\ ~d.crashed /\ Go(t, Text[pc[t]].next)

Acquire(t, l) == real' = [real EXCEPT ![t] = Join(@, realLock[l])] /\ UNCHANGED realLock
Release(t, l) ==
  /\ realLock' = [realLock EXCEPT ![l] = Join(@, real[t])]
  /\ real' = [real EXCEPT ![t] = Increment(@, t)]

RealRead(t) ==
  /\ Done(t, {"read"})
  /\ reg' = [reg EXCEPT ![t] = mem[Arg(t)]]
  /\ UNCHANGED <<d, mem, owner, readers, real, realLock, made>>

RealWrite(t) ==
  /\ Done(t, {"write", "atomic"})
  /\ mem' = [mem EXCEPT ![Arg(t)] = Text[pc[t]].val]
  /\ UNCHANGED <<d, reg, owner, readers, real, realLock, made>>

\* The end of a loop, which no callback sees.
Branch(t) ==
  /\ phase[t] = "before" /\ Op(t) = "branch" /\ ~d.crashed
  /\ Go(t, IF reg[t] = 0 THEN Text[pc[t]].zero ELSE Text[pc[t]].next)
  /\ UNCHANGED <<d, reg, mem, owner, readers, real, realLock, made>>

Pushed(c, t, l) == IF On(c, "condwait") THEN [c EXCEPT !.stack[t] = Append(@, l)] ELSE c

\* AfterPthreadMutexLock, AfterPthreadRwlockWrlock.
RealLock(t) ==
  LET l == Arg(t) IN
  /\ Done(t, {"lock", "wrlock"})
  /\ owner[l] = NoThread /\ readers[l] = {}
  /\ owner' = [owner EXCEPT ![l] = t]
  /\ d' = [Pushed(d, t, l) EXCEPT !.ls[t] = @ \cup {l}]
  /\ Acquire(t, l)
  /\ UNCHANGED <<reg, mem, readers, made>>

\* AfterPthreadRwlockRdlock does not tell the waiting analysis.
RealRdlock(t) ==
  LET l == Arg(t) IN
  /\ Done(t, {"rdlock"})
  /\ owner[l] = NoThread
  /\ readers' = [readers EXCEPT ![l] = @ \cup {t}]
  /\ d' = [d EXCEPT !.rdls[t] = @ \cup {l}]
  /\ Acquire(t, l)
  /\ UNCHANGED <<reg, mem, owner, made>>

RealUnlock(t) ==
  LET l == Arg(t) IN
  /\ Done(t, {"unlock", "rwunlock"})
  /\ owner' = [owner EXCEPT ![l] = IF @ = t THEN NoThread ELSE @]
  /\ readers' = [readers EXCEPT ![l] = @ \ {t}]
  /\ Release(t, l)
  /\ UNCHANGED <<d, reg, mem, made>>

RealSignal(t) ==
  LET asleep == {u \in Thread : phase[u] = "asleep"} IN
  /\ phase[t] = "after" /\ Op(t) \in {"signal", "broadcast"} /\ ~d.crashed
  /\ pc' = [pc EXCEPT ![t] = Text[pc[t]].next]
  /\ \E woken \in SUBSET asleep :
       /\ IF Op(t) = "broadcast" THEN woken = asleep
          ELSE Cardinality(woken) = (IF asleep = {} THEN 0 ELSE 1)
       /\ phase' = [u \in Thread |-> IF u = t THEN "before" ELSE IF u \in woken THEN "woken"
                                     ELSE phase[u]]
       /\ real' = [u \in Thread |-> IF u = t THEN Increment(real[t], t)
                                    ELSE IF u \in woken THEN Join(real[u], real[t]) ELSE real[u]]
  /\ UNCHANGED <<d, reg, mem, owner, readers, realLock, made>>

RealWait(t) ==
  /\ phase[t] = "after" /\ Op(t) = "wait" /\ ~d.crashed
  /\ phase' = [phase EXCEPT ![t] = "asleep"]
  /\ owner' = [owner EXCEPT ![Arg(t)] = NoThread]
  /\ Release(t, Arg(t))
  /\ UNCHANGED <<d, pc, reg, mem, readers, made>>

\* A wait may end by itself.
Wake(t) ==
  /\ phase[t] = "asleep" /\ ~d.crashed
  /\ phase' = [phase EXCEPT ![t] = "woken"]
  /\ UNCHANGED <<d, pc, reg, mem, owner, readers, real, realLock, made>>

\* AfterPthreadCondWait: ProcessPostWait and ProcessLock.
RealReturn(t) ==
  LET m == Arg(t) IN
  /\ phase[t] = "woken" /\ ~d.crashed
  /\ owner[m] = NoThread
  /\ owner' = [owner EXCEPT ![m] = t]
  /\ d' = [d EXCEPT !.vc[t] = Join(Join(@, d.signalTable[t]), d.mutexVc[m]),
                    !.waitTable[t] = Zero, !.signalTable[t] = Zero]
  /\ Acquire(t, m) /\ Go(t, Text[pc[t]].next)
  /\ UNCHANGED <<reg, mem, readers, made>>

\* A call and a return have no more to do; after a return the call made in a
\* spinning loop's condition is forgotten.  (RemoveCondWaitCalledFunc erases the
\* entry only if there is none.)
RealCall(t) ==
  /\ Done(t, {"call", "return"})
  /\ d' = IF Op(t) = "return" THEN [d EXCEPT !.spinCall[t] = NoCall] ELSE d
  /\ UNCHANGED <<reg, mem, owner, readers, real, realLock, made>>

-----------------------------------------------------------------------------
Callbacks(t) ==
  \/ BeforeMemRead(t) \/ BeforeMemWrite(t) \/ BeforeOther(t) \/ BeforePthreadMutexUnlock(t)
  \/ BeforePthreadRwlockUnlock(t) \/ BeforePthreadCondSignal(t) \/ BeforePthreadCondWait(t)
  \/ BeforeCall(t) \/ ThreadExit(t)

Instructions(t) ==
  \/ RealRead(t) \/ RealWrite(t) \/ Branch(t) \/ RealLock(t) \/ RealRdlock(t) \/ RealUnlock(t)
  \/ RealSignal(t) \/ RealWait(t) \/ Wake(t) \/ RealReturn(t) \/ RealCall(t)

Next == \E t \in Thread : Callbacks(t) \/ Instructions(t)

Spec == Init /\ [][Next]_vars

-----------------------------------------------------------------------------
(* Properties. *)

\* A thread that an edge was taken from is in a new epoch, so that what it does
\* next is not taken to be ordered before the reader: nobody else's clock holds
\* the epoch a thread is in.  The one exception is a spinning loop whose write had
\* a common lock with the read: loop.cc then leaves the writer's clock alone, and
\* only the unlock after the write ends its epoch.
EpochsEnd ==
  \A t \in Thread : \A u \in Thread \ {t} :
    d.vc[t][u] < d.vc[u][u] \/ <<u, d.vc[u][u]>> \in d.protected

\* The edges of the waiting analysis are real: the accesses of u in an epoch
\* that t has learnt are ordered before t by the program's mutexes and signals,
\* although t learns it long after it read the condition, from a clock taken
\* long before (cond_wait.cc, ProcessSignalCondWaitSync).
WaitEdgesReal ==
  \A m \in made : \A t \in Thread \ {m[1]} : m[2] <= d.vc[t][m[1]] => m[3] <= real[t][m[1]]

\* The lock the waiting analysis takes for the latest one of a thread between
\* two instructions is one it holds: detector.cc and cond_wait.cc say that the
\* thread should be protected by it.
LatestLockHeld ==
  \A t \in Thread : phase[t] = "before" /\ d.stack[t] # << >> => owner[Last(d.stack[t])] = t
=============================================================================
