----------------------------- MODULE EventOrder -----------------------------
(* What a program under parallel detection promises its detectors: every
   event reaches each detector it is addressed to, once, and only after the
   events addressed to that detector that happen before it.  Queues, buffers
   and locks are not part of the promise; ParallelDetection keeps it. *)
EXTENDS Integers, FiniteSets

CONSTANTS Threads,   \* the program's threads
          Detectors  \* the detection threads

VARIABLES issued,    \* the events the program has produced
          handled    \* [Detectors -> the events the detector has handled]

(* An event is [thd, num, after, to]: the num-th of thread thd, addressed to
   the detectors in to.  after[u] counts the events of u it happens after. *)
Before(e, f) == e.num <= f.after[e.thd]

IssuedBy(t) == {e \in issued : e.thd = t}

OrderInit == issued = {} /\ handled = [d \in Detectors |-> {}]

(* A thread produces its next event, after all its own earlier ones. *)
Issue(e) ==
  /\ e.num = Cardinality(IssuedBy(e.thd)) + 1
  /\ e.after[e.thd] = e.num - 1
  /\ \A t \in Threads : e.after[t] <= Cardinality(IssuedBy(t))
  /\ e.to \subseteq Detectors
  /\ issued' = issued \cup {e}
  /\ UNCHANGED handled

Pending(d) == {e \in issued \ handled[d] : d \in e.to}

(* A detector handles a pending event that no other has to come before. *)
Handle(d, e) ==
  /\ \A f \in Pending(d) : ~Before(f, e)
  /\ handled' = [handled EXCEPT ![d] = @ \cup {e}]
  /\ UNCHANGED issued

HandleSome(d) == \E e \in Pending(d) : Handle(d, e)

(* The new event is the one the step adds. *)
OrderNext == \/ \E e \in issued' \ issued : Issue(e)
             \/ \E d \in Detectors : HandleSome(d)

OrderSpec == OrderInit /\ [][OrderNext]_<<issued, handled>>
=============================================================================
