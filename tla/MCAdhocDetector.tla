---------------------------- MODULE MCAdhocDetector ----------------------------
EXTENDS AdhocDetector

\* An instruction, its line, its argument and what follows it.
I(op, line, arg, next) == [op |-> op, line |-> line, arg |-> arg, val |-> 0, next |-> next, zero |-> next]
W(line, arg, next)     == [I("write", line, arg, next) EXCEPT !.val = 1]
A(line, arg, next)     == [I("atomic", line, arg, next) EXCEPT !.val = 1]
If(line, next, zero)   == [I("branch", line, "x", next) EXCEPT !.zero = zero]

\* Where each code starts in the text.
Signaller == 1
Waiter == 8
CallWaiter == 15
Writer == 24
AtomicWriter == 28
Spinner == 30
CallSpinner == 35
CountSpinner == 41
LockWriter == 45
LockSpinner == 50
RwWriter == 56
RwSpinner == 61
Nested == 67
Twice == 76
Idle == 87
FlagWriter == 88

MCText == <<
  \* 1: Signaller, a signaller
  I("lock", 1, "m", 2), W(2, "x", 3), W(3, "f", 4), I("signal", 4, "m", 5),
  I("unlock", 5, "m", 6), W(6, "x", 7), I("exit", 7, "x", 8),
  \* 8: Waiter, a thread that waits in the loop of lines 10-12
  I("lock", 9, "m", 9), I("read", 10, "f", 10), If(10, 12, 11), I("wait", 11, "m", 9),
  I("read", 13, "x", 13), I("unlock", 14, "m", 14), I("exit", 15, "x", 15),
  \* 15: CallWaiter, the condition is a function that reads and counts (lines 70-72)
  I("lock", 19, "m", 16), I("call", 20, "x", 17), I("read", 70, "f", 18),
  W(71, "x", 19), I("return", 72, "x", 20), If(20, 22, 21), I("wait", 21, "m", 16),
  I("unlock", 24, "m", 23), I("exit", 25, "x", 24),
  \* 24: Writer, a writer
  W(81, "x", 25), W(82, "f", 26), W(83, "x", 27), I("exit", 84, "x", 28),
  \* 28: AtomicWriter, by an atomic instruction
  A(86, "f", 29), I("exit", 87, "x", 30),
  \* 30: Spinner, a loop (40-42) that reads once more when it is left
  I("read", 40, "f", 31), If(40, 32, 30), I("read", 41, "f", 33),
  I("read", 44, "x", 34), I("exit", 45, "x", 35),
  \* 35: CallSpinner, a function reads (50-51)
  I("call", 50, "x", 36), I("read", 70, "f", 37), I("return", 72, "x", 38),
  If(50, 39, 35), I("read", 53, "x", 40), I("exit", 54, "x", 41),
  \* 41: CountSpinner, a loop that counts (60-62)
  I("read", 60, "f", 42), W(61, "x", 43), If(60, 44, 41), I("exit", 63, "x", 45),
  \* 45: LockWriter, with a lock
  I("lock", 90, "m", 46), W(91, "f", 47), I("unlock", 92, "m", 48), W(93, "x", 49),
  I("exit", 94, "x", 50),
  \* 50: LockSpinner, (30-33)
  I("lock", 30, "m", 51), I("read", 31, "f", 52), I("unlock", 32, "m", 53),
  If(32, 54, 50), I("read", 35, "x", 55), I("exit", 36, "x", 56),
  \* 56: RwWriter, with a reader-writer lock
  I("wrlock", 96, "m", 57), W(97, "f", 58), I("rwunlock", 98, "m", 59), W(99, "x", 60),
  I("exit", 100, "x", 61),
  \* 61: RwSpinner
  I("rdlock", 30, "m", 62), I("read", 31, "f", 63), I("rwunlock", 32, "m", 64),
  If(32, 65, 61), I("read", 35, "x", 66), I("exit", 36, "x", 67),
  \* 67: Nested, two locks, the signal after one is released
  I("lock", 100, "n", 68), W(101, "x", 69), I("lock", 102, "m", 70), W(103, "f", 71),
  I("unlock", 104, "m", 72), I("broadcast", 105, "m", 73), I("unlock", 106, "n", 74),
  W(107, "x", 75), I("exit", 108, "x", 76),
  \* 76: Twice, two signals
  I("lock", 110, "m", 77), W(111, "x", 78), W(112, "f", 79),
  I("broadcast", 113, "m", 80), W(114, "x", 81), I("unlock", 115, "m", 82),
  I("lock", 116, "m", 83), W(117, "f", 84), I("signal", 118, "m", 85),
  I("unlock", 119, "m", 86), I("exit", 120, "x", 87),
  \* 87: Idle, nothing
  I("exit", 121, "x", 88),
  \* 88: FlagWriter, another writer
  W(122, "f", 89), I("exit", 123, "x", 90)>>

Runs(on, codes) == {[on |-> on, entry |-> [t \in Thread |-> code[t]]] : code \in codes}
MCPrograms ==
  Runs({"condwait"}, {<<Signaller, CallWaiter, Idle>>, <<Nested, Waiter, Idle>>,
                      <<Twice, CallWaiter, Idle>>, <<Twice, Waiter, Waiter>>})
  \cup Runs({"condwait", "spin"}, {<<Signaller, Waiter, Idle>>, <<Nested, CallWaiter, Idle>>})
  \cup Runs({"spin"}, {<<Writer, CallSpinner, Idle>>, <<Writer, CountSpinner, Idle>>,
                       <<LockWriter, LockSpinner, Idle>>, <<RwWriter, RwSpinner, Idle>>,
                       <<Writer, Spinner, FlagWriter>>})
  \cup Runs({"dynamic"}, {<<AtomicWriter, Spinner, Idle>>, <<LockWriter, LockSpinner, Idle>>,
                          <<Writer, Spinner, FlagWriter>>})
  \cup Runs({"dynamic", "spin"}, {<<Writer, Spinner, Idle>>})

MCRanges == {<<40, 42>>}
L(first, last, end, conds) == [first |-> first, last |-> last, end |-> end, conds |-> conds]
MCSpinLoops == {L(40, 42, 45, {40}), L(50, 51, 54, {50}), L(60, 62, 63, {60}), L(30, 33, 36, {31})}
MCCondLoops == {L(10, 12, 15, {10}), L(20, 22, 25, {20})}
=============================================================================
