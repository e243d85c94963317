-------------------------------- MODULE MemBug --------------------------------
(***************************************************************************)
(* Which races are harmful (src/src/race/membug.cc): a race that a static  *)
(* analysis of the statements makes out to be a memory error has a thread  *)
(* that should go later.  A race is given by its unit and its two          *)
(* accesses, [thd, stmt, write], the earlier one first.                    *)
(***************************************************************************)
CONSTANTS
  NullFile,    \* what the analyses found: lines <<statement, flag>>
  DeleteFile,  \* statements that use operator delete
  IndexFile,   \* statements that use a variable as an index
  NoFile,      \* a file that is not there
  GlobalUnits  \* the units of .data and .bss

ReadAndWrite(a, b) == a.write # b.write
Reader(a, b) == IF a.write THEN b ELSE a
Writer(a, b) == IF a.write THEN a ELSE b

\* An analysis whose file cannot be read is left out.
Enabled(file) == file # NoFile

\* Flag 0 marks a statement that writes NULL to a pointer, and 1 a condition on
\* a pointer, which does not dereference it.
NullStmts(flag) == {line[1] : line \in {l \in NullFile : l[2] = flag}}

\* NULL is written to a pointer that the other dereferences.
ValidPtrReadOrWrite(a) == IF a.write THEN a.stmt \in NullStmts(0) ELSE a.stmt \notin NullStmts(1)
NullPtrDeref(a, b) == Enabled(NullFile) /\ ValidPtrReadOrWrite(a) /\ ValidPtrReadOrWrite(b)

\* Of a unit of the heap the first write of a thread counts.  What has been
\* written is kept by MemMeta, and each race has a MemMeta of its own: every
\* write is the first.
UnInitRead(unit) == unit \notin GlobalUnits

\* One of the two deletes what the other uses: the thread that does.
DeletePtr(a) == a.stmt \in DeleteFile
DanglingPtr(a, b) ==
  IF DeletePtr(a) = DeletePtr(b) THEN {} ELSE {x.thd : x \in {y \in {a, b} : DeletePtr(y)}}

BufferOverflow(a, b) == Enabled(IndexFile) /\ Reader(a, b).stmt \in IndexFile

\* The thread that should go later, or none.  No race of the heap between a read
\* and a write gets past UnInitRead; where DanglingPtr is asked it has the last word.
ProcessHarmfulRace(unit, a, b) ==
  IF ReadAndWrite(a, b) /\ (NullPtrDeref(a, b) \/ UnInitRead(unit)) THEN {Reader(a, b).thd}
  ELSE IF (a.write \/ b.write) /\ Enabled(DeleteFile) THEN DanglingPtr(a, b)
  ELSE IF ReadAndWrite(a, b) /\ BufferOverflow(a, b) THEN {Writer(a, b).thd}
  ELSE {}
=============================================================================
