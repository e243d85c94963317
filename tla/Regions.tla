------------------------------ MODULE Regions ------------------------------
(***************************************************************************)
(* The memory a Detector watches, and what it remembers of it: a            *)
(* RegionFilter, the regions that allocations and the sections of images    *)
(* announce, and tables of metas by unit of memory, all of them under       *)
(* internal_lock_.  malloc, realloc and free are steps of the threads, with *)
(* a callback before or after them, so that one thread is handed what       *)
(* another has just given back before either has come out of its wrapper.   *)
(* An address is a number, and an allocation (a block of the heap or a      *)
(* section of an image) has a number of its own, so that memory used again  *)
(* can be told from what was there before.                                  *)
(***************************************************************************)
EXTENDS Integers, FiniteSets, Functions

CONSTANTS
  Thread,
  UnitSize,      \* unit_size_: the bytes of a unit
  Blocks,        \* what malloc can return: records of start and size
  Sections,      \* .data and .bss of an image
  AccessSizes,   \* the sizes of accesses
  MaxAllocs      \* bound on the number of allocations

ASSUME UnitAssumption == UnitSize \in Nat \ {0}

\* The allocator aligns blocks to more than a unit; no address is null.
ASSUME BlocksAssumption ==
  /\ \A b \in Blocks : b.start % UnitSize = 0
  /\ \A b \in Blocks \cup Sections : b.start \in Nat \ {0} /\ b.size \in Nat \ {0}

ASSUME SizesAssumption == AccessSizes \subseteq Nat \ {0}

VARIABLES
  regions,   \* addrRegionMap: start -> size
  metas,     \* meta_table_: unit -> the allocations whose accesses it remembers
  syncMetas, \* mutex_meta_table_ and those of the other synchronisation objects
  memory,    \* allocation -> block, as the system has it
  pc,        \* where a thread is in malloc, realloc or free
  arg,       \* the allocation it is about
  image,     \* is the image mapped, and its sections announced?
  allocs,    \* how many allocations there have been
  accessed,  \* <<allocation, unit>> of every access the program made to what is there
  locked     \* and of every synchronisation object it used there

regionVars == <<regions, metas, syncMetas>>
programVars == <<memory, pc, arg, image, allocs>>
pastVars == <<accessed, locked>>
vars == <<regionVars, programVars, pastVars>>

-----------------------------------------------------------------------------
(* Memory. *)

Bytes(b) == b.start .. b.start + b.size - 1

UnitDownAlign(a) == a - (a % UnitSize)

\* The sections of an image do not overlap, and the heap has no page of an image.
ASSUME SectionsAssumption ==
  /\ IsFiniteSet(Sections)
  /\ \A r, s \in Sections : r # s => Bytes(r) \cap Bytes(s) = {}
  /\ \A s \in Sections, b \in Blocks : \A x \in Bytes(s), y \in Bytes(b) :
       UnitDownAlign(x) # UnitDownAlign(y)

UnitUpAlign(a) == UnitDownAlign(a + UnitSize - 1)

\* The units a loop visits that starts and ends at these addresses.
UnitsBetween(start, end) == {a \in start .. end - 1 : (a - start) % UnitSize = 0}

Units(addr, size) == UnitsBetween(UnitDownAlign(addr), UnitUpAlign(addr + size))

AllBytes == UNION {Bytes(b) : b \in Blocks \cup Sections}
AllUnits == {UnitDownAlign(a) : a \in AllBytes}

\* The function f, with g over it.
With(f, g) == [a \in DOMAIN f \cup DOMAIN g |-> IF a \in DOMAIN g THEN g[a] ELSE f[a]]

-----------------------------------------------------------------------------
(* RegionFilter. *)

AddRegions(map, blocks) ==
  With(map, [a \in {b.start : b \in blocks} |-> (CHOOSE b \in blocks : b.start = a).size])

RegionSize(map, addr) == IF addr \in DOMAIN map THEN map[addr] ELSE 0

RemoveRegions(map, addrs) == Restrict(map, DOMAIN map \ addrs)

\* Only the last region that starts at or before the address is looked at.
Filter(map, addr) ==
  ~ \E a \in DOMAIN map :
      /\ a <= addr /\ \A b \in DOMAIN map : b <= addr => b <= a
      /\ addr < a + map[a]

-----------------------------------------------------------------------------
(* The tables. *)

GetMeta(table, units, alloc) == [u \in DOMAIN table |-> IF u \in units THEN table[u] \cup {alloc} ELSE table[u]]

Forget(table, units) == [u \in DOMAIN table |-> IF u \in units THEN {} ELSE table[u]]

AllocAddrRegions(blocks) ==
  /\ regions' = AddRegions(regions, blocks)
  /\ UNCHANGED <<metas, syncMetas>>

UnitsOfRegions(addrs) == UNION {Units(a, RegionSize(regions, a)) : a \in addrs}

\* Mutant: the synchronisation objects are kept, as Verifier::FreeAddrRegion does.
FreeMemoryRegions(addrs) ==
  /\ regions' = RemoveRegions(regions, addrs)
  /\ metas' = Forget(metas, UnitsOfRegions(addrs))
  /\ UNCHANGED syncMetas

\* The metas of the units, and the mutexes, condition variables, barriers and
\* semaphores at them.
FreeAddrRegions(addrs) ==
  /\ regions' = RemoveRegions(regions, addrs)
  /\ metas' = Forget(metas, UnitsOfRegions(addrs))
  /\ syncMetas' = Forget(syncMetas, UnitsOfRegions(addrs))

-----------------------------------------------------------------------------
(* The heap. *)

NoAlloc == -1

Disjoint(b, allocations) == \A a \in allocations : Bytes(memory[a]) \cap Bytes(b) = {}

Moved(t, from, to) == pc[t] = from /\ pc' = [pc EXCEPT ![t] = to]

\* Allocations the program may use: announced, and nobody is freeing them.
Usable ==
  {a \in DOMAIN memory : IF memory[a] \in Sections THEN image = "loaded"
                         ELSE \A t \in Thread : pc[t] # "program" => arg[t] # a}

UsableBlocks == {a \in Usable : memory[a] \in Blocks}

\* The allocations come to their end.
Ended(as) ==
  /\ accessed' = {p \in accessed : p[1] \notin as}
  /\ locked' = {p \in locked : p[1] \notin as}

Idle(t) == arg' = [arg EXCEPT ![t] = NoAlloc]

NewAlloc(t, b) ==
  /\ allocs < MaxAllocs
  /\ allocs' = allocs + 1
  /\ arg' = [arg EXCEPT ![t] = allocs]

RealMalloc(t) ==
  /\ Moved(t, "program", "malloced")
  /\ \E b \in Blocks :
       /\ Disjoint(b, DOMAIN memory)
       /\ NewAlloc(t, b)
       /\ memory' = With(memory, [a \in {allocs} |-> b])
  /\ UNCHANGED <<regionVars, image, pastVars>>

\* AfterMalloc and AfterCalloc.
AfterMalloc(t) ==
  /\ Moved(t, "malloced", "program")
  /\ AllocAddrRegions({memory[arg[t]]})
  /\ Idle(t)
  /\ UNCHANGED <<memory, image, allocs, pastVars>>

BeforeFree(t) ==
  /\ Moved(t, "program", "freeing")
  /\ \E a \in UsableBlocks :
       /\ arg' = [arg EXCEPT ![t] = a]
       /\ FreeAddrRegions({memory[a].start})
  /\ UNCHANGED <<memory, image, allocs, pastVars>>

RealFree(t) ==
  /\ Moved(t, "freeing", "program")
  /\ memory' = Restrict(memory, DOMAIN memory \ {arg[t]})
  /\ Ended({arg[t]}) /\ Idle(t)
  /\ UNCHANGED <<regionVars, image, allocs>>

\* Of a block, or of the null pointer, for which there is nothing to free.
BeforeRealloc(t) ==
  /\ Moved(t, "program", "reallocing")
  /\ \E a \in UsableBlocks \cup {NoAlloc} :
       /\ arg' = [arg EXCEPT ![t] = a]
       /\ FreeAddrRegions({memory[b].start : b \in {a} \ {NoAlloc}})
  /\ UNCHANGED <<memory, image, allocs, pastVars>>

\* The block grows or shrinks in its place, or moves to where nothing is yet.
RealRealloc(t) ==
  /\ Moved(t, "reallocing", "realloced")
  /\ LET others == DOMAIN memory \ {arg[t]} IN
     \E b \in Blocks :
       /\ Disjoint(b, others)
       /\ arg[t] # NoAlloc => Disjoint(b, {arg[t]}) \/ b.start = memory[arg[t]].start
       /\ NewAlloc(t, b)
       /\ memory' = With(Restrict(memory, others), [a \in {allocs} |-> b])
  /\ Ended({arg[t]})
  /\ UNCHANGED <<regionVars, image>>

AfterRealloc(t) ==
  /\ Moved(t, "realloced", "program")
  /\ AllocAddrRegions({memory[arg[t]]})
  /\ Idle(t)
  /\ UNCHANGED <<memory, image, allocs, pastVars>>

-----------------------------------------------------------------------------
(* Images. *)

\* The sections of the image get the next numbers.
MapImage ==
  /\ image = "none" /\ image' = "mapped"
  /\ Sections # {} /\ allocs + Cardinality(Sections) <= MaxAllocs
  /\ allocs' = allocs + Cardinality(Sections)
  /\ \E number \in Bijection(allocs .. allocs' - 1, Sections) : memory' = With(memory, number)
  /\ UNCHANGED <<regionVars, pc, arg, pastVars>>

ImageLoad ==
  /\ image = "mapped" /\ image' = "loaded"
  /\ AllocAddrRegions(Sections)
  /\ UNCHANGED <<memory, pc, arg, allocs, pastVars>>

ImageUnload ==
  /\ image = "loaded" /\ image' = "unloaded"
  /\ FreeAddrRegions({b.start : b \in Sections})
  /\ UNCHANGED <<memory, pc, arg, allocs, pastVars>>

UnmapImage ==
  /\ image = "unloaded" /\ image' = "none"
  /\ LET sections == {a \in DOMAIN memory : memory[a] \in Sections} IN
     memory' = Restrict(memory, DOMAIN memory \ sections) /\ Ended(sections)
  /\ UNCHANGED <<regionVars, pc, arg, allocs>>

-----------------------------------------------------------------------------
(* Accesses. *)

\* BeforeMemRead, BeforeMemWrite: the filter looks at the first address only, and
\* every unit that the access touches gets its meta.
Access(addr, size, a) ==
  /\ metas' = IF Filter(regions, addr) THEN metas ELSE GetMeta(metas, Units(addr, size), a)
  /\ accessed' = accessed \cup {<<a, UnitDownAlign(x)>> : x \in addr .. addr + size - 1}

BeforeMem(t) ==
  /\ pc[t] = "program"
  /\ \E a \in Usable, size \in AccessSizes :
       \E addr \in Bytes(memory[a]) :
         addr + size - 1 \in Bytes(memory[a]) /\ Access(addr, size, a)
  /\ UNCHANGED <<regions, syncMetas, programVars, locked>>

\* A callback of a mutex, condition variable, barrier or semaphore: not filtered.
\* These fill a unit at least, and are aligned ("UNIT_DOWN_ALIGN(addr,unit_size_)==addr").
BeforePthreadCall(t) ==
  /\ pc[t] = "program"
  /\ \E a \in Usable : \E u \in {v \in AllUnits : v .. v + UnitSize - 1 \subseteq Bytes(memory[a])} :
       /\ syncMetas' = GetMeta(syncMetas, {u}, a)
       /\ locked' = locked \cup {<<a, u>>}
  /\ UNCHANGED <<regions, metas, programVars, accessed>>

-----------------------------------------------------------------------------
(* Specification. *)

Init ==
  /\ regions = <<>>
  /\ metas = [u \in AllUnits |-> {}]
  /\ syncMetas = [u \in AllUnits |-> {}]
  /\ memory = <<>>
  /\ pc = [t \in Thread |-> "program"]
  /\ arg = [t \in Thread |-> NoAlloc]
  /\ image = "none"
  /\ allocs = 0
  /\ accessed = {}
  /\ locked = {}

ThreadNext(t) ==
  \/ RealMalloc(t) \/ AfterMalloc(t)
  \/ BeforeFree(t) \/ RealFree(t)
  \/ BeforeRealloc(t) \/ RealRealloc(t) \/ AfterRealloc(t)
  \/ BeforeMem(t) \/ BeforePthreadCall(t)

Next ==
  \/ \E t \in Thread : ThreadNext(t)
  \/ MapImage \/ ImageLoad \/ ImageUnload \/ UnmapImage

Spec == Init /\ [][Next]_vars

-----------------------------------------------------------------------------
(* Properties. *)

\* The allocations whose callback has come, and that of their end has not.
Announced == Usable

At(past, u) == {a \in Announced : <<a, u>> \in past}

\* However mallocs, reallocs, frees and images of several threads interleave:
\* "Addresses not in region should be filtered" (filter.cc) and no others, whatever
\* is mapped there later; and each unit of memory remembers the accesses to what is
\* there now, all of them and nothing of what was there before, so that accesses to
\* two allocations are never taken for a race and none is missed.  The same goes for
\* the clocks of synchronisation objects.
TablesFollowMemory ==
  /\ \A x \in AllBytes : Filter(regions, x) <=> ~ \E a \in Announced : x \in Bytes(memory[a])
  /\ \A u \in AllUnits : metas[u] = At(accessed, u) /\ syncMetas[u] = At(locked, u)
=============================================================================
