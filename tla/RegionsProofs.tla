----------------------------- MODULE RegionsProofs -----------------------------
(***************************************************************************)
(* TablesFollowMemory, for any blocks, sections and unit, any number of    *)
(* threads and allocations.                                                *)
(***************************************************************************)
EXTENDS Regions, FiniteSetTheorems, TLAPS

-----------------------------------------------------------------------------
(* Units. *)

\* What is aligned is a multiple of the unit.
Aligned(u) == \E q \in Nat : u = UnitSize * q

LEMMA Multiples ==
  ASSUME NEW p \in Nat, NEW q \in Nat
  PROVE  /\ p < q => UnitSize * p + UnitSize <= UnitSize * q
         /\ p <= q => UnitSize * q - UnitSize * p = UnitSize * (q - p)
         /\ UnitSize * p + UnitSize * q = UnitSize * (p + q)
         /\ UnitSize * p \in Nat
  BY UnitAssumption, SMTT(30)

LEMMA Remainders ==
  /\ \A a \in Nat : a % UnitSize \in 0 .. UnitSize - 1 /\ Aligned(a - (a % UnitSize))
  /\ \A q \in Nat : (UnitSize * q) % UnitSize = 0
  <1>1. ASSUME NEW a \in Nat
        PROVE  a % UnitSize \in 0 .. UnitSize - 1 /\ Aligned(a - (a % UnitSize))
    <2>1. /\ a % UnitSize \in 0 .. UnitSize - 1 /\ a \div UnitSize \in Nat
          /\ a = UnitSize * (a \div UnitSize) + (a % UnitSize)
      BY UnitAssumption, SMTT(30)
    <2> DEFINE q == a \div UnitSize
               r == a % UnitSize
               m == UnitSize * q
    <2>2. m \in Nat BY <2>1, Multiples
    <2>3. a - r = m
      <3>1. a = m + r /\ r \in Nat BY <2>1
      <3> HIDE DEF m, r
      <3> QED BY <2>2, <3>1
    <2> QED BY <2>1, <2>3 DEF Aligned
  <1>2. \A q \in Nat : (UnitSize * q) % UnitSize = 0 BY UnitAssumption, SMTT(30)
  <1> QED BY <1>1, <1>2

\* Two aligned addresses are a unit apart, and as far as units go.
LEMMA AlignedApart ==
  ASSUME NEW u, NEW v, Aligned(u), Aligned(v)
  PROVE  /\ u \in Nat /\ v \in Nat
         /\ u < v => u + UnitSize <= v
         /\ u <= v => (v - u) % UnitSize = 0
  <1>1. PICK p \in Nat : u = UnitSize * p BY DEF Aligned
  <1>2. PICK q \in Nat : v = UnitSize * q BY DEF Aligned
  <1>3. u \in Nat /\ v \in Nat BY <1>1, <1>2, Multiples
  <1>4. p >= q => v <= u
    <2>1. CASE p = q BY <1>1, <1>2, <1>3, <2>1
    <2>2. CASE p > q
      <3>1. v + UnitSize <= u BY <1>1, <1>2, <2>2, Multiples
      <3> QED BY <1>3, <3>1, UnitAssumption
    <2> QED BY <2>1, <2>2
  <1>5. p < q => u + UnitSize <= v BY <1>1, <1>2, Multiples
  <1>6. p <= q => (v - u) % UnitSize = 0
    <2> SUFFICES ASSUME p <= q PROVE (v - u) % UnitSize = 0 OBVIOUS
    <2>1. v - u = UnitSize * (q - p) BY <1>1, <1>2, Multiples
    <2>2. q - p \in Nat OBVIOUS
    <2> QED BY <2>1, <2>2, Remainders
  <1>7. p > q => v + UnitSize <= u BY <1>1, <1>2, Multiples
  <1> QED BY <1>3, <1>4, <1>5, <1>6, <1>7, UnitAssumption

LEMMA AlignedSum ==
  ASSUME NEW u, Aligned(u), NEW v \in Nat, u <= v, (v - u) % UnitSize = 0
  PROVE  Aligned(v)
  <1>1. PICK p \in Nat : u = UnitSize * p BY DEF Aligned
  <1>2. u \in Nat BY <1>1, Multiples
  <1>3. v - u \in Nat BY <1>2
  <1>4. Aligned(v - u)
    <2>1. v - u - 0 = v - u BY <1>3
    <2> QED BY <1>3, <2>1, Remainders
  <1>5. PICK q \in Nat : v - u = UnitSize * q BY <1>4 DEF Aligned
  <1>6. v = UnitSize * p + UnitSize * q
    <2>1. v = u + (v - u) BY <1>2
    <2> QED BY <1>1, <1>5, <2>1
  <1>7. v = UnitSize * (p + q) /\ p + q \in Nat BY <1>6, Multiples
  <1> QED BY <1>7 DEF Aligned

\* The unit of an address.
LEMMA DownAligned ==
  ASSUME NEW a \in Nat
  PROVE  /\ UnitDownAlign(a) \in Nat /\ Aligned(UnitDownAlign(a))
         /\ UnitDownAlign(a) <= a /\ a < UnitDownAlign(a) + UnitSize
         /\ \A u : Aligned(u) /\ u <= a /\ a < u + UnitSize => u = UnitDownAlign(a)
         /\ \A u : Aligned(u) /\ u <= a => u <= UnitDownAlign(a)
  <1> DEFINE d == UnitDownAlign(a)
  <1>1. a % UnitSize \in 0 .. UnitSize - 1 /\ Aligned(d) BY Remainders DEF UnitDownAlign
  <1>2. d \in Nat BY <1>1, AlignedApart
  <1>3. d <= a /\ a < d + UnitSize BY <1>1, UnitAssumption DEF UnitDownAlign
  <1> HIDE DEF d
  <1>4. ASSUME NEW u, Aligned(u), u <= a PROVE u <= d /\ (a < u + UnitSize => u = d)
    <2>1. u \in Nat /\ (d < u => d + UnitSize <= u) /\ (u < d => u + UnitSize <= d)
      BY <1>1, <1>4, AlignedApart
    <2> QED BY <1>2, <1>3, <1>4, <2>1, UnitAssumption
  <1> QED BY <1>1, <1>2, <1>3, <1>4 DEF d

\* The loops over units visit the units of the addresses and no others.
LEMMA UnitsVisited ==
  ASSUME NEW addr \in Nat, NEW size \in Nat \ {0}
  PROVE  Units(addr, size) = {UnitDownAlign(x) : x \in addr .. addr + size - 1}
  <1> DEFINE first == UnitDownAlign(addr)
             end == UnitDownAlign(addr + size + UnitSize - 1)
  <1>1. Units(addr, size) = {u \in first .. end - 1 : (u - first) % UnitSize = 0}
    BY DEF Units, UnitsBetween, UnitUpAlign
  <1>2. addr + size + UnitSize - 1 \in Nat BY UnitAssumption
  <1>3. /\ first \in Nat /\ Aligned(first) /\ first <= addr /\ addr < first + UnitSize
        /\ end \in Nat /\ Aligned(end) /\ end <= addr + size + UnitSize - 1
        /\ addr + size - 1 < end
    <2>1. addr + size + UnitSize - 1 < end + UnitSize BY <1>2, DownAligned
    <2>2. addr + size - 1 < end BY <1>2, <2>1, DownAligned, UnitAssumption
    <2> QED BY <1>2, <2>2, DownAligned
  <1> HIDE DEF first, end
  <1>4. ASSUME NEW u \in first .. end - 1, (u - first) % UnitSize = 0
        PROVE  \E x \in addr .. addr + size - 1 : u = UnitDownAlign(x)
    <2>1. u \in Nat /\ first <= u /\ u < end BY <1>3
    <2>2. Aligned(u) BY <1>3, <1>4, <2>1, AlignedSum
    <2>3. CASE u < addr
      <3>1. ~ first < u
        <4>1. first < u => first + UnitSize <= u BY <1>3, <2>2, AlignedApart
        <4> QED BY <1>3, <2>1, <2>3, <4>1, UnitAssumption
      <3>2. u = UnitDownAlign(addr) BY <1>3, <2>1, <3>1 DEF first
      <3>3. addr \in addr .. addr + size - 1 OBVIOUS
      <3> QED BY <3>2, <3>3
    <2>4. CASE addr <= u
      <3>1. u + UnitSize <= end BY <1>3, <2>1, <2>2, AlignedApart
      <3>2. u \in addr .. addr + size - 1 BY <1>3, <2>1, <2>4, <3>1, UnitAssumption
      <3>3. u = UnitDownAlign(u)
        <4>1. u <= u /\ u < u + UnitSize BY <2>1, UnitAssumption
        <4> QED BY <2>1, <2>2, <4>1, DownAligned
      <3> QED BY <3>2, <3>3
    <2> QED BY <2>1, <2>3, <2>4
  <1>5. ASSUME NEW x \in addr .. addr + size - 1
        PROVE  /\ UnitDownAlign(x) \in first .. end - 1
               /\ (UnitDownAlign(x) - first) % UnitSize = 0
    <2>1. x \in Nat /\ addr <= x /\ x <= addr + size - 1 OBVIOUS
    <2> DEFINE u == UnitDownAlign(x)
    <2>2. u \in Nat /\ Aligned(u) /\ u <= x BY <2>1, DownAligned
    <2>3. first <= u
      <3>1. first <= x BY <1>3, <2>1
      <3> QED BY <1>3, <2>1, <3>1, DownAligned
    <2> HIDE DEF u
    <2>4. u \in first .. end - 1 BY <1>3, <2>1, <2>2, <2>3
    <2>5. (u - first) % UnitSize = 0 BY <1>3, <2>2, <2>3, AlignedApart
    <2> QED BY <2>4, <2>5 DEF u
  <1> QED BY <1>1, <1>4, <1>5

-----------------------------------------------------------------------------
(* Blocks and sections, the region map and the tables. *)

Regionlike == Blocks \cup Sections
UnitsOf(b) == {UnitDownAlign(x) : x \in Bytes(b)}

LEMMA Regionlikes ==
  ASSUME NEW b \in Regionlike
  PROVE  /\ b.start \in Nat \ {0} /\ b.size \in Nat \ {0} /\ Bytes(b) \subseteq Nat
         /\ b.start \in Bytes(b)
         /\ Units(b.start, b.size) = UnitsOf(b)
         /\ UnitsOf(b) \subseteq AllUnits
         /\ b \in Blocks => b \notin Sections
  <1>1. b.start \in Nat \ {0} /\ b.size \in Nat \ {0} BY BlocksAssumption DEF Regionlike
  <1>2. Bytes(b) \subseteq Nat /\ b.start \in Bytes(b) BY <1>1 DEF Bytes
  <1>3. Units(b.start, b.size) = UnitsOf(b) BY <1>1, UnitsVisited DEF UnitsOf, Bytes
  <1>4. UnitsOf(b) \subseteq AllUnits BY DEF UnitsOf, AllUnits, AllBytes, Regionlike
  <1>5. b \in Blocks => b \notin Sections BY <1>2, SectionsAssumption
  <1> QED BY <1>1, <1>2, <1>3, <1>4, <1>5

\* No unit is of two of them, but for sections.
LEMMA UnitsApart ==
  ASSUME NEW b \in Regionlike, NEW c \in Regionlike, Bytes(b) \cap Bytes(c) = {},
         b \in Blocks \/ c \in Blocks
  PROVE  UnitsOf(b) \cap UnitsOf(c) = {}
  <1> SUFFICES ASSUME NEW x \in Bytes(b), NEW y \in Bytes(c), UnitDownAlign(x) = UnitDownAlign(y)
               PROVE  FALSE
    BY DEF UnitsOf
  <1>1. CASE b \in Sections \/ c \in Sections BY <1>1, SectionsAssumption
  <1>2. CASE b \in Blocks /\ c \in Blocks
    <2> DEFINE u == UnitDownAlign(x)
    <2>1. x \in Nat /\ y \in Nat BY Regionlikes
    <2>2. ASSUME NEW e \in Blocks, NEW z \in Bytes(e), UnitDownAlign(z) = u
          PROVE  u \in Bytes(e)
      <3>1. e.start \in Nat /\ e.start % UnitSize = 0 /\ e.size \in Nat BY BlocksAssumption
      <3>2. Aligned(e.start)
        <4>1. e.start - (e.start % UnitSize) = e.start BY <3>1
        <4> QED BY <3>1, <4>1, Remainders
      <3>3. z \in Nat /\ e.start <= z /\ z <= e.start + e.size - 1 BY <3>1 DEF Bytes
      <3>4. e.start <= u /\ u <= z /\ u \in Nat BY <2>2, <3>2, <3>3, DownAligned
      <3> HIDE DEF u
      <3> QED BY <3>1, <3>3, <3>4 DEF Bytes
    <2>3. u \in Bytes(b) /\ u \in Bytes(c) BY <1>2, <2>2
    <2> QED BY <2>3
  <1> QED BY <1>1, <1>2 DEF Regionlike

\* Allocations A, in the memory mem, that do not overlap.
Placed(A, mem) ==
  /\ A \subseteq DOMAIN mem
  /\ \A a \in A : mem[a] \in Regionlike
  /\ \A a, b \in A : a # b => Bytes(mem[a]) \cap Bytes(mem[b]) = {}

LEMMA StartsApart ==
  ASSUME NEW A, NEW mem, Placed(A, mem)
  PROVE  \A a, b \in A : mem[a].start = mem[b].start => a = b
  BY Regionlikes DEF Placed

\* The map has their regions.
RegionsOf(map, A, mem) ==
  /\ DOMAIN map = {mem[a].start : a \in A}
  /\ \A a \in A : map[mem[a].start] = mem[a].size

LEMMA RegionsAdded ==
  ASSUME NEW map, NEW A, NEW S, NEW mem, Placed(A \cup S, mem), RegionsOf(map, A, mem), S \cap A = {}
  PROVE  RegionsOf(AddRegions(map, {mem[a] : a \in S}), A \cup S, mem)
  <1> DEFINE B == {mem[a] : a \in S}
             starts == {b.start : b \in B}
             new == AddRegions(map, B)
  <1>1. new = [x \in DOMAIN map \cup starts |->
                 IF x \in starts THEN (CHOOSE b \in B : b.start = x).size ELSE map[x]]
    BY DEF AddRegions, With
  <1>2. \A a, b \in A \cup S : mem[a].start = mem[b].start => a = b BY StartsApart
  <1>3. starts = {mem[a].start : a \in S} OBVIOUS
  <1>4. ASSUME NEW a \in S
        PROVE  mem[a].start \in starts /\ (CHOOSE b \in B : b.start = mem[a].start) = mem[a]
    <2> DEFINE y == CHOOSE b \in B : b.start = mem[a].start
    <2>1. mem[a] \in B OBVIOUS
    <2>2. y \in B /\ y.start = mem[a].start BY <2>1, Zenon
    <2>3. PICK c \in S : y = mem[c] BY <2>2
    <2>4. c = a BY <1>2, <2>2, <2>3
    <2> QED BY <2>1, <2>3, <2>4
  <1>5. ASSUME NEW a \in A PROVE mem[a].start \in DOMAIN map /\ mem[a].start \notin starts
    <2>1. mem[a].start \in DOMAIN map BY DEF RegionsOf
    <2> QED BY <1>2, <1>3, <2>1
  <1> HIDE DEF new, starts
  <1>6. DOMAIN new = {mem[a].start : a \in A \cup S} BY <1>1, <1>3 DEF RegionsOf
  <1>7. ASSUME NEW a \in A \cup S PROVE new[mem[a].start] = mem[a].size
    <2>1. CASE a \in S BY <1>1, <1>4, <2>1
    <2>2. CASE a \in A
      <3>1. new[mem[a].start] = map[mem[a].start] BY <1>1, <1>5, <2>2
      <3> QED BY <2>2, <3>1 DEF RegionsOf
    <2> QED BY <2>1, <2>2
  <1> QED BY <1>6, <1>7 DEF RegionsOf, new

LEMMA RegionsRemoved ==
  ASSUME NEW map, NEW A, NEW S \in SUBSET A, NEW mem, Placed(A, mem), RegionsOf(map, A, mem)
  PROVE  RegionsOf(RemoveRegions(map, {mem[a].start : a \in S}), A \ S, mem)
  <1>1. \A a, b \in A : mem[a].start = mem[b].start => a = b BY StartsApart
  <1> QED BY <1>1 DEF RegionsOf, RemoveRegions, Restrict

\* The last region that starts at or before an address is the one it is in.
LEMMA FilterFinds ==
  ASSUME NEW map, NEW A, NEW mem, Placed(A, mem), RegionsOf(map, A, mem), NEW x \in Nat
  PROVE  Filter(map, x) <=> ~ \E a \in A : x \in Bytes(mem[a])
  <1>1. ASSUME NEW a \in A
        PROVE  /\ mem[a].start \in DOMAIN map /\ map[mem[a].start] = mem[a].size
               /\ mem[a].start \in Nat /\ mem[a].size \in Nat /\ mem[a].start \in Bytes(mem[a])
               /\ x \in Bytes(mem[a]) <=> mem[a].start <= x /\ x < mem[a].start + mem[a].size
    <2>1. mem[a].start \in Nat /\ mem[a].size \in Nat /\ mem[a].start \in Bytes(mem[a])
      BY Regionlikes DEF Placed
    <2>2. mem[a].start \in DOMAIN map /\ map[mem[a].start] = mem[a].size BY DEF RegionsOf
    <2>3. x \in Bytes(mem[a]) <=> mem[a].start <= x /\ x < mem[a].start + mem[a].size
      BY <2>1 DEF Bytes
    <2> QED BY <2>1, <2>2, <2>3
  <1>2. ASSUME NEW a \in A, x \in Bytes(mem[a]) PROVE ~Filter(map, x)
    <2> DEFINE s == mem[a].start
    <2>1. s \in DOMAIN map /\ s <= x /\ x < s + map[s] BY <1>1, <1>2
    <2>2. ASSUME NEW r \in DOMAIN map, r <= x PROVE r <= s
      <3>1. PICK b \in A : r = mem[b].start BY DEF RegionsOf
      <3>2. CASE b = a BY <1>1, <3>1, <3>2
      <3>3. CASE b # a
        <4>1. r \notin Bytes(mem[a]) BY <1>1, <3>1, <3>3 DEF Placed
        <4>2. r \in Nat /\ mem[a].size \in Nat /\ s \in Nat BY <1>1, <3>1
        <4> HIDE DEF s
        <4>3. s <= r => r \in Bytes(mem[a]) BY <1>1, <2>1, <2>2, <4>2 DEF Bytes, s
        <4> QED BY <4>1, <4>2, <4>3
      <3> QED BY <3>2, <3>3
    <2> HIDE DEF s
    <2> QED BY <2>1, <2>2 DEF Filter
  <1>3. ASSUME ~Filter(map, x) PROVE \E a \in A : x \in Bytes(mem[a])
    <2>1. PICK r \in DOMAIN map : r <= x /\ x < r + map[r] BY <1>3 DEF Filter
    <2>2. PICK a \in A : r = mem[a].start BY DEF RegionsOf
    <2> QED BY <1>1, <2>1, <2>2
  <1> QED BY <1>2, <1>3

\* A table has the accesses of the past to each unit, those to the allocations A.
TableOf(table, past, A) ==
  /\ DOMAIN table = AllUnits
  /\ \A u \in AllUnits : table[u] = {a \in A : <<a, u>> \in past}

\* An access is to a unit of its allocation.
PastIn(past, mem) == \A p \in past : \E a \in DOMAIN mem : \E u \in UnitsOf(mem[a]) : p = <<a, u>>

LEMMA PastUnits ==
  ASSUME NEW past, NEW mem, PastIn(past, mem)
  PROVE  /\ \A a, u : <<a, u>> \in past => a \in DOMAIN mem /\ u \in UnitsOf(mem[a])
         /\ \A p \in past : p[1] \in DOMAIN mem
  <1>1. ASSUME NEW a, NEW u, <<a, u>> \in past PROVE a \in DOMAIN mem /\ u \in UnitsOf(mem[a])
    <2>1. PICK c \in DOMAIN mem : \E v \in UnitsOf(mem[c]) : <<a, u>> = <<c, v>> BY <1>1 DEF PastIn
    <2> QED BY <2>1
  <1>2. \A p \in past : p[1] \in DOMAIN mem BY DEF PastIn
  <1> QED BY <1>1, <1>2

\* S is forgotten, with the units it has, which no other allocation of A has.
LEMMA TableForgotten ==
  ASSUME NEW table, NEW past, NEW A, NEW S \in SUBSET A, NEW mem, TableOf(table, past, A),
         Placed(A, mem), PastIn(past, mem),
         \A a \in A \ S, b \in S : mem[a] \in Blocks \/ mem[b] \in Blocks
  PROVE  TableOf(Forget(table, UNION {UnitsOf(mem[a]) : a \in S}), past, A \ S)
  <1> DEFINE U == UNION {UnitsOf(mem[a]) : a \in S}
             new == Forget(table, U)
  <1>1. new = [u \in AllUnits |-> IF u \in U THEN {} ELSE table[u]] BY DEF Forget, TableOf
  <1>2. ASSUME NEW u \in AllUnits
        PROVE  new[u] = {a \in A \ S : <<a, u>> \in past}
    <2>0. \A a, v : <<a, v>> \in past => v \in UnitsOf(mem[a]) BY PastUnits
    <2>1. CASE u \in U
      <3>1. PICK b \in S : u \in UnitsOf(mem[b]) BY <2>1
      <3>2. ASSUME NEW a \in A \ S, <<a, u>> \in past PROVE FALSE
        <4>1. u \in UnitsOf(mem[a]) BY <2>0, <3>2
        <4>2. a # b /\ a \in A /\ b \in A OBVIOUS
        <4>3. Bytes(mem[a]) \cap Bytes(mem[b]) = {} /\ mem[a] \in Regionlike /\ mem[b] \in Regionlike
          BY <4>2 DEF Placed
        <4>4. UnitsOf(mem[a]) \cap UnitsOf(mem[b]) = {} BY <4>3, UnitsApart
        <4> QED BY <3>1, <4>1, <4>4
      <3> QED BY <1>1, <2>1, <3>2
    <2>2. CASE u \notin U
      <3>1. \A a \in S : <<a, u>> \notin past BY <2>0, <2>2
      <3>2. new[u] = table[u] /\ table[u] = {a \in A : <<a, u>> \in past} BY <1>1, <2>2 DEF TableOf
      <3> HIDE DEF new, U
      <3> QED BY <3>1, <3>2
    <2> QED BY <2>1, <2>2
  <1> HIDE DEF new
  <1>3. DOMAIN new = AllUnits BY <1>1
  <1> QED BY <1>2, <1>3 DEF TableOf, new

LEMMA TableGrown ==
  ASSUME NEW table, NEW past, NEW A, NEW S, TableOf(table, past, A),
         \A a \in S, u \in AllUnits : <<a, u>> \notin past
  PROVE  TableOf(table, past, A \cup S)
  BY DEF TableOf

LEMMA TableEnded ==
  ASSUME NEW table, NEW past, NEW A, NEW S, TableOf(table, past, A), S \cap A = {},
         NEW left \in SUBSET past, \A p \in past : p[1] \notin S => p \in left
  PROVE  TableOf(table, left, A)
  <1>1. \A a \in A : \A u : <<a, u>> \in left <=> <<a, u>> \in past
    <2> SUFFICES ASSUME NEW a \in A, NEW u, <<a, u>> \in past PROVE <<a, u>> \in left OBVIOUS
    <2>1. <<a, u>>[1] \notin S OBVIOUS
    <2> QED BY <2>1
  <1> QED BY <1>1 DEF TableOf

LEMMA TableMet ==
  ASSUME NEW table, NEW past, NEW A, NEW a \in A, NEW U, TableOf(table, past, A)
  PROVE  TableOf(GetMeta(table, U, a), past \cup {<<a, u>> : u \in U}, A)
  <1> DEFINE new == GetMeta(table, U, a)
             then == past \cup {<<a, u>> : u \in U}
  <1>1. new = [u \in AllUnits |-> IF u \in U THEN table[u] \cup {a} ELSE table[u]]
    BY DEF GetMeta, TableOf
  <1>2. \A b, u : <<b, u>> \in then <=> <<b, u>> \in past \/ (b = a /\ u \in U) OBVIOUS
  <1> HIDE DEF new, then
  <1>3. ASSUME NEW u \in AllUnits PROVE new[u] = {b \in A : <<b, u>> \in then}
    <2>1. table[u] = {b \in A : <<b, u>> \in past} BY DEF TableOf
    <2>2. CASE u \in U
      <3>1. new[u] = table[u] \cup {a} BY <1>1, <2>2
      <3> QED BY <1>2, <2>1, <2>2, <3>1
    <2>3. CASE u \notin U
      <3>1. new[u] = table[u] BY <1>1, <2>3
      <3> QED BY <1>2, <2>1, <2>3, <3>1
    <2> QED BY <2>2, <2>3
  <1>4. DOMAIN new = AllUnits BY <1>1
  <1> QED BY <1>3, <1>4 DEF TableOf, new, then

-----------------------------------------------------------------------------
(* The inductive invariant. *)

PC == {"program", "malloced", "freeing", "reallocing", "realloced"}

Held == {a \in DOMAIN memory : memory[a] \in Blocks}

\* The program: allocations do not overlap, a thread between its two callbacks has
\* one that is no one else's, and an image is mapped as a whole.
MemInv ==
  /\ allocs \in Nat /\ DOMAIN memory \subseteq 0 .. allocs - 1
  /\ Placed(DOMAIN memory, memory)
  /\ DOMAIN pc = Thread /\ DOMAIN arg = Thread
  /\ \A t \in Thread :
       /\ pc[t] \in PC
       /\ pc[t] = "program" => arg[t] = NoAlloc
       /\ pc[t] \in {"malloced", "freeing", "realloced"} => arg[t] \in Held
       /\ pc[t] = "reallocing" => arg[t] \in Held \cup {NoAlloc}
  /\ \A t, u \in Thread : arg[t] = arg[u] /\ arg[t] # NoAlloc => t = u
  /\ image = "none" => \A a \in DOMAIN memory : memory[a] \notin Sections
  /\ image # "none" => Sections \subseteq {memory[a] : a \in DOMAIN memory}

Untouched(a) == \A p \in accessed \cup locked : p[1] # a

\* What has not been announced has not been accessed.
PastInv ==
  /\ PastIn(accessed, memory) /\ PastIn(locked, memory)
  /\ \A t \in Thread : pc[t] \in {"malloced", "realloced"} => Untouched(arg[t])
  /\ image = "mapped" => \A a \in DOMAIN memory : memory[a] \in Sections => Untouched(a)

\* The tool has what has been announced.
RegInv ==
  /\ RegionsOf(regions, Usable, memory)
  /\ TableOf(metas, accessed, Usable) /\ TableOf(syncMetas, locked, Usable)

RegionsInv == MemInv /\ PastInv /\ RegInv

UsableForm ==
  \A a : a \in Usable <=>
    /\ a \in DOMAIN memory
    /\ \/ memory[a] \in Sections /\ image = "loaded"
       \/ memory[a] \in Blocks /\ \A t \in Thread : arg[t] # a

LEMMA UsableIs == MemInv => UsableForm
  <1> SUFFICES ASSUME MemInv, NEW a \in DOMAIN memory
               PROVE  a \in Usable <=> \/ memory[a] \in Sections /\ image = "loaded"
                                       \/ memory[a] \in Blocks /\ \A t \in Thread : arg[t] # a
    BY DEF UsableForm, Usable
  <1>1. /\ memory[a] \in Regionlike /\ a # NoAlloc
        /\ memory[a] \in Blocks => memory[a] \notin Sections
    BY Regionlikes DEF MemInv, Placed, NoAlloc
  <1>2. \A t \in Thread : (pc[t] # "program" => arg[t] # a) <=> arg[t] # a BY <1>1 DEF MemInv
  <1> QED BY <1>1, <1>2 DEF Usable, Regionlike

LEMMA UsableNext == MemInv' => UsableForm'
  BY UsableIs, PTL

\* The invariant says what TablesFollowMemory asks.
LEMMA RegionsFollow == RegionsInv => TablesFollowMemory
  <1> SUFFICES ASSUME RegionsInv PROVE TablesFollowMemory OBVIOUS
  <1>1. Usable \subseteq DOMAIN memory BY UsableIs DEF RegionsInv, UsableForm
  <1>2. Placed(Usable, memory) BY <1>1 DEF RegionsInv, MemInv, Placed
  <1>3. ASSUME NEW x \in AllBytes
        PROVE  Filter(regions, x) <=> ~ \E a \in Usable : x \in Bytes(memory[a])
    <2>1. x \in Nat BY Regionlikes DEF AllBytes, Regionlike
    <2> QED BY <1>2, <2>1, FilterFinds DEF RegionsInv, RegInv
  <1> QED BY <1>3 DEF TablesFollowMemory, Announced, At, RegionsInv, RegInv, TableOf

-----------------------------------------------------------------------------
(* What becomes of the regions and tables when a set of allocations is     *)
(* announced, freed, or changes in the program only.                       *)

LEMMA RegUnmoved ==
  ASSUME RegionsInv, Usable' = Usable, \A a \in Usable : memory'[a] = memory[a], UNCHANGED regionVars,
         NEW S, S \cap Usable = {},
         accessed' = {p \in accessed : p[1] \notin S}, locked' = {p \in locked : p[1] \notin S}
  PROVE  RegInv'
  <1>1. RegionsOf(regions', Usable', memory') BY DEF RegionsInv, RegInv, RegionsOf, regionVars
  <1>2. TableOf(metas, accessed', Usable) /\ TableOf(syncMetas, locked', Usable)
    <2>1. TableOf(metas, accessed, Usable) /\ TableOf(syncMetas, locked, Usable)
      BY DEF RegionsInv, RegInv
    <2>2. /\ accessed' \in SUBSET accessed /\ \A p \in accessed : p[1] \notin S => p \in accessed'
          /\ locked' \in SUBSET locked /\ \A p \in locked : p[1] \notin S => p \in locked'
      OBVIOUS
    <2>3. TableOf(metas, accessed', Usable) BY ONLY <2>1, <2>2, TableEnded, S \cap Usable = {}
    <2>4. TableOf(syncMetas, locked', Usable) BY ONLY <2>1, <2>2, TableEnded, S \cap Usable = {}
    <2> QED BY <2>3, <2>4
  <1> QED BY <1>1, <1>2 DEF RegInv, regionVars

LEMMA RegGrown ==
  ASSUME RegionsInv, NEW S \in SUBSET DOMAIN memory, S \cap Usable = {}, Usable' = Usable \cup S,
         memory' = memory, AllocAddrRegions({memory[a] : a \in S}), UNCHANGED pastVars,
         \A a \in S : Untouched(a)
  PROVE  RegInv'
  <1>1. Usable \subseteq DOMAIN memory BY UsableIs DEF RegionsInv, UsableForm
  <1>2. Placed(Usable \cup S, memory) BY <1>1 DEF RegionsInv, MemInv, Placed
  <1>3. RegionsOf(regions', Usable \cup S, memory)
    BY <1>2, RegionsAdded DEF RegionsInv, RegInv, AllocAddrRegions
  <1>4. TableOf(metas, accessed, Usable \cup S) /\ TableOf(syncMetas, locked, Usable \cup S)
    <2>1. \A a \in S : \A u : <<a, u>> \notin accessed /\ <<a, u>> \notin locked
      <3> SUFFICES ASSUME NEW a \in S, NEW u, <<a, u>> \in accessed \cup locked PROVE FALSE
        OBVIOUS
      <3>1. <<a, u>>[1] # a BY DEF Untouched
      <3> QED BY <3>1
    <2> QED BY <2>1, TableGrown DEF RegionsInv, RegInv
  <1> QED BY <1>3, <1>4 DEF RegInv, AllocAddrRegions, pastVars

LEMMA RegShrunk ==
  ASSUME RegionsInv, NEW S \in SUBSET Usable, Usable' = Usable \ S,
         memory' = memory, FreeAddrRegions({memory[a].start : a \in S}), UNCHANGED pastVars,
         \A a \in Usable \ S, b \in S : memory[a] \in Blocks \/ memory[b] \in Blocks
  PROVE  RegInv'
  <1>1. Usable \subseteq DOMAIN memory BY UsableIs DEF RegionsInv, UsableForm
  <1>2. Placed(Usable, memory) BY <1>1 DEF RegionsInv, MemInv, Placed
  <1> DEFINE addrs == {memory[a].start : a \in S}
             U == UNION {UnitsOf(memory[a]) : a \in S}
  <1>3. RegionsOf(regions', Usable \ S, memory)
    BY <1>2, RegionsRemoved DEF RegionsInv, RegInv, FreeAddrRegions
  <1>4. UnitsOfRegions(addrs) = U
    <2>1. ASSUME NEW a \in S
          PROVE  Units(memory[a].start, RegionSize(regions, memory[a].start)) = UnitsOf(memory[a])
      <3>1. RegionSize(regions, memory[a].start) = memory[a].size
        BY DEF RegionsInv, RegInv, RegionsOf, RegionSize
      <3> QED BY <1>2, <3>1, Regionlikes DEF Placed
    <2> QED BY <2>1 DEF UnitsOfRegions
  <1>5. metas' = Forget(metas, U) /\ syncMetas' = Forget(syncMetas, U)
    BY <1>4 DEF FreeAddrRegions
  <1>6. TableOf(metas', accessed, Usable \ S) /\ TableOf(syncMetas', locked, Usable \ S)
    BY <1>2, <1>5, TableForgotten DEF RegionsInv, RegInv, PastInv
  <1> QED BY <1>3, <1>6 DEF RegInv, pastVars

\* The program's own part when the memory stays as it is.
LEMMA PastUnmoved ==
  ASSUME PastInv, memory' = memory, UNCHANGED pastVars,
         \A t \in Thread : pc'[t] \in {"malloced", "realloced"} => pc'[t] = pc[t] /\ arg'[t] = arg[t],
         image' = "mapped" => image = "mapped"
  PROVE  PastInv'
  BY DEF PastInv, PastIn, Untouched, pastVars

\* What allocations S are remembered by goes with them.
LEMMA PastGone ==
  ASSUME PastInv, NEW S, Ended(S),
         \A a \in DOMAIN memory \ S : a \in DOMAIN memory' /\ memory'[a] = memory[a]
  PROVE  /\ PastIn(accessed', memory') /\ PastIn(locked', memory')
         /\ accessed' \cup locked' \subseteq accessed \cup locked
  <1>1. ASSUME NEW past, PastIn(past, memory), NEW left \in SUBSET past, \A q \in left : q[1] \notin S
        PROVE  PastIn(left, memory')
    <2> SUFFICES ASSUME NEW q \in left
                 PROVE  \E a \in DOMAIN memory' : \E u \in UnitsOf(memory'[a]) : q = <<a, u>>
      BY DEF PastIn
    <2>1. PICK a \in DOMAIN memory : \E u \in UnitsOf(memory[a]) : q = <<a, u>> BY <1>1 DEF PastIn
    <2>2. a \notin S BY <1>1, <2>1
    <2> QED BY <2>1, <2>2
  <1>2. /\ accessed' \in SUBSET accessed /\ \A q \in accessed' : q[1] \notin S
        /\ locked' \in SUBSET locked /\ \A q \in locked' : q[1] \notin S
    BY DEF Ended
  <1>3. PastIn(accessed, memory) /\ PastIn(locked, memory) BY DEF PastInv
  <1>4. PastIn(accessed', memory') BY <1>1, <1>2, <1>3
  <1>5. PastIn(locked', memory') BY <1>1, <1>2, <1>3
  <1> QED BY <1>2, <1>4, <1>5

\* An allocation b with the number allocs, when only those of A remain.
LEMMA PlacedNew ==
  ASSUME MemInv, NEW A \in SUBSET DOMAIN memory, NEW b \in Blocks, Disjoint(b, A),
         DOMAIN memory' = A \cup {allocs}, memory'[allocs] = b,
         \A a \in A : memory'[a] = memory[a]
  PROVE  /\ allocs \notin DOMAIN memory /\ allocs # NoAlloc
         /\ Placed(DOMAIN memory', memory')
         /\ allocs' = allocs + 1 => allocs' \in Nat /\ DOMAIN memory' \subseteq 0 .. allocs' - 1
  <1>1. allocs \notin DOMAIN memory /\ allocs # NoAlloc BY DEF MemInv, NoAlloc
  <1>2. \A a \in A : memory[a] \in Regionlike /\ Bytes(memory[a]) \cap Bytes(b) = {}
    BY DEF Disjoint, MemInv, Placed
  <1>3. \A a, c \in A : a # c => Bytes(memory[a]) \cap Bytes(memory[c]) = {} BY DEF MemInv, Placed
  <1>4. Placed(DOMAIN memory', memory')
    <2>1. \A a \in DOMAIN memory' : memory'[a] \in Regionlike BY <1>2 DEF Regionlike
    <2>2. ASSUME NEW a \in DOMAIN memory', NEW c \in DOMAIN memory', a # c
          PROVE  Bytes(memory'[a]) \cap Bytes(memory'[c]) = {}
      <3>1. CASE a = allocs
        <4>1. c \in A /\ memory'[c] = memory[c] BY <2>2, <3>1
        <4>2. Bytes(memory[c]) \cap Bytes(b) = {} BY <1>2, <4>1
        <4> QED BY <3>1, <4>1, <4>2
      <3>2. CASE c = allocs
        <4>1. a \in A /\ memory'[a] = memory[a] BY <2>2, <3>2
        <4>2. Bytes(memory[a]) \cap Bytes(b) = {} BY <1>2, <4>1
        <4> QED BY <3>2, <4>1, <4>2
      <3>3. CASE a \in A /\ c \in A
        <4>1. memory'[a] = memory[a] /\ memory'[c] = memory[c] BY <3>3
        <4> QED BY <1>3, <2>2, <3>3, <4>1
      <3> QED BY <3>1, <3>2, <3>3
    <2> QED BY <2>1, <2>2 DEF Placed
  <1>5. allocs' = allocs + 1 => allocs' \in Nat /\ DOMAIN memory' \subseteq 0 .. allocs' - 1
    BY DEF MemInv
  <1> QED BY <1>1, <1>4, <1>5

-----------------------------------------------------------------------------
(* The heap. *)

\* A thread has been handed a block, and the one it had, if any, is no more.
LEMMA NewStep ==
  ASSUME RegionsInv, NEW t \in Thread, NEW p \in {"malloced", "realloced"}, NEW b \in Blocks,
         pc[t] \in {"program", "reallocing"},
         NEW A, A = DOMAIN memory \ {arg[t]}, Disjoint(b, A),
         memory' = With([a \in A |-> memory[a]], [a \in {allocs} |-> b]),
         pc' = [pc EXCEPT ![t] = p], arg' = [arg EXCEPT ![t] = allocs], allocs' = allocs + 1,
         UNCHANGED regionVars, image' = image, Ended({arg[t]})
  PROVE  RegionsInv'
  <1>0. MemInv /\ PastInv BY DEF RegionsInv
  <1>1. /\ accessed' = {q \in accessed : q[1] \notin {arg[t]}}
        /\ locked' = {q \in locked : q[1] \notin {arg[t]}}
    BY DEF Ended
  <1>2. \A q \in accessed' \cup locked' : q \in accessed \cup locked /\ q[1] \in DOMAIN memory
    BY <1>0, <1>1, PastUnits DEF PastInv
  <1>3. allocs \notin DOMAIN memory BY <1>0 DEF MemInv
  <1>4. /\ DOMAIN memory' = A \cup {allocs} /\ memory'[allocs] = b
        /\ \A a \in A : memory'[a] = memory[a]
    BY <1>3 DEF With
  <1>5. /\ allocs # NoAlloc /\ Placed(DOMAIN memory', memory')
        /\ allocs' \in Nat /\ DOMAIN memory' \subseteq 0 .. allocs' - 1
    BY <1>0, <1>4, PlacedNew
  <1>6. /\ DOMAIN pc' = Thread /\ DOMAIN arg' = Thread /\ pc'[t] = p /\ arg'[t] = allocs
        /\ arg[t] \in Held \cup {NoAlloc}
        /\ \A u \in Thread \ {t} : pc'[u] = pc[u] /\ arg'[u] = arg[u]
    BY <1>0 DEF MemInv
  <1>7. \A u \in Thread : arg[u] \in DOMAIN memory \cup {NoAlloc} BY <1>0 DEF MemInv, Held, PC
  <1>8. b \notin Sections BY Regionlikes DEF Regionlike
  <1>9. arg[t] \in DOMAIN memory => memory[arg[t]] \in Blocks /\ memory[arg[t]] \notin Sections
    <2>1. NoAlloc \notin DOMAIN memory BY <1>0 DEF MemInv, NoAlloc
    <2> QED BY <1>6, <2>1, Regionlikes DEF Held, Regionlike
  <1>10. \A u \in Thread \ {t} : arg[u] = arg[t] => arg[u] = NoAlloc BY <1>0 DEF MemInv
  <1>11. MemInv'
    <2>1. ASSUME NEW u \in Thread
          PROVE  /\ pc'[u] \in PC
                 /\ pc'[u] = "program" => arg'[u] = NoAlloc
                 /\ pc'[u] \in {"malloced", "freeing", "realloced"} => arg'[u] \in Held'
                 /\ pc'[u] = "reallocing" => arg'[u] \in Held' \cup {NoAlloc}
      <3>1. Held' = (Held \ {arg[t]}) \cup {allocs} BY <1>4, <1>3 DEF Held
      <3>2. CASE u = t BY <1>6, <3>1, <3>2 DEF PC
      <3>3. CASE u # t
        <4>1. NoAlloc \notin Held BY <1>0 DEF Held, MemInv, NoAlloc
        <4> QED BY <1>0, <1>6, <1>10, <3>1, <3>3, <4>1 DEF MemInv
      <3> QED BY <3>2, <3>3
    <2>2. \A u, v \in Thread : arg'[u] = arg'[v] /\ arg'[u] # NoAlloc => u = v
      BY <1>0, <1>3, <1>5, <1>6, <1>7 DEF MemInv
    <2>3. image' = "none" => \A a \in DOMAIN memory' : memory'[a] \notin Sections
      BY <1>0, <1>4, <1>8 DEF MemInv
    <2>4. image' # "none" => Sections \subseteq {memory'[a] : a \in DOMAIN memory'}
      <3> SUFFICES ASSUME image # "none", NEW r \in Sections
                   PROVE  r \in {memory'[a] : a \in DOMAIN memory'}
        OBVIOUS
      <3>1. PICK a \in DOMAIN memory : memory[a] = r BY <1>0 DEF MemInv
      <3>2. a \in A BY <1>9, <3>1
      <3> QED BY <1>4, <3>1, <3>2
    <2> QED BY <1>5, <1>6, <2>1, <2>2, <2>3, <2>4 DEF MemInv
  <1>12. PastInv'
    <2>1. PastIn(accessed', memory') /\ PastIn(locked', memory')
      <3>1. \A a \in DOMAIN memory \ {arg[t]} : a \in DOMAIN memory' /\ memory'[a] = memory[a] BY <1>4
      <3> QED BY <1>0, <3>1, PastGone
    <2>2. ASSUME NEW u \in Thread, pc'[u] \in {"malloced", "realloced"}
          PROVE  \A q \in accessed' \cup locked' : q[1] # arg'[u]
      <3>1. CASE u = t BY <1>2, <1>3, <1>6, <3>1
      <3>2. CASE u # t
        <4>1. Untouched(arg[u]) /\ arg'[u] = arg[u] BY <1>0, <1>6, <2>2, <3>2 DEF PastInv
        <4> QED BY <1>2, <4>1 DEF Untouched
      <3> QED BY <3>1, <3>2
    <2>3. image' = "mapped" => \A a \in DOMAIN memory' : memory'[a] \in Sections =>
            \A q \in accessed' \cup locked' : q[1] # a
      <3> SUFFICES ASSUME image = "mapped", NEW a \in DOMAIN memory', memory'[a] \in Sections
                   PROVE  \A q \in accessed' \cup locked' : q[1] # a
        OBVIOUS
      <3>1. a \in DOMAIN memory /\ memory[a] \in Sections BY <1>4, <1>8
      <3>2. Untouched(a) BY <1>0, <3>1 DEF PastInv
      <3> QED BY <1>2, <3>2 DEF Untouched
    <2> QED BY <2>1, <2>2, <2>3 DEF PastInv, Untouched
  <1>13. Usable' = Usable /\ Usable \subseteq A
    <2>1. UsableForm /\ UsableForm' BY <1>0, <1>11, UsableIs, UsableNext
    <2>2. \A a \in A : (\A u \in Thread : arg'[u] # a) <=> (\A u \in Thread : arg[u] # a)
      <3>1. \A a \in A : a # NoAlloc /\ a # allocs /\ a # arg[t] BY <1>0, <1>3 DEF MemInv, NoAlloc
      <3> QED BY <1>6, <3>1
    <2>3. Usable \subseteq A
      <3>1. arg[t] \notin Usable BY <1>9, <2>1 DEF UsableForm
      <3> QED BY <2>1, <3>1 DEF UsableForm
    <2>4. allocs \notin Usable'
      <3>1. memory'[allocs] \notin Sections /\ ~ \A u \in Thread : arg'[u] # allocs BY <1>4, <1>6, <1>8
      <3> QED BY <2>1, <3>1 DEF UsableForm
    <2>5. \A a \in A : a \in Usable' <=> a \in Usable BY <1>4, <2>1, <2>2 DEF UsableForm
    <2>6. Usable' \subseteq A BY <1>4, <2>1, <2>4 DEF UsableForm
    <2> QED BY <2>3, <2>5, <2>6
  <1>14. RegInv'
    <2>1. \A a \in Usable : memory'[a] = memory[a] BY <1>4, <1>13
    <2> DEFINE S == {arg[t]}
    <2>2. accessed' = {q \in accessed : q[1] \notin S} /\ locked' = {q \in locked : q[1] \notin S}
      BY <1>1
    <2>3. S \cap Usable = {} BY <1>13
    <2> HIDE DEF S
    <2> QED BY <1>13, <2>1, <2>2, <2>3, RegUnmoved
  <1> QED BY <1>11, <1>12, <1>14 DEF RegionsInv

LEMMA MallocStep ==
  ASSUME RegionsInv, NEW t \in Thread, RealMalloc(t)
  PROVE  RegionsInv'
  <1>1. PICK b \in Blocks : /\ Disjoint(b, DOMAIN memory) /\ NewAlloc(t, b)
                            /\ memory' = With(memory, [a \in {allocs} |-> b])
    BY DEF RealMalloc
  <1>2. /\ pc[t] = "program" /\ pc' = [pc EXCEPT ![t] = "malloced"]
        /\ UNCHANGED regionVars /\ image' = image /\ accessed' = accessed /\ locked' = locked
    BY DEF RealMalloc, Moved, pastVars
  <1>3. arg[t] = NoAlloc /\ NoAlloc \notin DOMAIN memory BY <1>2 DEF RegionsInv, MemInv, NoAlloc
  <1>4. DOMAIN memory = DOMAIN memory \ {arg[t]} BY <1>3
  <1>5. memory' = With([a \in DOMAIN memory |-> memory[a]], [a \in {allocs} |-> b])
    BY <1>1 DEF With
  <1>6. Ended({arg[t]})
    <2>1. \A q \in accessed \cup locked : q[1] \in DOMAIN memory
      BY PastUnits DEF RegionsInv, PastInv
    <2> QED BY <1>2, <1>3, <2>1 DEF Ended
  <1> QED BY <1>1, <1>2, <1>4, <1>5, <1>6, NewStep DEF NewAlloc

LEMMA ReallocStep ==
  ASSUME RegionsInv, NEW t \in Thread, RealRealloc(t)
  PROVE  RegionsInv'
  <1> DEFINE A == DOMAIN memory \ {arg[t]}
  <1>1. PICK b \in Blocks : /\ Disjoint(b, A) /\ NewAlloc(t, b)
                            /\ memory' = With(Restrict(memory, A), [a \in {allocs} |-> b])
    BY DEF RealRealloc
  <1>2. /\ pc[t] = "reallocing" /\ pc' = [pc EXCEPT ![t] = "realloced"]
        /\ UNCHANGED regionVars /\ image' = image /\ Ended({arg[t]})
    BY DEF RealRealloc, Moved
  <1>3. memory' = With([a \in A |-> memory[a]], [a \in {allocs} |-> b]) BY <1>1 DEF Restrict
  <1> HIDE DEF A
  <1> QED BY <1>1, <1>2, <1>3, NewStep DEF NewAlloc, A

\* One thread's place and argument change.
LEMMA ArgStep ==
  ASSUME MemInv, NEW t \in Thread, NEW p \in PC, NEW x,
         pc' = [pc EXCEPT ![t] = p], arg' = [arg EXCEPT ![t] = x],
         memory' = memory, image' = image, allocs' = allocs,
         p = "program" => x = NoAlloc,
         p \in {"malloced", "freeing", "realloced"} => x \in Held,
         p = "reallocing" => x \in Held \cup {NoAlloc},
         x # NoAlloc => \A u \in Thread : arg[u] # x
  PROVE  /\ MemInv' /\ UsableForm /\ UsableForm'
         /\ \A u \in Thread \ {t} : pc'[u] = pc[u] /\ arg'[u] = arg[u]
         /\ pc'[t] = p /\ arg'[t] = x
  <1>1. /\ DOMAIN pc' = Thread /\ DOMAIN arg' = Thread /\ pc'[t] = p /\ arg'[t] = x
        /\ \A u \in Thread \ {t} : pc'[u] = pc[u] /\ arg'[u] = arg[u]
    BY DEF MemInv
  <1>2. Held' = Held BY DEF Held
  <1>3. ASSUME NEW u \in Thread
        PROVE  /\ pc'[u] \in PC
               /\ pc'[u] = "program" => arg'[u] = NoAlloc
               /\ pc'[u] \in {"malloced", "freeing", "realloced"} => arg'[u] \in Held'
               /\ pc'[u] = "reallocing" => arg'[u] \in Held' \cup {NoAlloc}
    BY <1>1, <1>2 DEF MemInv
  <1>4. \A u, v \in Thread : arg'[u] = arg'[v] /\ arg'[u] # NoAlloc => u = v BY <1>1 DEF MemInv
  <1>5. MemInv' BY <1>1, <1>3, <1>4 DEF MemInv
  <1>6. UsableForm /\ UsableForm' BY <1>5, UsableIs, UsableNext
  <1> QED BY <1>1, <1>5, <1>6

\* AfterMalloc and AfterRealloc.
LEMMA AnnounceStep ==
  ASSUME RegionsInv, NEW t \in Thread, AfterMalloc(t) \/ AfterRealloc(t)
  PROVE  RegionsInv'
  <1>0. MemInv /\ PastInv BY DEF RegionsInv
  <1>1. /\ pc[t] \in {"malloced", "realloced"} /\ pc' = [pc EXCEPT ![t] = "program"]
        /\ AllocAddrRegions({memory[arg[t]]}) /\ arg' = [arg EXCEPT ![t] = NoAlloc]
        /\ memory' = memory /\ image' = image /\ allocs' = allocs /\ UNCHANGED pastVars
    BY DEF AfterMalloc, AfterRealloc, Moved, Idle
  <1>2. MemInv' /\ UsableForm /\ UsableForm'
        /\ (\A u \in Thread \ {t} : pc'[u] = pc[u] /\ arg'[u] = arg[u])
        /\ pc'[t] = "program" /\ arg'[t] = NoAlloc
    BY <1>0, <1>1, ArgStep DEF PC
  <1> DEFINE S == {arg[t]}
  <1>3. /\ arg[t] \in DOMAIN memory /\ memory[arg[t]] \in Blocks /\ memory[arg[t]] \notin Sections
        /\ arg[t] # NoAlloc /\ Untouched(arg[t])
    <2>1. arg[t] \in Held /\ Untouched(arg[t]) BY <1>0, <1>1 DEF MemInv, PastInv
    <2>2. NoAlloc \notin DOMAIN memory BY <1>0 DEF MemInv, NoAlloc
    <2> QED BY <2>1, <2>2, Regionlikes DEF Held, Regionlike
  <1>4. Usable' = Usable \cup S /\ S \cap Usable = {}
    <2>1. \A u \in Thread \ {t} : arg[u] # arg[t] BY <1>0, <1>3 DEF MemInv
    <2>2. arg[t] \in Usable' /\ arg[t] \notin Usable BY <1>1, <1>2, <1>3, <2>1 DEF UsableForm
    <2>3. ASSUME NEW a, a # arg[t] PROVE a \in Usable' <=> a \in Usable
      <3>1. a \in DOMAIN memory => a # NoAlloc BY <1>0 DEF MemInv, NoAlloc
      <3>2. a \in DOMAIN memory => ((\A u \in Thread : arg'[u] # a) <=> (\A u \in Thread : arg[u] # a))
        BY <1>2, <2>3, <3>1
      <3> QED BY <1>1, <1>2, <3>2 DEF UsableForm
    <2> QED BY <2>2, <2>3
  <1>5. {memory[a] : a \in S} = {memory[arg[t]]} OBVIOUS
  <1>6. S \in SUBSET DOMAIN memory /\ \A a \in S : Untouched(a) BY <1>3
  <1> HIDE DEF S
  <1>7. RegInv' BY <1>1, <1>4, <1>5, <1>6, RegGrown
  <1>8. PastInv'
    <2>1. \A u \in Thread : pc'[u] \in {"malloced", "realloced"} => pc'[u] = pc[u] /\ arg'[u] = arg[u]
      BY <1>2
    <2> QED BY <1>0, <1>1, <2>1, PastUnmoved
  <1> QED BY <1>2, <1>7, <1>8 DEF RegionsInv

\* The regions of S, a block a thread is about to give back, or nothing, are freed.
LEMMA FreeStep ==
  ASSUME RegionsInv, NEW t \in Thread, NEW p \in {"freeing", "reallocing"},
         NEW a \in UsableBlocks \cup {NoAlloc}, a = NoAlloc => p = "reallocing",
         NEW S, S = {a} \ {NoAlloc}, pc[t] = "program",
         pc' = [pc EXCEPT ![t] = p], arg' = [arg EXCEPT ![t] = a],
         memory' = memory, image' = image, allocs' = allocs, UNCHANGED pastVars,
         FreeAddrRegions({memory[b].start : b \in S})
  PROVE  RegionsInv'
  <1>0. MemInv /\ PastInv /\ NoAlloc \notin DOMAIN memory /\ UsableForm
    BY UsableIs DEF RegionsInv, MemInv, NoAlloc
  <1>1. /\ a # NoAlloc => /\ a \in Usable /\ a \in Held /\ memory[a] \in Blocks /\ memory[a] \notin Sections
                         /\ \A u \in Thread : arg[u] # a
    <2> SUFFICES ASSUME a # NoAlloc
                 PROVE  /\ a \in Usable /\ a \in Held /\ memory[a] \in Blocks /\ memory[a] \notin Sections
                        /\ \A u \in Thread : arg[u] # a
      OBVIOUS
    <2>1. a \in Usable /\ memory[a] \in Blocks BY DEF UsableBlocks
    <2>2. memory[a] \notin Sections BY <2>1, Regionlikes DEF Regionlike
    <2> QED BY <1>0, <2>1, <2>2 DEF UsableForm, Held
  <1>2. MemInv' /\ UsableForm'
        /\ (\A u \in Thread \ {t} : pc'[u] = pc[u] /\ arg'[u] = arg[u])
        /\ pc'[t] = p /\ arg'[t] = a
    BY <1>0, <1>1, ArgStep DEF PC
  <1>3. arg[t] = NoAlloc BY <1>0 DEF MemInv
  <1>4. S \in SUBSET Usable /\ \A c \in S : memory[c] \in Blocks BY <1>1
  <1>5. Usable' = Usable \ S
    <2>1. ASSUME NEW c \in DOMAIN memory
          PROVE  c \in Usable' <=> c \in Usable /\ c # a
      <3>1. c # NoAlloc BY <1>0
      <3>2. (\A u \in Thread : arg'[u] # c) <=> (\A u \in Thread : arg[u] # c) /\ c # a
        BY <1>2, <1>3, <3>1
      <3>3. memory[c] \in Sections => c # a BY <1>0, <1>1
      <3> QED BY <1>0, <1>2, <3>2, <3>3 DEF UsableForm
    <2>2. Usable \subseteq DOMAIN memory /\ Usable' \subseteq DOMAIN memory BY <1>0, <1>2 DEF UsableForm
    <2> QED BY <1>0, <2>1, <2>2
  <1>6. RegInv' BY <1>4, <1>5, RegShrunk
  <1>7. PastInv'
    <2>1. \A u \in Thread : pc'[u] \in {"malloced", "realloced"} => pc'[u] = pc[u] /\ arg'[u] = arg[u]
      BY <1>2
    <2> QED BY <1>0, <2>1, PastUnmoved
  <1> QED BY <1>2, <1>6, <1>7 DEF RegionsInv

LEMMA BeforeFreeStep ==
  ASSUME RegionsInv, NEW t \in Thread, BeforeFree(t) \/ BeforeRealloc(t)
  PROVE  RegionsInv'
  <1>0. NoAlloc \notin Usable BY UsableIs DEF RegionsInv, MemInv, NoAlloc, UsableForm
  <1>1. CASE BeforeFree(t)
    <2>1. PICK a \in UsableBlocks : arg' = [arg EXCEPT ![t] = a] /\ FreeAddrRegions({memory[a].start})
      BY <1>1 DEF BeforeFree
    <2>2. a # NoAlloc BY <1>0 DEF UsableBlocks
    <2> DEFINE S == {a} \ {NoAlloc}
    <2>3. {memory[b].start : b \in S} = {memory[a].start} BY <2>2
    <2>4. /\ pc[t] = "program" /\ pc' = [pc EXCEPT ![t] = "freeing"]
          /\ memory' = memory /\ image' = image /\ allocs' = allocs /\ UNCHANGED pastVars
      BY <1>1 DEF BeforeFree, Moved
    <2>5. FreeAddrRegions({memory[b].start : b \in S}) BY <2>1, <2>3
    <2>6. S = {a} \ {NoAlloc} OBVIOUS
    <2> HIDE DEF S
    <2> QED BY <2>1, <2>2, <2>4, <2>5, <2>6, FreeStep
  <1>2. CASE BeforeRealloc(t)
    <2>1. PICK a \in UsableBlocks \cup {NoAlloc} :
            /\ arg' = [arg EXCEPT ![t] = a]
            /\ FreeAddrRegions({memory[b].start : b \in {a} \ {NoAlloc}})
      BY <1>2 DEF BeforeRealloc
    <2>2. /\ pc[t] = "program" /\ pc' = [pc EXCEPT ![t] = "reallocing"]
          /\ memory' = memory /\ image' = image /\ allocs' = allocs /\ UNCHANGED pastVars
      BY <1>2 DEF BeforeRealloc, Moved
    <2> QED BY <2>1, <2>2, FreeStep
  <1> QED BY <1>1, <1>2

\* Fewer allocations do not overlap either.
LEMMA PlacedLess ==
  ASSUME NEW mem, Placed(DOMAIN mem, mem), NEW new, DOMAIN new \subseteq DOMAIN mem,
         \A a \in DOMAIN new : new[a] = mem[a]
  PROVE  Placed(DOMAIN new, new)
  BY DEF Placed

LEMMA RealFreeStep ==
  ASSUME RegionsInv, NEW t \in Thread, RealFree(t)
  PROVE  RegionsInv'
  <1> DEFINE S == {arg[t]}
  <1>0. MemInv /\ UsableForm BY UsableIs DEF RegionsInv
  <1>1. /\ pc[t] = "freeing" /\ pc' = [pc EXCEPT ![t] = "program"]
        /\ arg' = [arg EXCEPT ![t] = NoAlloc] /\ Ended(S)
        /\ memory' = Restrict(memory, DOMAIN memory \ S)
        /\ image' = image /\ allocs' = allocs /\ UNCHANGED regionVars
    BY DEF RealFree, Moved, Idle
  <1>2. /\ arg[t] \in DOMAIN memory /\ memory[arg[t]] \in Blocks /\ memory[arg[t]] \notin Sections
        /\ arg[t] # NoAlloc
    <2>1. arg[t] \in Held BY <1>0, <1>1 DEF MemInv
    <2>2. NoAlloc \notin DOMAIN memory BY <1>0 DEF MemInv, NoAlloc
    <2> QED BY <2>1, <2>2, Regionlikes DEF Held, Regionlike
  <1>3. DOMAIN memory' = DOMAIN memory \ S /\ \A a \in DOMAIN memory' : memory'[a] = memory[a]
    BY <1>1 DEF Restrict
  <1>4. /\ DOMAIN pc' = Thread /\ DOMAIN arg' = Thread /\ pc'[t] = "program" /\ arg'[t] = NoAlloc
        /\ \A u \in Thread \ {t} : pc'[u] = pc[u] /\ arg'[u] = arg[u] /\ arg[u] # arg[t]
    BY <1>0, <1>1, <1>2 DEF MemInv
  <1>5. MemInv'
    <2>1. ASSUME NEW u \in Thread
          PROVE  /\ pc'[u] \in PC
                 /\ pc'[u] = "program" => arg'[u] = NoAlloc
                 /\ pc'[u] \in {"malloced", "freeing", "realloced"} => arg'[u] \in Held'
                 /\ pc'[u] = "reallocing" => arg'[u] \in Held' \cup {NoAlloc}
      <3>1. Held' = Held \ S BY <1>3 DEF Held
      <3>2. CASE u = t BY <1>4, <3>2 DEF PC
      <3>3. CASE u # t BY <1>0, <1>4, <3>1, <3>3 DEF MemInv
      <3> QED BY <3>2, <3>3
    <2>2. \A u, v \in Thread : arg'[u] = arg'[v] /\ arg'[u] # NoAlloc => u = v
      BY <1>0, <1>4 DEF MemInv
    <2>3. image' # "none" => Sections \subseteq {memory'[a] : a \in DOMAIN memory'}
      <3> SUFFICES ASSUME image # "none", NEW r \in Sections
                   PROVE  r \in {memory'[a] : a \in DOMAIN memory'}
        BY <1>1
      <3>1. PICK a \in DOMAIN memory : memory[a] = r BY <1>0 DEF MemInv
      <3>2. a # arg[t] BY <1>2, <3>1
      <3> QED BY <1>3, <3>1, <3>2
    <2>4. Placed(DOMAIN memory', memory') BY <1>0, <1>3, PlacedLess DEF MemInv
    <2>5. image' = "none" => \A a \in DOMAIN memory' : memory'[a] \notin Sections
      BY <1>0, <1>1, <1>3 DEF MemInv
    <2>6. allocs' \in Nat /\ DOMAIN memory' \subseteq 0 .. allocs' - 1 BY <1>0, <1>1, <1>3 DEF MemInv
    <2> QED BY <1>4, <2>1, <2>2, <2>3, <2>4, <2>5, <2>6 DEF MemInv
  <1>6. Usable' = Usable /\ S \cap Usable = {}
    <2>1. UsableForm' BY <1>5, UsableNext
    <2>2. arg[t] \notin Usable BY <1>0, <1>2 DEF UsableForm
    <2>3. ASSUME NEW a \in DOMAIN memory' PROVE a \in Usable' <=> a \in Usable
      <3>1. a # arg[t] /\ a # NoAlloc BY <1>0, <1>3 DEF MemInv, NoAlloc
      <3>2. (\A u \in Thread : arg'[u] # a) <=> (\A u \in Thread : arg[u] # a) BY <1>4, <3>1
      <3> QED BY <1>0, <1>1, <1>3, <2>1, <3>2 DEF UsableForm
    <2>4. Usable' \subseteq DOMAIN memory' BY <2>1 DEF UsableForm
    <2>5. Usable \subseteq DOMAIN memory' BY <1>0, <1>3, <2>2 DEF UsableForm
    <2> QED BY <2>2, <2>3, <2>4, <2>5
  <1>7. S \in SUBSET DOMAIN memory BY <1>2
  <1>8. /\ \A u \in Thread : pc'[u] \in {"malloced", "realloced"} => pc'[u] = pc[u] /\ arg'[u] = arg[u]
    BY <1>4
  <1> HIDE DEF S
  <1>9. PastInv'
    <2>1. /\ PastIn(accessed', memory') /\ PastIn(locked', memory')
          /\ accessed' \cup locked' \subseteq accessed \cup locked
      BY <1>1, <1>3, PastGone DEF RegionsInv
    <2>2. \A a : Untouched(a) => Untouched(a)' BY <2>1 DEF Untouched
    <2>3. \A u \in Thread : pc'[u] \in {"malloced", "realloced"} =>
            \A q \in accessed' \cup locked' : q[1] # arg'[u]
      <3> SUFFICES ASSUME NEW u \in Thread, pc'[u] \in {"malloced", "realloced"}
                   PROVE  \A q \in accessed' \cup locked' : q[1] # arg'[u]
        OBVIOUS
      <3>1. arg'[u] = arg[u] /\ Untouched(arg[u]) BY <1>8 DEF PastInv, RegionsInv
      <3> QED BY <2>1, <3>1 DEF Untouched
    <2>4. image' = "mapped" => \A a \in DOMAIN memory' : memory'[a] \in Sections => Untouched(a)'
      BY <1>1, <1>3, <2>2 DEF PastInv, RegionsInv
    <2> QED BY <2>1, <2>3, <2>4 DEF PastInv, Untouched
  <1>10. RegInv'
    <2>1. \A a \in Usable : memory'[a] = memory[a] BY <1>0, <1>3, <1>6 DEF UsableForm
    <2> QED BY <1>1, <1>6, <2>1, RegUnmoved DEF Ended
  <1> QED BY <1>5, <1>9, <1>10 DEF RegionsInv

-----------------------------------------------------------------------------
(* Images. *)

SectionAllocs == {a \in DOMAIN memory : memory[a] \in Sections}

LEMMA MapImageStep ==
  ASSUME RegionsInv, MapImage
  PROVE  RegionsInv'
  <1>0. MemInv /\ PastInv /\ UsableForm BY UsableIs DEF RegionsInv
  <1> DEFINE N == allocs .. allocs' - 1
  <1>1. PICK number \in Bijection(N, Sections) : memory' = With(memory, number) BY DEF MapImage
  <1>2. /\ image = "none" /\ image' = "mapped" /\ allocs' = allocs + Cardinality(Sections)
        /\ UNCHANGED <<regionVars, pc, arg, pastVars>>
    BY DEF MapImage
  <1>3. allocs' \in Nat /\ allocs <= allocs' /\ allocs \in Nat
    <2>1. Cardinality(Sections) \in Nat BY FS_CardinalityType, SectionsAssumption
    <2> QED BY <1>0, <1>2, <2>1 DEF MemInv
  <1>4. /\ DOMAIN number = N /\ \A n \in N : number[n] \in Sections
        /\ \A n, m \in N : number[n] = number[m] => n = m
        /\ \A r \in Sections : \E n \in N : number[n] = r
    BY DEF Bijection, Injection, Surjection, IsInjective
  <1>5. /\ N \cap DOMAIN memory = {} /\ N \cup DOMAIN memory \subseteq 0 .. allocs' - 1
    BY <1>0, <1>3 DEF MemInv
  <1> HIDE DEF N
  <1>6. /\ DOMAIN memory' = DOMAIN memory \cup N
        /\ \A n \in N : memory'[n] = number[n]
        /\ \A a \in DOMAIN memory : memory'[a] = memory[a]
    BY <1>1, <1>4, <1>5 DEF With
  <1>7. \A a \in DOMAIN memory : memory[a] \in Blocks /\ memory[a] \in Regionlike
    BY <1>0, <1>2 DEF MemInv, Placed, Regionlike
  <1>8. \A r \in Sections : r \notin Blocks /\ r \in Regionlike BY Regionlikes DEF Regionlike
  <1>9. MemInv'
    <2>1. \A r \in Sections, b \in Blocks : Bytes(r) \cap Bytes(b) = {}
      BY SectionsAssumption
    <2>2. ASSUME NEW a \in DOMAIN memory', NEW b \in DOMAIN memory', a # b
          PROVE  Bytes(memory'[a]) \cap Bytes(memory'[b]) = {}
      <3>1. CASE a \in N /\ b \in N
        <4>1. memory'[a] \in Sections /\ memory'[b] \in Sections /\ memory'[a] # memory'[b]
          BY <1>4, <1>6, <2>2, <3>1
        <4> QED BY <4>1, SectionsAssumption
      <3>2. CASE a \in N /\ b \in DOMAIN memory
        <4>1. memory'[a] \in Sections /\ memory'[b] \in Blocks BY <1>4, <1>6, <1>7, <3>2
        <4> QED BY <2>1, <4>1
      <3>3. CASE a \in DOMAIN memory /\ b \in N
        <4>1. memory'[b] \in Sections /\ memory'[a] \in Blocks BY <1>4, <1>6, <1>7, <3>3
        <4> QED BY <2>1, <4>1
      <3>4. CASE a \in DOMAIN memory /\ b \in DOMAIN memory
        <4>1. memory'[a] = memory[a] /\ memory'[b] = memory[b] BY <1>6, <3>4
        <4> QED BY <1>0, <2>2, <3>4, <4>1 DEF MemInv, Placed
      <3> QED BY <1>6, <3>1, <3>2, <3>3, <3>4
    <2>3. \A a \in DOMAIN memory' : memory'[a] \in Regionlike BY <1>4, <1>6, <1>7, <1>8
    <2>4. Placed(DOMAIN memory', memory') BY <2>2, <2>3 DEF Placed
    <2>5. Held' = Held BY <1>4, <1>6, <1>8 DEF Held
    <2>6. Sections \subseteq {memory'[a] : a \in DOMAIN memory'} BY <1>4, <1>6
    <2> QED BY <1>0, <1>2, <1>3, <1>5, <1>6, <2>4, <2>5, <2>6 DEF MemInv
  <1>10. Usable' = Usable
    <2>1. UsableForm' BY <1>9, UsableNext
    <2>2. \A a \in N : a \notin Usable /\ a \notin Usable'
      BY <1>0, <1>2, <1>4, <1>5, <1>6, <1>8, <2>1 DEF UsableForm
    <2>3. \A a \in DOMAIN memory : a \in Usable' <=> a \in Usable
      BY <1>0, <1>2, <1>6, <1>7, <2>1 DEF UsableForm, MemInv
    <2> QED BY <1>0, <1>6, <2>1, <2>2, <2>3 DEF UsableForm
  <1>11. PastInv'
    <2>1. Ended({}) BY <1>2 DEF Ended, pastVars
    <2>2. /\ PastIn(accessed', memory') /\ PastIn(locked', memory')
      BY <1>0, <1>6, <2>1, PastGone
    <2>3. \A a \in N : Untouched(a)
      <3>1. \A q \in accessed \cup locked : q[1] \in DOMAIN memory BY <1>0, PastUnits DEF PastInv
      <3> QED BY <1>5, <3>1 DEF Untouched
    <2>4. \A a \in DOMAIN memory' : memory'[a] \in Sections => a \in N
      BY <1>0, <1>2, <1>6 DEF MemInv
    <2> QED BY <1>0, <1>2, <2>2, <2>3, <2>4 DEF PastInv, Untouched, pastVars
  <1>12. RegInv'
    <2>1. \A a \in Usable : memory'[a] = memory[a] BY <1>0, <1>6 DEF UsableForm
    <2> DEFINE S == {}
    <2>2. /\ S \cap Usable = {}
          /\ accessed' = {q \in accessed : q[1] \notin S} /\ locked' = {q \in locked : q[1] \notin S}
      BY <1>2 DEF pastVars
    <2> HIDE DEF S
    <2> QED BY <1>2, <1>10, <2>1, <2>2, RegUnmoved
  <1> QED BY <1>9, <1>11, <1>12 DEF RegionsInv

\* The image goes on, and the memory is as it was.
LEMMA ImageStep ==
  ASSUME MemInv, UNCHANGED <<memory, pc, arg, allocs>>, image # "none", image' # "none"
  PROVE  /\ MemInv' /\ UsableForm /\ UsableForm'
         /\ {memory[a] : a \in SectionAllocs} = Sections
  <1>1. MemInv' BY DEF MemInv, Held
  <1>2. {memory[a] : a \in SectionAllocs} = Sections BY DEF MemInv, SectionAllocs
  <1> QED BY <1>1, <1>2, UsableIs, UsableNext

LEMMA ImageLoadStep ==
  ASSUME RegionsInv, ImageLoad
  PROVE  RegionsInv'
  <1> DEFINE S == SectionAllocs
  <1>1. /\ image = "mapped" /\ image' = "loaded" /\ AllocAddrRegions(Sections)
        /\ memory' = memory /\ UNCHANGED <<memory, pc, arg, allocs>> /\ UNCHANGED pastVars
    BY DEF ImageLoad
  <1>2. MemInv /\ MemInv' /\ UsableForm /\ UsableForm' /\ {memory[a] : a \in S} = Sections
    BY <1>1, ImageStep DEF RegionsInv
  <1>3. /\ S \in SUBSET DOMAIN memory /\ S \cap Usable = {} /\ Usable' = Usable \cup S
        /\ \A a \in S : Untouched(a)
    <2>1. \A a \in S : a \in DOMAIN memory /\ memory[a] \in Sections /\ memory[a] \notin Blocks
      BY Regionlikes DEF SectionAllocs, Regionlike
    <2>2. \A a : a \in Usable' <=> a \in Usable \/ a \in S
      BY <1>1, <1>2, <2>1 DEF UsableForm, SectionAllocs
    <2>3. S \cap Usable = {} BY <1>1, <1>2, <2>1 DEF UsableForm
    <2>4. \A a \in S : Untouched(a) BY <1>1, <2>1 DEF RegionsInv, PastInv
    <2> QED BY <2>1, <2>2, <2>3, <2>4
  <1> HIDE DEF S
  <1>4. RegInv' BY <1>1, <1>2, <1>3, RegGrown
  <1>5. PastInv'
    <2>1. \A u \in Thread : pc'[u] \in {"malloced", "realloced"} => pc'[u] = pc[u] /\ arg'[u] = arg[u]
      BY <1>1
    <2> QED BY <1>1, <2>1, PastUnmoved DEF RegionsInv
  <1> QED BY <1>2, <1>4, <1>5 DEF RegionsInv

LEMMA ImageUnloadStep ==
  ASSUME RegionsInv, ImageUnload
  PROVE  RegionsInv'
  <1> DEFINE S == SectionAllocs
  <1>1. /\ image = "loaded" /\ image' = "unloaded" /\ FreeAddrRegions({b.start : b \in Sections})
        /\ memory' = memory /\ UNCHANGED <<memory, pc, arg, allocs>> /\ UNCHANGED pastVars
    BY DEF ImageUnload
  <1>2. MemInv /\ MemInv' /\ UsableForm /\ UsableForm' /\ {memory[a] : a \in S} = Sections
    BY <1>1, ImageStep DEF RegionsInv
  <1>3. \A a \in S : a \in DOMAIN memory /\ memory[a] \in Sections /\ memory[a] \notin Blocks
    BY Regionlikes DEF SectionAllocs, Regionlike
  <1>4. /\ S \in SUBSET Usable /\ Usable' = Usable \ S
        /\ \A a \in Usable \ S : memory[a] \in Blocks
    <2>1. \A a : a \in Usable' <=> a \in Usable /\ a \notin S
      BY <1>1, <1>2, <1>3 DEF UsableForm, SectionAllocs
    <2>2. S \subseteq Usable BY <1>1, <1>2, <1>3 DEF UsableForm
    <2>3. \A a \in Usable \ S : memory[a] \in Blocks BY <1>2 DEF UsableForm, SectionAllocs
    <2> QED BY <2>1, <2>2, <2>3
  <1>5. {b.start : b \in Sections} = {memory[a].start : a \in S}
    BY <1>2
  <1> HIDE DEF S
  <1>6. RegInv' BY <1>1, <1>4, <1>5, RegShrunk
  <1>7. PastInv'
    <2>1. \A u \in Thread : pc'[u] \in {"malloced", "realloced"} => pc'[u] = pc[u] /\ arg'[u] = arg[u]
      BY <1>1
    <2> QED BY <1>1, <2>1, PastUnmoved DEF RegionsInv
  <1> QED BY <1>2, <1>6, <1>7 DEF RegionsInv

LEMMA UnmapImageStep ==
  ASSUME RegionsInv, UnmapImage
  PROVE  RegionsInv'
  <1>0. MemInv /\ PastInv /\ UsableForm BY UsableIs DEF RegionsInv
  <1> DEFINE S == SectionAllocs
  <1>1. /\ image = "unloaded" /\ image' = "none"
        /\ memory' = Restrict(memory, DOMAIN memory \ S) /\ Ended(S)
        /\ UNCHANGED regionVars /\ pc' = pc /\ arg' = arg /\ allocs' = allocs
    BY DEF UnmapImage, SectionAllocs
  <1>2. \A a \in DOMAIN memory : a \in S <=> memory[a] \in Sections BY DEF SectionAllocs
  <1>3. DOMAIN memory' = DOMAIN memory \ S /\ \A a \in DOMAIN memory' : memory'[a] = memory[a]
    BY <1>1 DEF Restrict
  <1>4. \A a \in DOMAIN memory : memory[a] \in Blocks => memory[a] \notin Sections
    BY Regionlikes DEF Regionlike
  <1> HIDE DEF S
  <1>5. MemInv'
    <2>1. Held' = Held BY <1>2, <1>3, <1>4 DEF Held
    <2>2. Placed(DOMAIN memory', memory') BY <1>0, <1>3, PlacedLess DEF MemInv
    <2>3. \A a \in DOMAIN memory' : memory'[a] \notin Sections BY <1>2, <1>3
    <2> QED BY <1>0, <1>1, <1>3, <2>1, <2>2, <2>3 DEF MemInv
  <1>6. Usable' = Usable /\ S \cap Usable = {}
    <2>1. UsableForm' BY <1>5, UsableNext
    <2>2. S \cap Usable = {} BY <1>0, <1>1, <1>2, <1>4 DEF UsableForm
    <2>3. \A a \in DOMAIN memory' : a \in Usable' <=> a \in Usable
      BY <1>0, <1>1, <1>2, <1>3, <2>1 DEF UsableForm
    <2>4. Usable' \subseteq DOMAIN memory' /\ Usable \subseteq DOMAIN memory'
      BY <1>0, <1>3, <2>1, <2>2 DEF UsableForm
    <2> QED BY <2>2, <2>3, <2>4
  <1>7. PastInv'
    <2>1. /\ PastIn(accessed', memory') /\ PastIn(locked', memory')
          /\ accessed' \cup locked' \subseteq accessed \cup locked
      BY <1>0, <1>1, <1>3, PastGone
    <2> QED BY <1>0, <1>1, <2>1 DEF PastInv, Untouched
  <1>8. RegInv'
    <2>1. \A a \in Usable : memory'[a] = memory[a] BY <1>0, <1>3, <1>6 DEF UsableForm
    <2> QED BY <1>1, <1>6, <2>1, RegUnmoved DEF Ended
  <1> QED BY <1>5, <1>7, <1>8 DEF RegionsInv

-----------------------------------------------------------------------------
(* Accesses. *)

\* The program uses units of an allocation, whose accesses or synchronisation
\* objects are remembered there.
LEMMA UseStep ==
  ASSUME RegionsInv, UNCHANGED <<regions, programVars>>,
         NEW a \in Usable, NEW U \in SUBSET UnitsOf(memory[a]),
         NEW uses, uses = {<<a, u>> : u \in U},
         \/ /\ metas' = GetMeta(metas, U, a) /\ accessed' = accessed \cup uses
            /\ UNCHANGED <<syncMetas, locked>>
         \/ /\ syncMetas' = GetMeta(syncMetas, U, a) /\ locked' = locked \cup uses
            /\ UNCHANGED <<metas, accessed>>
  PROVE  RegionsInv'
  <1>0. MemInv /\ PastInv /\ UsableForm BY UsableIs DEF RegionsInv
  <1>1. /\ memory' = memory /\ pc' = pc /\ arg' = arg /\ image' = image /\ allocs' = allocs
        /\ regions' = regions
    BY DEF programVars
  <1>2. MemInv' BY <1>0, <1>1 DEF MemInv, Held
  <1>3. Usable' = Usable BY <1>1 DEF Usable
  <1>4. /\ accessed' \subseteq accessed \cup uses /\ locked' \subseteq locked \cup uses OBVIOUS
  <1>5. a \in DOMAIN memory BY <1>0 DEF UsableForm
  <1>6. PastInv'
    <2>1. PastIn(uses, memory) BY <1>5 DEF PastIn
    <2>2. PastIn(accessed', memory') /\ PastIn(locked', memory')
      BY <1>0, <1>1, <1>4, <2>1 DEF PastInv, PastIn
    <2>3. \A q \in uses : q[1] = a OBVIOUS
    <2>4. ASSUME NEW b, Untouched(b), b # a PROVE Untouched(b)'
      BY <1>4, <2>3, <2>4 DEF Untouched
    <2>5. ASSUME NEW t \in Thread, pc[t] \in {"malloced", "realloced"} PROVE arg[t] # a
      <3>1. memory[a] \in Sections \/ arg[t] # a BY <1>0 DEF UsableForm
      <3>2. arg[t] \in Held BY <1>0, <2>5 DEF MemInv
      <3> QED BY <3>1, <3>2, Regionlikes DEF Held, Regionlike
    <2>6. image = "mapped" => memory[a] \notin Sections
      BY <1>0, Regionlikes DEF UsableForm, Regionlike
    <2> QED BY <1>0, <1>1, <2>2, <2>4, <2>5, <2>6 DEF PastInv
  <1>7. RegInv'
    <2>1. RegionsOf(regions', Usable', memory') BY <1>1, <1>3 DEF RegionsInv, RegInv
    <2>2. TableOf(metas, accessed, Usable) /\ TableOf(syncMetas, locked, Usable)
      BY DEF RegionsInv, RegInv
    <2>3. TableOf(metas', accessed', Usable) /\ TableOf(syncMetas', locked', Usable)
      <3>1. TableOf(GetMeta(metas, U, a), accessed \cup uses, Usable) BY <2>2, TableMet
      <3>2. TableOf(GetMeta(syncMetas, U, a), locked \cup uses, Usable) BY <2>2, TableMet
      <3> QED BY <2>2, <3>1, <3>2
    <2> QED BY <1>3, <2>1, <2>3 DEF RegInv
  <1> QED BY <1>2, <1>6, <1>7 DEF RegionsInv

LEMMA BeforeMemStep ==
  ASSUME RegionsInv, NEW t \in Thread, BeforeMem(t)
  PROVE  RegionsInv'
  <1>1. PICK a \in Usable, size \in AccessSizes :
          \E addr \in Bytes(memory[a]) : addr + size - 1 \in Bytes(memory[a]) /\ Access(addr, size, a)
    BY DEF BeforeMem
  <1>2. PICK addr \in Bytes(memory[a]) : addr + size - 1 \in Bytes(memory[a]) /\ Access(addr, size, a)
    BY <1>1
  <1> DEFINE U == {UnitDownAlign(x) : x \in addr .. addr + size - 1}
             uses == {<<a, u>> : u \in U}
  <1>3. memory[a] \in Regionlike /\ Placed(Usable, memory)
    <2>1. Usable \subseteq DOMAIN memory BY UsableIs DEF RegionsInv, UsableForm
    <2> QED BY <2>1 DEF RegionsInv, MemInv, Placed
  <1>4. addr \in Nat /\ size \in Nat \ {0} BY <1>3, Regionlikes, SizesAssumption
  <1>5. Units(addr, size) = U BY <1>4, UnitsVisited
  <1>6. U \subseteq UnitsOf(memory[a])
    <2>1. memory[a].start \in Nat /\ memory[a].size \in Nat BY <1>3, Regionlikes
    <2>2. addr .. addr + size - 1 \subseteq Bytes(memory[a]) BY <1>2, <1>4, <2>1 DEF Bytes
    <2> QED BY <2>2 DEF UnitsOf
  <1>7. ~ Filter(regions, addr)
    BY <1>3, <1>4, FilterFinds DEF RegionsInv, RegInv
  <1>8. uses = {<<a, UnitDownAlign(x)>> : x \in addr .. addr + size - 1} OBVIOUS
  <1>9. metas' = GetMeta(metas, U, a) /\ accessed' = accessed \cup uses
    BY <1>2, <1>5, <1>7, <1>8 DEF Access
  <1>10. UNCHANGED <<regions, programVars>> /\ UNCHANGED <<syncMetas, locked>> BY DEF BeforeMem
  <1>11. uses = {<<a, u>> : u \in U} OBVIOUS
  <1> HIDE DEF U, uses
  <1> QED BY <1>6, <1>9, <1>10, <1>11, UseStep

LEMMA BeforePthreadCallStep ==
  ASSUME RegionsInv, NEW t \in Thread, BeforePthreadCall(t)
  PROVE  RegionsInv'
  <1>1. PICK a \in Usable : \E u \in {v \in AllUnits : v .. v + UnitSize - 1 \subseteq Bytes(memory[a])} :
          syncMetas' = GetMeta(syncMetas, {u}, a) /\ locked' = locked \cup {<<a, u>>}
    BY DEF BeforePthreadCall
  <1>2. PICK u \in AllUnits : /\ u .. u + UnitSize - 1 \subseteq Bytes(memory[a])
                             /\ syncMetas' = GetMeta(syncMetas, {u}, a)
                             /\ locked' = locked \cup {<<a, u>>}
    BY <1>1
  <1>3. UNCHANGED <<regions, programVars>> /\ UNCHANGED <<metas, accessed>> BY DEF BeforePthreadCall
  <1>4. u \in UnitsOf(memory[a])
    <2>1. PICK x \in AllBytes : u = UnitDownAlign(x) BY DEF AllUnits
    <2>2. x \in Nat BY Regionlikes DEF AllBytes, Regionlike
    <2>3. u \in Nat /\ Aligned(u) BY <2>1, <2>2, DownAligned
    <2>4. u < u + UnitSize BY <2>3, UnitAssumption
    <2>5. u = UnitDownAlign(u) BY <2>3, <2>4, DownAligned
    <2>6. u \in Bytes(memory[a])
      <3>1. u \in u .. u + UnitSize - 1 BY <2>3, UnitAssumption
      <3> QED BY <1>2, <3>1
    <2> QED BY <2>5, <2>6 DEF UnitsOf
  <1> DEFINE U == {u}
             uses == {<<a, v>> : v \in U}
  <1>5. uses = {<<a, u>>} OBVIOUS
  <1>6. syncMetas' = GetMeta(syncMetas, U, a) /\ locked' = locked \cup uses BY <1>2, <1>5
  <1>7. U \in SUBSET UnitsOf(memory[a]) /\ uses = {<<a, v>> : v \in U} BY <1>4
  <1> HIDE DEF U, uses
  <1> QED BY <1>3, <1>6, <1>7, UseStep

-----------------------------------------------------------------------------
(* The theorem. *)

LEMMA RegionsInit == Init => RegionsInv
  <1> SUFFICES ASSUME Init PROVE RegionsInv OBVIOUS
  <1> USE DEF Init
  <1>1. memory = <<>> /\ DOMAIN memory = {} /\ DOMAIN regions = {} OBVIOUS
  <1>2. MemInv BY <1>1 DEF MemInv, Placed, PC, Held
  <1>3. PastInv BY <1>1 DEF PastInv, PastIn, Untouched
  <1>4. Usable = {} BY <1>1 DEF Usable
  <1>5. RegInv BY <1>1, <1>4 DEF RegInv, RegionsOf, TableOf
  <1> QED BY <1>2, <1>3, <1>5 DEF RegionsInv

LEMMA RegionsStep == RegionsInv /\ [Next]_vars => RegionsInv'
  <1> SUFFICES ASSUME RegionsInv, [Next]_vars PROVE RegionsInv' OBVIOUS
  <1>1. ASSUME NEW t \in Thread, ThreadNext(t) PROVE RegionsInv'
    <2>1. CASE RealMalloc(t) BY <2>1, MallocStep
    <2>2. CASE AfterMalloc(t) \/ AfterRealloc(t) BY <2>2, AnnounceStep
    <2>3. CASE BeforeFree(t) \/ BeforeRealloc(t) BY <2>3, BeforeFreeStep
    <2>4. CASE RealFree(t) BY <2>4, RealFreeStep
    <2>5. CASE RealRealloc(t) BY <2>5, ReallocStep
    <2>6. CASE BeforeMem(t) BY <2>6, BeforeMemStep
    <2>7. CASE BeforePthreadCall(t) BY <2>7, BeforePthreadCallStep
    <2> QED BY <1>1, <2>1, <2>2, <2>3, <2>4, <2>5, <2>6, <2>7 DEF ThreadNext
  <1>2. CASE MapImage BY <1>2, MapImageStep
  <1>3. CASE ImageLoad BY <1>3, ImageLoadStep
  <1>4. CASE ImageUnload BY <1>4, ImageUnloadStep
  <1>5. CASE UnmapImage BY <1>5, UnmapImageStep
  <1>6. CASE UNCHANGED vars
    <2>1. /\ memory' = memory /\ pc' = pc /\ arg' = arg /\ image' = image /\ allocs' = allocs
          /\ regions' = regions /\ metas' = metas /\ syncMetas' = syncMetas
          /\ accessed' = accessed /\ locked' = locked
      BY <1>6 DEF vars, regionVars, programVars, pastVars
    <2>2. Usable' = Usable BY <2>1 DEF Usable
    <2> QED BY <2>1, <2>2 DEF RegionsInv, MemInv, PastInv, RegInv, Held, Untouched
  <1> QED BY <1>1, <1>2, <1>3, <1>4, <1>5, <1>6 DEF Next

\* However mallocs, reallocs, frees and images of any number of threads interleave,
\* and whatever the unit, the filter lets through the accesses to what has been
\* announced and not freed, and no others; and each unit of the tables has all the
\* accesses to what is there now and none of those to what was there before
\* (RegionFilter, Detector::AllocAddrRegion and FreeAddrRegion).
THEOREM RegionsCorrect == Spec => []TablesFollowMemory
  BY RegionsInit, RegionsStep, RegionsFollow, PTL DEF Spec
=============================================================================
