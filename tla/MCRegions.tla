----------------------------- MODULE MCRegions -----------------------------
EXTENDS Regions, TLC

\* Blocks at two places, one of which can grow over the other, and sections
\* that share a unit.
MCBlocks == {[start |-> 2, size |-> 3], [start |-> 2, size |-> 5], [start |-> 6, size |-> 1]}
MCSections == {[start |-> 8, size |-> 3], [start |-> 11, size |-> 2]}
Symmetry == Permutations(Thread)
=============================================================================
