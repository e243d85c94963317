------------------------------- MODULE MCRaces -------------------------------
EXTENDS Races, TLC
CONSTANTS t1, t2, t3
Symmetry == Permutations(Thread \ {Main})
=============================================================================
