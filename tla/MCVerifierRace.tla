---------------------------- MODULE MCVerifierRace ----------------------------
EXTENDS VerifierRace, TLC
CONSTANTS t1, t2, t3, s1, s2, s3, w1, r2, w3

\* Two statements that may race with a third one, which may race with itself
\* too; the second only reads.
MCPairs  == {{s1, s3}, {s2, s3}, {s3}}
MCStmtOf == w1 :> s1 @@ r2 :> s2 @@ w3 :> s3
\* The third statement writes NULL to a pointer that the second dereferences.
MCNullFile == {<<s3, 0>>, <<s1, 1>>}
MCTypeOf == w1 :> "W" @@ r2 :> "R" @@ w3 :> "W"
Symmetry == Permutations(Thread \ {Main})
=============================================================================
