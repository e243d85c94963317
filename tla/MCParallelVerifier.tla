--------------------------- MODULE MCParallelVerifier ---------------------------
EXTENDS ParallelVerifier
CONSTANTS t1, t2, s1, s2, w1, r2, plain

\* One statement writes, one reads, and the first may race with itself too.
MCPairs  == {{s1, s2}, {s1}}
MCStmtOf == [i \in Inst |-> IF i = w1 THEN s1 ELSE IF i = r2 THEN s2 ELSE NoStmt]
MCTypeOf == [i \in Inst |-> IF i = r2 THEN "R" ELSE "W"]
MCCode   == [t \in Thread |-> IF t = t1 THEN {w1} ELSE {r2, plain}]
=============================================================================
