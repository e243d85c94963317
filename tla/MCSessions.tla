----------------------------- MODULE MCSessions -----------------------------
EXTENDS Sessions

\* "load" is generated code, "store" is at offset 2 and on line 7 of exe
MCImageOf == [p \in Place |-> IF p = "load" THEN PseudoImage ELSE "exe"]
MCOffsetOf == [p \in Place |-> 2]
MCLineOf == [p \in Place |-> IF p = "load" THEN 0 ELSE 7]
MCTypeOf == [p \in Place |-> IF p = "load" THEN "read" ELSE "write"]
Symmetry == Permutations(Thread)
=============================================================================
