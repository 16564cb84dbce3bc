------------------------------ MODULE ByteCounts ------------------------------
(***************************************************************************)
(* What the resident entries of a byte-bounded cache take.  A sum of sizes *)
(* is the number of byte cells, so that it can be reasoned about without   *)
(* recursion.                                                              *)
(***************************************************************************)
EXTENDS Integers, FiniteSets

\* g maps the keys of a cache to entries with a size, S is a set of keys
Cells(g, S) == UNION {{s} \X (1 .. g[s].nbytes) : s \in S}
Bytes(g, S) == Cardinality(Cells(g, S))
===============================================================================
