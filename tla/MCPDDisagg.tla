----------------------------- MODULE MCPDDisagg -----------------------------
(* Two requests with prompts of two pages, or of two and one.              *)
EXTENDS PDDisagg, TLC

CONSTANTS r1, r2

EvenChunks == (r1 :> 2) @@ (r2 :> 2)
OddChunks  == (r1 :> 2) @@ (r2 :> 1)
MCNewPages == (r1 :> 1) @@ (r2 :> 1)

Rooms == Permutations(Room)
=============================================================================
