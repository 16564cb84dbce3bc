--------------------------- MODULE MCOfflineServing ---------------------------
(***************************************************************************)
(* Instances of OfflineServing: two builds of one document, one of another *)
(* and two queries; the device holds one of the two segments.              *)
(***************************************************************************)
EXTENDS OfflineServing

CONSTANTS a, b, build1, build2, build3, query1, query2

MCReq == {build1, build2, build3, query1, query2}
MCPlan == [r \in MCReq |-> CASE r \in {build1, build2} -> a
                             [] r = build3 -> b
                             [] r = query1 -> <<a, b>>
                             [] r = query2 -> <<b>>]
\* the first document and the second question have two tokens
MCTextLen == [r \in MCReq |-> IF r \in {build1, build2, query2} THEN 2 ELSE 1]
=============================================================================
