----------------------------- MODULE MCHiCache ------------------------------
(* Two prompts with a common first page and a third one, on a device that  *)
(* cannot hold all three.  The host is two pages larger than the device,   *)
(* the smallest difference that leaves prefetch_capacity_limit above zero. *)
EXTENDS HiCache

CONSTANTS r1, r2, r3

MCPrompt == r1 :> <<1, 2>> @@ r2 :> <<1, 3, 4>> @@ r3 :> <<5, 6, 7, 8, 9>>
MCPolicies == {[write |-> "write_through", stop |-> "wait_complete"],
               [write |-> "write_through_selective", stop |-> "timeout"],
               [write |-> "write_through_selective", stop |-> "wait_complete"],
               [write |-> "write_back", stop |-> "best_effort"]}
\* write_through backs up at once, which makes for many more states
MCMaxArrivals == [write_through |-> 2, write_through_selective |-> 3, write_back |-> 3]
MCStored == {{<<1>>, <<1, 2>>}}
=============================================================================
