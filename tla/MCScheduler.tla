----------------------------- MODULE MCScheduler -----------------------------
(***************************************************************************)
(* Instances of Scheduler: requests that share prefixes in a pool that     *)
(* cannot hold them all to the end.                                        *)
(***************************************************************************)
EXTENDS Scheduler

\* both event loops, with and without mixed chunked prefill
MCServerArgs == [overlap : BOOLEAN, mixed : BOOLEAN]
MCOverlap == {[overlap |-> TRUE, mixed |-> FALSE]}

\* pages of two tokens: the two prompts share two pages, and the second, which
\* is chunked, parts from what the first one generates
MCPrompt == << <<0, 0, 0, 0>>, <<0, 0, 0, 0, 1>> >>
MCMaxNew == <<9, 4>>

\* pages of two tokens: what the first one generates may be longer than the
\* prefix the second shares with it
MCStripPrompt == << <<0, 0, 0>>, <<0, 0, 0, 0, 1>> >>

\* the second finishes with its first token
MCShortMaxNew == <<5, 1>>
=============================================================================
