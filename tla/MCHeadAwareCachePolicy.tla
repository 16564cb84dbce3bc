---------------------- MODULE MCHeadAwareCachePolicy ----------------------
(* The instances of HeadAwareCachePolicy for TLC: a capacity of three bytes, *)
(* with chunks of one and two bytes and one that can never fit.              *)
EXTENDS HeadAwareCachePolicy
=============================================================================
