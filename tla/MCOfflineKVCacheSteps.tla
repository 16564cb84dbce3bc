------------------------ MODULE MCOfflineKVCacheSteps ------------------------
(* Instances of OfflineKVCacheSteps for TLC. *)
EXTENDS OfflineKVCacheSteps

\* 3 is equal to MaxDevice, 5 to both ceilings together, 6 above them
MCSizes == {1, 3, 5, 6}
=============================================================================
