------------------------- MODULE MCVolumeProvision -------------------------
(* The instances: two provider volumes, two delete requests.               *)
EXTENDS VolumeProvision, TLC

=============================================================================
