-------------------------- MODULE MCVolumeSnapshot --------------------------
(* VolumeSnapshot on small instances; snapshot ids and request slots are    *)
(* interchangeable.                                                         *)
EXTENDS VolumeSnapshot, TLC

Symmetry == Permutations(Snaps) \cup Permutations(Requests)
=============================================================================
