--------------------------- MODULE MCVolumeAttach ---------------------------
(* VolumeAttach on small instances; instances, attachment ids and call ids  *)
(* are interchangeable.                                                     *)
EXTENDS VolumeAttach, TLC

Symmetry ==
    Permutations(Instances) \cup Permutations(AttIds) \cup Permutations(CallIds)

\* bounds attach_restart: a user's delete, an upload and an extend run one at a
\* time beside attach, detach and a resumed delete; an upload or an extend beside
\* one call at a time, the extend before a restart
JobsApart ==
    /\ upl = "none" \/ (del["user"] = "none" /\ FreeCalls # {})
    /\ ext = "none" \/ (/\ upl = "none" /\ del["user"] = "none" /\ FreeCalls # {}
                        /\ mgr = "up" /\ crashes = 0)
=============================================================================
