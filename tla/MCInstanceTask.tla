--------------------------- MODULE MCInstanceTask ---------------------------
(* Small instances of InstanceTask. *)
EXTENDS InstanceTask
CONSTANTS r1, r2, r3

Setting(slots, ops, faults, restarts) ==
    [slots |-> slots, builder |-> r1, ops |-> ops, faults |-> faults,
     backed |-> FALSE, offload |-> TRUE, crashes |-> restarts]

\* requests that race with one another, with the build and with deletes
Races == Setting({r1, r2},
                 {"stop", "start", "pause", "unpause", "rescue", "unrescue", "snapshot",
                  "backup", "shelve", "offload", "delete", "force_delete"},
                 {"claim", "block", "spawn"}, 0)

\* with the operations that save unconditionally, and failing calls
Overwrites == Setting({r1, r2},
                      {"stop", "delete", "soft_delete", "suspend", "password"},
                      {"destroy"}, 0)
\* with the operations that destroy the server and spawn another
Respawns == Setting({r1, r2}, {"shelve", "unshelve", "rebuild", "delete"}, {}, 0)

\* a restore that finds the row while a soft delete of an instance without a
\* host is about to destroy it
Restores == Setting({r1, r2}, {"shelve", "soft_delete", "restore"}, {}, 0)

\* a third request, loaded before a delete has cleared the task of a second one
Crowd == Setting({r1, r2, r3}, {"pause", "delete"}, {}, 0)

\* a restart anywhere in a build, a stop and a delete
Restarts == Setting({r1, r2}, {"stop", "delete"}, {}, 1)
Builds   == Setting({r1, r2}, {"stop", "start", "snapshot"}, {"image"}, 1)

\* one request at a time: everything may happen, a restart included
Everything == Setting({r1}, AllOps, AllFaults, 1)
Backed     == [Everything EXCEPT !.backed = TRUE,
                                 !.ops = {"shelve", "offload", "delete", "suspend"}]
Later      == [Everything EXCEPT !.offload = FALSE,
                                 !.ops = {"shelve", "offload", "unshelve", "delete"}]

Scenarios == {Races, Overwrites, Respawns, Restores, Crowd, Restarts, Builds,
              Everything, Backed, Later}
=============================================================================
