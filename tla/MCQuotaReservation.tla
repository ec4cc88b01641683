------------------------- MODULE MCQuotaReservation -------------------------
(* QuotaReservation on small instances: volumes and snapshots of size one,  *)
(* under the quotas of volumes, of one volume type, snapshots, gigabytes.   *)
EXTENDS QuotaReservation

CONSTANTS v1, v2, v3, s1

\* two volumes of a type with a quota of one, another volume and a snapshot,
\* which share the gigabytes
Taken == [o \in {v1, v2, v3, s1} |->
            CASE o \in {v1, v2} -> {"volumes", "volumes_type", "gigabytes"}
              [] o = v3 -> {"volumes", "gigabytes"}
              [] o = s1 -> {"snapshots", "gigabytes"}]
Quota == [volumes |-> 2, volumes_type |-> 1, snapshots |-> -1, gigabytes |-> 2]

Default == [objs |-> {v1, v2, v3, s1}, untilRefresh |-> 0, maxAge |-> 0,
            faults |-> {"entry", "quota"}, mishaps |-> 3]

\* both kinds of refresh, and reverts
Refreshing == [objs |-> {v1, v2}, untilRefresh |-> 2, maxAge |-> 2,
               faults |-> AllFaults, mishaps |-> 2]

\* the cast fails, nothing else
Reverting == [Default EXCEPT !.objs = {v1}, !.faults = {"cast"}, !.mishaps = 0]

Scenarios == {Default, Refreshing}
CastFailing == {Reverting}
=============================================================================
