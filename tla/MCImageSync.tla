---------------------------- MODULE MCImageSync ----------------------------
(* Small instances of ImageSync. *)
EXTENDS ImageSync
CONSTANTS c1, c2, b1, b2, d1, p1, p2

\* d1 creates a volume in another project
ProjectOf == [a \in {c1, c2, b1, b2, d1} |-> IF a = d1 THEN p2 ELSE p1]

Setting(actors, faults, restarts) ==
    [actors |-> actors, faults |-> faults, crashes |-> restarts]

\* what fails within the handler
Failing == {"spawn", "power", "upload", "map"}

\* two creations with a build, and one with two builds, whose syncs fail
Builds   == Setting({c1, b1, b2}, Failing, 0)
Building == Setting({c1, c2, b1}, Failing, 0)
\* two projects, where the build's sync may be for either creation's image
Strangers == Setting({b1, d1}, Failing, 0)
Abroad    == Setting({c1, d1}, {"upload", "map"}, 0)
\* everything fails, and the worker dies
Everything == Setting({c1, c2}, AllFaults, 0)
Restarts   == Setting({c1, b1}, AllFaults, 1)

Scenarios == {Builds, Building, Strangers, Abroad, Everything, Restarts}
=============================================================================
