----------------------------- MODULE ImageSync -----------------------------
(***************************************************************************)
(* The synchronisation of one image with the provider.  A volume made from *)
(* a hypercontainer image waits until the provider has a copy of it, which *)
(* is recorded in images_mapper.  Whoever finds no copy and no running     *)
(* sync starts one: a creation of a volume inserts a row into imge_sync,   *)
(* casts to the worker, and polls the row, which the handler moves on; the *)
(* build of an instance uploads the image itself.  Reading the mapping,    *)
(* reading the row, destroying it and inserting a new one are statements   *)
(* of their own, with nothing locked in between.                           *)
(***************************************************************************)
EXTENDS Naturals, FiniteSets

CONSTANTS
    Creators,  \* creations of a volume from the image
    Builders,  \* builds of an instance from it
    Projects,
    Project,   \* per actor: the project it works for
    NoRow,
    NoImage,
    Settings   \* what may happen in a behaviour: one of these

Actors == Creators \cup Builders

AllFaults == {"glance", "cast", "timeout", "volume", "spawn", "power", "upload",
              "map", "partial", "discard", "save", "destroy"}

Running  == {"creating", "spawning", "uploading"}
Statuses == Running \cup {"finished", "error"}
Rows     == [by : Actors, status : Statuses]

ASSUME ConstantsAssumption ==
    /\ Creators \cap Builders = {}
    /\ Project \in [Actors -> Projects]
    /\ NoRow \notin Actors \cup Rows /\ NoImage \notin Actors
    /\ \A s \in Settings :
          s \in [actors : SUBSET Actors, faults : SUBSET AllFaults, crashes : Nat]

VARIABLES
    row,        \* per project: the row of imge_sync that is not deleted
    mapper,     \* per project: the image in images_mapper
    images,     \* the provider's images, named for who uploaded them
    pc,         \* per actor: where its check and its wait stand
    seen,       \* per actor: the row its check has read
    job,        \* per actor: where the sync it started stands
    servers,    \* the syncs with a temporary server
    volumes,    \* the syncs with a temporary volume
    overtaken,  \* history: somebody destroyed a row that he had not read
    crashes,
    setting     \* one of Settings, chosen at the start

temps == <<servers, volumes>>
env   == <<crashes, setting>>
vars  == <<row, mapper, images, pc, seen, job, temps, overtaken, env>>

Taking     == setting.actors   \* who asks for the image
Faults     == setting.faults   \* what may go wrong
MaxCrashes == setting.crashes  \* bounds the restarts of the worker

CheckPcs == {"row", "destroy", "create"}
Pcs  == {"idle", "cast", "poll", "copy", "over"} \cup CheckPcs
Work == {"spawning", "spawn", "power_off", "uploading", "upload", "map", "discard", "finish"}
Undo == {"unspawned", "failed"}                     \* the row is to be marked
Ends == {"clean", "undo", "clean_volume", "over"}   \* nothing but removals left
Jobs == {"none", "queued"} \cup Work \cup Undo \cup Ends

TypeOK ==
    /\ row \in [Projects -> Rows \cup {NoRow}]
    /\ mapper \in [Projects -> Actors \cup {NoImage}]
    /\ images \subseteq Actors
    /\ pc \in [Actors -> Pcs] /\ job \in [Actors -> Jobs]
    /\ seen \in [Actors -> Actors \cup {NoRow}]
    /\ servers \subseteq Actors /\ volumes \subseteq Actors
    /\ overtaken \in BOOLEAN
    /\ crashes \in 0..MaxCrashes /\ setting \in Settings

Init ==
    /\ setting \in Settings /\ crashes = 0 /\ overtaken = FALSE
    /\ row = [p \in Projects |-> NoRow] /\ mapper = [p \in Projects |-> NoImage]
    /\ images = {} /\ servers = {} /\ volumes = {}
    /\ pc = [a \in Actors |-> "idle"] /\ seen = [a \in Actors |-> NoRow]
    /\ job = [a \in Actors |-> "none"]

----------------------------------------------------------------------------
(* The tables.  Rows are found by image, whatever their project.           *)

Live   == {p \in Projects : row[p] # NoRow}
Mapped == {p \in Projects : mapper[p] # NoImage}

\* mutant: the row is inserted whatever there is
InsertAlways(a, s) == row' = [row EXCEPT ![Project[a]] = [by |-> a, status |-> s]]

\* image_sync_create: the rows of an image are unique within a project
Insert(a, s) ==
    /\ row[Project[a]] = NoRow
    /\ row' = [row EXCEPT ![Project[a]] = [by |-> a, status |-> s]]

\* image_sync_update: the first row of the image, in no certain order.  It
\* raises when there is none
Save(s) == \E p \in Live : row' = [row EXCEPT ![p].status = s]
SaveRaises == (Live = {} \/ "save" \in Faults) /\ UNCHANGED row

\* image_sync_delete: all rows of the image, also those that actor b did not
\* insert
DestroyRows(b) ==
    /\ row' = [p \in Projects |-> NoRow]
    /\ overtaken' = (overtaken \/ \E p \in Live : row[p].by # b)

----------------------------------------------------------------------------
(* is_image_sync, and what the two callers do with its answer.             *)

Goto(a, s) == pc' = [pc EXCEPT ![a] = s]
Job(a, s)  == job' = [job EXCEPT ![a] = s]

Check(a, s) == pc[a] = s /\ UNCHANGED <<mapper, images, temps, env>>

\* no need to sync: a creation waits for what there is, a build is over
NoNeed(a) == Goto(a, IF a \in Creators THEN "poll" ELSE "over")

\* the copies first; then the image, which must be a hypercontainer's
Lookup(a) ==
    /\ Check(a, "idle") /\ a \in Taking
    /\ \/ Mapped # {} /\ NoNeed(a)
       \/ Mapped = {} /\ Goto(a, "row")
       \/ Mapped = {} /\ "glance" \in Faults /\ NoNeed(a)
    /\ UNCHANGED <<row, seen, job, overtaken>>

ReadRow(a) ==
    /\ Check(a, "row")
    /\ \/ Live = {} /\ Goto(a, "create") /\ UNCHANGED seen
       \/ \E p \in Live :
             \/ /\ row[p].status \notin Running /\ Goto(a, "destroy")
                /\ seen' = [seen EXCEPT ![a] = row[p].by]
             \/ row[p].status \in Running /\ NoNeed(a) /\ UNCHANGED seen
    /\ UNCHANGED <<row, job, overtaken>>

Destroy(a) ==
    /\ Check(a, "destroy") /\ DestroyRows(seen[a]) /\ Goto(a, "create")
    /\ UNCHANGED <<seen, job>>

\* a duplicate row raises: the creation fails, the build goes on without a sync
Create(a) ==
    /\ Check(a, "create")
    /\ \/ a \in Creators /\ Insert(a, "creating") /\ Goto(a, "cast") /\ UNCHANGED job
       \/ a \in Builders /\ Insert(a, "uploading") /\ Goto(a, "over") /\ Job(a, "power_off")
       \/ row[Project[a]] # NoRow /\ Goto(a, "over") /\ UNCHANGED <<row, job>>
    /\ UNCHANGED <<seen, overtaken>>

Cast(a) ==
    /\ Check(a, "cast")
    /\ \/ Goto(a, "poll") /\ Job(a, "queued")
       \/ "cast" \in Faults /\ Goto(a, "over") /\ UNCHANGED job
    /\ UNCHANGED <<row, seen, overtaken>>

\* mutant: a sync that is uploading is waited for no longer
PollEarly(a) ==
    /\ Check(a, "poll")
    /\ \/ \E p \in Live : row[p].status \in {"uploading", "finished"} /\ Goto(a, "copy")
       \/ Live = {} /\ Goto(a, "over")
       \/ \E p \in Live : row[p].status = "error" /\ Goto(a, "over")
       \/ "timeout" \in Faults /\ Goto(a, "over")
    /\ UNCHANGED <<row, seen, job, overtaken>>

\* check_image_sync_complete: until the row says so, is gone, or 900 times
Poll(a) ==
    /\ Check(a, "poll")
    /\ \/ \E p \in Live : row[p].status = "finished" /\ Goto(a, "copy")
       \/ Live = {} /\ Goto(a, "over")
       \/ \E p \in Live : row[p].status = "error" /\ Goto(a, "over")
       \/ "timeout" \in Faults /\ Goto(a, "over")
    /\ UNCHANGED <<row, seen, job, overtaken>>

\* the volume is made from the provider's image, or fails
Copy(a) ==
    /\ Check(a, "copy") /\ Goto(a, "over")
    /\ UNCHANGED <<row, seen, job, overtaken>>

----------------------------------------------------------------------------
(* The sync: the worker's handler for a creation, the rest of the build    *)
(* for an instance.                                                        *)

Sync(a, s) == job[a] = s /\ UNCHANGED <<pc, seen, env>>

\* the volume is made before the handler's try: the row then stays as it is
Take(a) ==
    /\ Sync(a, "queued")
    /\ \/ volumes' = volumes \cup {a} /\ Job(a, "spawning")
       \/ "volume" \in Faults /\ Job(a, "over") /\ UNCHANGED volumes
    /\ UNCHANGED <<row, mapper, images, servers, overtaken>>

\* mutant: the row gets the name of the next step
MarkNext(a, s, next, fail) ==
    /\ Sync(a, s)
    /\ \/ Save(next) /\ Job(a, next)
       \/ SaveRaises /\ Job(a, fail)
    /\ UNCHANGED <<mapper, images, temps, overtaken>>

Mark(a, s, next, fail) ==
    /\ Sync(a, s)
    /\ \/ Save(s) /\ Job(a, next)
       \/ SaveRaises /\ Job(a, fail)
    /\ UNCHANGED <<mapper, images, temps, overtaken>>

MarkSpawning(a)  == Mark(a, "spawning", "spawn", "unspawned")
MarkUploading(a) == Mark(a, "uploading", "upload", "failed")

\* _do_hc_spawn removes what it made when it fails, if it can
Spawn(a) ==
    /\ Sync(a, "spawn")
    /\ \/ servers' = servers \cup {a} /\ Job(a, "power_off")
       \/ "spawn" \in Faults /\ Job(a, "unspawned") /\ UNCHANGED servers
       \/ /\ {"spawn", "destroy"} \subseteq Faults
          /\ servers' = servers \cup {a} /\ Job(a, "unspawned")
    /\ UNCHANGED <<row, mapper, images, volumes, overtaken>>

\* a build has marked its row before
PowerOff(a) ==
    /\ Sync(a, "power_off")
    /\ \/ Job(a, IF a \in Creators THEN "uploading" ELSE "upload")
       \/ "power" \in Faults /\ Job(a, "failed")
    /\ UNCHANGED <<row, mapper, images, temps, overtaken>>

Upload(a) ==
    /\ Sync(a, "upload")
    /\ \/ images' = images \cup {a} /\ Job(a, "map")
       \/ "upload" \in Faults /\ Job(a, "failed") /\ UNCHANGED images
    /\ UNCHANGED <<row, mapper, temps, overtaken>>

\* image_mapper_create inserts one key at a time, each in its own transaction:
\* it may raise after the mapping can be found
MapImage(a) ==
    /\ Sync(a, "map")
    /\ \/ /\ mapper[Project[a]] = NoImage
          /\ mapper' = [mapper EXCEPT ![Project[a]] = a]
          /\ \/ Job(a, "finish")
             \/ "partial" \in Faults /\ Job(a, "discard")
       \/ /\ \/ mapper[Project[a]] # NoImage
             \/ "map" \in Faults
          /\ Job(a, "discard") /\ UNCHANGED mapper
    /\ UNCHANGED <<row, images, temps, overtaken>>

\* mutant: the copy is left behind
DiscardNothing(a) ==
    /\ Sync(a, "discard") /\ Job(a, "failed")
    /\ UNCHANGED <<row, mapper, images, temps, overtaken>>

Discard(a) ==
    /\ Sync(a, "discard") /\ Job(a, "failed")
    /\ \/ images' = images \ {a}
       \/ "discard" \in Faults /\ UNCHANGED images
    /\ UNCHANGED <<row, mapper, temps, overtaken>>

\* mutant: the failure of a sync is not recorded
FailedUnsaved(a) ==
    /\ job[a] \in Undo /\ Sync(a, job[a])
    /\ \/ a \in Creators /\ Job(a, IF job[a] = "failed" THEN "undo" ELSE "clean_volume")
       \/ a \in Builders /\ Job(a, "over")
    /\ UNCHANGED <<row, mapper, images, temps, overtaken>>

\* saving 'error' may raise itself: the clean-up after it is then skipped.  A
\* build destroys the rows instead, and ignores it when it cannot
Failed(a) ==
    /\ job[a] \in Undo /\ Sync(a, job[a])
    /\ \/ /\ a \in Creators /\ Save("error") /\ UNCHANGED overtaken
          /\ Job(a, IF job[a] = "failed" THEN "undo" ELSE "clean_volume")
       \/ a \in Builders /\ DestroyRows(a) /\ Job(a, "over")
       \/ SaveRaises /\ Job(a, "over") /\ UNCHANGED overtaken
    /\ UNCHANGED <<mapper, images, temps>>

\* the handler of a failed save fails itself (an unbound name), before the
\* clean-up; a build does not mind
Finish(a) ==
    /\ Sync(a, "finish")
    /\ \/ Save("finished") /\ Job(a, IF a \in Creators THEN "clean" ELSE "over")
       \/ SaveRaises /\ Job(a, "over")
    /\ UNCHANGED <<mapper, images, temps, overtaken>>

\* a server that cannot be removed keeps its volume only after a failure
RemoveServer(a) ==
    /\ job[a] \in {"clean", "undo"} /\ Sync(a, job[a])
    /\ \/ servers' = servers \ {a} /\ Job(a, "clean_volume")
       \/ /\ "destroy" \in Faults /\ UNCHANGED servers
          /\ Job(a, IF job[a] = "clean" THEN "clean_volume" ELSE "over")
    /\ UNCHANGED <<row, mapper, images, volumes, overtaken>>

RemoveVolume(a) ==
    /\ Sync(a, "clean_volume") /\ Job(a, "over")
    /\ \/ volumes' = volumes \ {a}
       \/ "destroy" \in Faults /\ UNCHANGED volumes
    /\ UNCHANGED <<row, mapper, images, servers, overtaken>>

----------------------------------------------------------------------------
\* The worker dies with all creations, builds and handlers.  Messages and rows
\* stay, and nothing looks at the rows when it is started again.
Crash ==
    /\ crashes < MaxCrashes /\ crashes' = crashes + 1
    /\ pc'  = [a \in Actors |-> IF pc[a] = "idle" THEN "idle" ELSE "over"]
    /\ job' = [a \in Actors |-> IF job[a] \in {"none", "queued"} THEN job[a] ELSE "over"]
    /\ UNCHANGED <<row, mapper, images, seen, temps, overtaken, setting>>

ActorStep(a) ==
    \/ ReadRow(a) \/ Destroy(a) \/ Create(a) \/ Cast(a) \/ Poll(a) \/ Copy(a)

SyncStep(a) ==
    \/ Take(a) \/ MarkSpawning(a) \/ Spawn(a) \/ PowerOff(a) \/ MarkUploading(a)
    \/ Upload(a) \/ MapImage(a) \/ Discard(a) \/ Failed(a) \/ Finish(a)
    \/ RemoveServer(a) \/ RemoveVolume(a)

Next == Crash \/ \E a \in Actors : Lookup(a) \/ ActorStep(a) \/ SyncStep(a)

Spec == Init /\ [][Next]_vars

\* A creation, a build or a sync is a thread of its own, and the message of a
\* sync is delivered.  Nobody is obliged to ask for the image.
Fairness == \A a \in Actors : WF_vars(ActorStep(a)) /\ WF_vars(SyncStep(a))

FairSpec == Spec /\ Fairness

----------------------------------------------------------------------------
(* Properties.                                                             *)

NoFault(fs) == Faults \cap fs = {}

\* A creation that stops waiting finds the image at the provider: however many
\* syncs run, fail, overtake one another or die, 'finished' is never read
\* before a copy is there to stay, if a mapping is inserted as a whole.
SyncedIsThere ==
    NoFault({"partial"}) /\ (\E a \in Creators : pc[a] = "copy")
    => Mapped # {} /\ \A p \in Mapped : mapper[p] \in images

OneProject == \A a, b \in Taking : Project[a] = Project[b]
Syncing(a) == job[a] \in {"queued"} \cup Work \cup Undo

\* "sync is running [...] no need to image sync": within a project there are
\* two syncs at once only after somebody destroyed a row that had replaced the
\* one he read.
OneSync ==
    OneProject /\ ~overtaken =>
        \A a, b \in Actors : Syncing(a) /\ Syncing(b) => a = b

Quiet == \A a \in Actors : pc[a] \in {"idle", "over"} /\ job[a] \in {"none", "over"}

\* When nothing runs, no row says so, every copy at the provider is a mapped one,
\* and nothing temporary is left: each way to fail undoes what was done, unless
\* the worker died, the failure struck before or in the handlers of failures,
\* or the row was destroyed under a sync.
QuietIsClean ==
    /\ Quiet /\ OneProject /\ ~overtaken /\ MaxCrashes = 0
    /\ NoFault({"cast", "volume", "partial", "discard", "save", "destroy"})
    => /\ \A p \in Live : row[p].status \notin Running
       /\ images = {mapper[p] : p \in Mapped}
       /\ servers = {} /\ volumes = {}

\* A creation does not depend on the time-out of its wait: the sync it waits
\* for ends in 'finished' or 'error', or its row goes, whoever started it and
\* whoever destroyed the row meanwhile, as long as no message and no save is lost.
WaitEnds ==
    OneProject /\ MaxCrashes = 0 /\ NoFault({"cast", "volume", "save"}) =>
        \A a \in Creators : pc[a] = "poll" ~> pc[a] # "poll"
=============================================================================
