-------------------------- MODULE VolumeProvision --------------------------
(***************************************************************************)
(* One volume of the storage service and the provider volumes made for it: *)
(* the manager's create flow, the OpenStack driver that asks the provider  *)
(* for a copy, waits for it and records it in the mapping table, the       *)
(* delete handler that finds the copy again by the mapping or by its tag,  *)
(* and a restart of the manager.  Every call to the provider and every     *)
(* database transaction is a step; the provider works on its own.          *)
(***************************************************************************)
EXTENDS Naturals, FiniteSets

CONSTANTS
    PVols,       \* ids of provider volumes
    Kinds,       \* what the volume is made from: "image" or "other"
    RetryLimit,  \* client_retry_limit
    Requests,    \* delete requests that may be under way
    Boot,        \* the delete that init_host resumes
    ForceFrom,   \* statuses from which an administrator force-deletes
    Faults,      \* what may go wrong
    MaxCrashes,  \* bound on restarts of the storage manager
    NoVol

AllFaults == {"image", "create", "lost", "resent", "build", "timeout", "map",
              "metadata", "delete", "stuck", "poll", "unmap", "backlog"}
Statuses  == {"creating", "downloading", "available", "error", "deleting",
              "error_deleting", "deleted"}

ASSUME ConstantsAssumption ==
    /\ NoVol \notin PVols /\ Boot \notin Requests
    /\ Kinds \subseteq {"image", "other"} /\ Kinds # {}
    /\ RetryLimit \in Nat /\ MaxCrashes \in Nat
    /\ ForceFrom \subseteq Statuses \ {"deleted"} /\ Faults \subseteq AllFaults

ASSUME PVolsFinite == IsFiniteSet(PVols)

Deleters == Requests \cup {Boot}

VARIABLES
    status,   \* volumes.status; "deleted" once the row is soft-deleted
    kind,     \* what the volume is made from
    prov,     \* the provider's volumes, all of them tagged with the id
    mapper,   \* the mapping row's provider volume
    create,   \* where the create handler stands
    cvol,     \* the provider volume it was answered
    resent,   \* times its request was sent again
    del,      \* where each delete handler stands
    target,   \* the provider volume it found
    mgr,      \* the manager: up, down, or where init_host stands
    crashes

world   == <<prov, mapper>>
creator == <<create, cvol, resent>>
deleter == <<del, target>>
vars == <<status, kind, world, creator, deleter, mgr, crashes>>

ProvStates == {"absent", "building", "ready", "failed", "removing", "stuck", "gone"}
CreatePcs  == {"queued", "download", "sync", "submit", "wait", "map", "undo",
               "meta", "finish", "fail", "done"}
DelPcs     == {"idle", "queued", "lookup", "submit", "wait", "unmap", "destroy", "fail"}
MgrPcs     == {"up", "down", "boot_error", "boot_resume", "boot", "init"}

TypeOK ==
    /\ status \in Statuses /\ kind \in Kinds
    /\ prov \in [PVols -> ProvStates] /\ mapper \in PVols \cup {NoVol}
    /\ create \in CreatePcs /\ cvol \in PVols \cup {NoVol}
    /\ resent \in 0..RetryLimit
    /\ del \in [Deleters -> DelPcs] /\ target \in [Deleters -> PVols \cup {NoVol}]
    /\ mgr \in MgrPcs /\ crashes \in 0..MaxCrashes

Init ==
    /\ status = "creating" /\ kind \in Kinds
    /\ prov = [p \in PVols |-> "absent"] /\ mapper = NoVol
    /\ create = "queued" /\ cvol = NoVol /\ resent = 0
    /\ del = [d \in Deleters |-> "idle"] /\ target = [d \in Deleters |-> NoVol]
    /\ mgr = "up" /\ crashes = 0

----------------------------------------------------------------------------
\* volume_update and save() raise, and change nothing, once the row is gone
Save(st) == status' = IF status = "deleted" THEN status ELSE st

\* mutant: only complete volumes are searched
TaggedReady == {p \in PVols : prov[p] = "ready"}

\* what a search for the tag finds
Tagged == {p \in PVols : prov[p] \notin {"absent", "gone"}}

\* copies whose removal nobody has asked for
Kept == {p \in PVols : prov[p] \in {"building", "ready", "failed"}}

SetProv(p, st) == prov' = [prov EXCEPT ![p] = st]

\* the provider refuses to remove a volume that is not in a settled state
Removable(p) == prov[p] \in {"ready", "failed"}

Creating(from, to) == create = from /\ create' = to /\ UNCHANGED <<kind, resent>>
Frame == UNCHANGED <<deleter, mgr, crashes>>

----------------------------------------------------------------------------
(* The create flow.                                                        *)

\* ExtractVolumeRefTask: a volume that is gone ends the flow
CreateStart ==
    /\ mgr = "up"
    /\ Creating("queued", IF status = "deleted" THEN "done"
                          ELSE IF kind = "image" THEN "download" ELSE "submit")
    /\ UNCHANGED <<status, world, cvol>> /\ Frame

\* ExtractVolumeSpecTask: the image or the source cannot be read
SpecFails ==
    /\ mgr = "up" /\ status # "deleted" /\ "image" \in Faults
    /\ Creating("queued", "fail")
    /\ UNCHANGED <<status, world, cvol>> /\ Frame

StartDownload ==
    /\ Creating("download", "sync") /\ Save("downloading")
    /\ UNCHANGED <<world, cvol>> /\ Frame

\* the image is brought to the provider
ImageSynced ==
    /\ Creating("sync", "submit")
    /\ UNCHANGED <<status, world, cvol>> /\ Frame

ImageSyncFails ==
    /\ "image" \in Faults /\ Creating("sync", "fail")
    /\ UNCHANGED <<status, world, cvol>> /\ Frame

Submit(p) ==
    /\ Creating("submit", "wait")
    /\ prov[p] = "absent" /\ SetProv(p, "building") /\ cvol' = p
    /\ UNCHANGED <<status, mapper>> /\ Frame

\* nothing was made, or something was and the answer is an error
SubmitFails ==
    /\ Creating("submit", "fail")
    /\ \/ "create" \in Faults /\ UNCHANGED prov
       \/ "lost" \in Faults /\ \E p \in PVols : prov[p] = "absent" /\ SetProv(p, "building")
    /\ UNCHANGED <<status, mapper, cvol>> /\ Frame

\* mutant: one attempt too many
SubmitOnceMore(p) ==
    /\ "resent" \in Faults /\ create = "submit"
    /\ resent <= RetryLimit /\ resent' = resent + 1
    /\ prov[p] = "absent" /\ SetProv(p, "building")
    /\ UNCHANGED <<status, kind, mapper, create, cvol>> /\ Frame

\* the retry decorator answers a connection error with a new request, also
\* when the provider had served the last one (if it had not, nothing happened)
SubmitAgain(p) ==
    /\ "resent" \in Faults /\ create = "submit"
    /\ resent < RetryLimit /\ resent' = resent + 1
    /\ prov[p] = "absent" /\ SetProv(p, "building")
    /\ UNCHANGED <<status, kind, mapper, create, cvol>> /\ Frame

\* check_create_volume_complete; a volume that is not found counts as complete
WaitEnds ==
    /\ Creating("wait", "map") /\ prov[cvol] \in {"ready", "gone"}
    /\ UNCHANGED <<status, world, cvol>> /\ Frame

WaitFails ==
    /\ Creating("wait", "undo")
    /\ prov[cvol] \in {"failed", "removing", "stuck"} \/ "timeout" \in Faults
    /\ UNCHANGED <<status, world, cvol>> /\ Frame

MapVolume ==
    /\ Creating("map", "meta") /\ mapper' = cvol
    /\ UNCHANGED <<status, prov, cvol>> /\ Frame

\* mutant: the failure is logged only
MapVolumeLogged ==
    /\ "map" \in Faults /\ Creating("map", "meta")
    /\ UNCHANGED <<status, world, cvol>> /\ Frame

MapVolumeFails ==
    /\ "map" \in Faults /\ Creating("map", "undo")
    /\ UNCHANGED <<status, world, cvol>> /\ Frame

\* sub_volume.delete(): whether it works or not, the flow fails
UndoCopy ==
    /\ Creating("undo", "fail")
    /\ \/ Removable(cvol) /\ SetProv(cvol, "removing")
       \/ (~Removable(cvol) \/ "delete" \in Faults) /\ UNCHANGED prov
    /\ UNCHANGED <<status, mapper, cvol>> /\ Frame

\* bootable flag, image metadata, model update
SaveMetadata ==
    /\ Creating("meta", "finish") /\ status # "deleted"
    /\ UNCHANGED <<status, world, cvol>> /\ Frame

SaveMetadataFails ==
    /\ status = "deleted" \/ "metadata" \in Faults
    /\ Creating("meta", "fail")
    /\ UNCHANGED <<status, world, cvol>> /\ Frame

\* CreateVolumeOnFinishTask
CreateFinish ==
    /\ Creating("finish", "done") /\ Save("available") /\ cvol' = NoVol
    /\ UNCHANGED world /\ Frame

\* the flow is reverted: error_out_volume
CreateFails ==
    /\ Creating("fail", "done") /\ Save("error") /\ cvol' = NoVol
    /\ UNCHANGED world /\ Frame

----------------------------------------------------------------------------
(* Deleting the volume.                                                    *)

DelGoto(d, to) == del' = [del EXCEPT ![d] = to]
Deleting(d, from, to) ==
    del[d] = from /\ DelGoto(d, to) /\ UNCHANGED <<kind, creator, crashes>>

\* what init_host does after the delete it resumed: serve, or fail to start
AfterHandler(d, ok) == mgr' = IF d # Boot THEN mgr ELSE IF ok THEN "up" ELSE "down"

DelEnds(d, from, ok) ==
    /\ Deleting(d, from, "idle") /\ target' = [target EXCEPT ![d] = NoVol]
    /\ AfterHandler(d, ok)

\* API.delete: one conditional_update, and the cast
DeleteVolume(d) ==
    /\ d # Boot /\ status \in {"available", "error"} \cup ForceFrom
    /\ Deleting(d, "idle", "queued") /\ status' = "deleting"
    /\ UNCHANGED <<world, target, mgr>>

\* locked_volume_operation
DelLockFree == \A d \in Deleters : del[d] \in {"idle", "queued"}

DelStart(d) ==
    /\ mgr = IF d = Boot THEN "init" ELSE "up"
    /\ DelLockFree
    /\ \/ status = "deleted" /\ DelEnds(d, "queued", TRUE)
       \/ /\ status # "deleted" /\ Deleting(d, "queued", "lookup")
          /\ UNCHANGED <<target, mgr>>
    /\ UNCHANGED <<status, world>>

Found(d, p) ==
    /\ Deleting(d, "lookup", "submit") /\ target' = [target EXCEPT ![d] = p]
    /\ UNCHANGED <<status, world, mgr>>

\* _get_provider_volume: the mapping row first, then the first volume with
\* the tag
DelLookup(d) ==
    \/ mapper # NoVol /\ prov[mapper] # "gone" /\ Found(d, mapper)
    \/ mapper = NoVol /\ \E p \in Tagged : Found(d, p)

\* EntityNotFound: there is nothing to do, for the mapping row either
DelNothing(d) ==
    /\ IF mapper = NoVol THEN Tagged = {} ELSE prov[mapper] = "gone"
    /\ Deleting(d, "lookup", "destroy")
    /\ UNCHANGED <<status, world, target, mgr>>

DelLookupFails(d) ==
    /\ "delete" \in Faults /\ Deleting(d, "lookup", "fail")
    /\ UNCHANGED <<status, world, target, mgr>>

DelSubmit(d) ==
    /\ Deleting(d, "submit", "wait")
    /\ Removable(target[d]) /\ SetProv(target[d], "removing")
    /\ UNCHANGED <<status, mapper, target, mgr>>

\* mutant: the driver goes on after a refusal
DelSubmitIgnored(d) ==
    /\ Deleting(d, "submit", "wait")
    /\ ~Removable(target[d]) \/ "delete" \in Faults
    /\ UNCHANGED <<status, world, target, mgr>>

DelSubmitFails(d) ==
    /\ Deleting(d, "submit", "fail")
    /\ \/ ~Removable(target[d]) /\ UNCHANGED prov
       \/ /\ "delete" \in Faults /\ Removable(target[d])
          /\ UNCHANGED prov \/ SetProv(target[d], "removing")
    /\ UNCHANGED <<status, mapper, target, mgr>>

\* check_delete_volume_complete: anything but 'deleting' and 'error' counts as
\* complete, an exception while asking as well
DelWaitEnds(d) ==
    /\ Deleting(d, "wait", "unmap")
    /\ prov[target[d]] \notin {"removing", "failed"} \/ "poll" \in Faults
    /\ UNCHANGED <<status, world, target, mgr>>

DelWaitFails(d) ==
    /\ Deleting(d, "wait", "fail")
    /\ prov[target[d]] = "failed" \/ "timeout" \in Faults
    /\ UNCHANGED <<status, world, target, mgr>>

\* a failure to delete the mapping row is logged only
Unmap(d) ==
    /\ Deleting(d, "unmap", "destroy")
    /\ \/ mapper' = NoVol
       \/ "unmap" \in Faults /\ UNCHANGED mapper
    /\ UNCHANGED <<status, prov, target, mgr>>

DelDestroy(d) ==
    /\ DelEnds(d, "destroy", TRUE) /\ status' = "deleted"
    /\ UNCHANGED world

DelFails(d) ==
    /\ DelEnds(d, "fail", FALSE) /\ Save("error_deleting")
    /\ UNCHANGED world

----------------------------------------------------------------------------
(* The provider's own work.                                                *)

Provider == UNCHANGED <<status, kind, mapper, creator, deleter, mgr, crashes>>

Built(p) ==
    /\ prov[p] = "building"
    /\ \/ SetProv(p, "ready")
       \/ "build" \in Faults /\ SetProv(p, "failed")
    /\ Provider

\* a removal that fails leaves the volume 'error_deleting'
Removed(p) ==
    /\ prov[p] = "removing"
    /\ \/ SetProv(p, "gone")
       \/ "stuck" \in Faults /\ SetProv(p, "stuck")
    /\ Provider

----------------------------------------------------------------------------
(* The worker dies and starts again: handlers vanish, messages stay.       *)

Crash ==
    /\ mgr # "down" /\ crashes < MaxCrashes
    /\ IF "backlog" \in Faults THEN TRUE ELSE create # "queued"
    /\ mgr' = "down" /\ crashes' = crashes + 1
    /\ create' = IF create = "queued" THEN create ELSE "done"
    /\ cvol' = NoVol
    /\ del' = [d \in Deleters |->
                 IF d # Boot /\ del[d] = "queued" THEN "queued" ELSE "idle"]
    /\ target' = [d \in Deleters |-> NoVol]
    /\ UNCHANGED <<status, kind, world, resent>>

\* mutant: volumes in 'downloading' are not looked at
InitHostReadCreating ==
    /\ mgr = "down"
    /\ mgr' = IF status = "creating" THEN "boot_error"
              ELSE IF status = "deleting" THEN "boot_resume" ELSE "boot"
    /\ UNCHANGED <<status, kind, world, creator, deleter, crashes>>

\* init_host reads the volumes, ...
InitHostRead ==
    /\ mgr = "down"
    /\ mgr' = IF status \in {"creating", "downloading"} THEN "boot_error"
              ELSE IF status = "deleting" THEN "boot_resume" ELSE "boot"
    /\ UNCHANGED <<status, kind, world, creator, deleter, crashes>>

\* ... takes one that is being created for stuck, resumes a delete, and serves
InitHost ==
    /\ \/ mgr = "boot_error" /\ mgr' = "up" /\ Save("error") /\ UNCHANGED del
       \/ mgr = "boot" /\ mgr' = "up" /\ UNCHANGED <<status, del>>
       \/ mgr = "boot_resume" /\ mgr' = "init" /\ DelGoto(Boot, "queued")
          /\ UNCHANGED status
    /\ UNCHANGED <<kind, world, creator, target, crashes>>

----------------------------------------------------------------------------
CreateStep ==
    \/ CreateStart \/ SpecFails \/ StartDownload \/ ImageSynced \/ ImageSyncFails
    \/ \E p \in PVols : Submit(p) \/ SubmitAgain(p)
    \/ SubmitFails \/ WaitEnds \/ WaitFails \/ MapVolume \/ MapVolumeFails
    \/ UndoCopy \/ SaveMetadata \/ SaveMetadataFails \/ CreateFinish \/ CreateFails

DelStep(d) ==
    \/ DelStart(d) \/ DelLookup(d) \/ DelNothing(d) \/ DelLookupFails(d)
    \/ DelSubmit(d) \/ DelSubmitFails(d) \/ DelWaitEnds(d) \/ DelWaitFails(d) \/ Unmap(d)
    \/ DelDestroy(d) \/ DelFails(d)

ProviderStep(p) == Built(p) \/ Removed(p)

Next ==
    \/ CreateStep
    \/ \E d \in Deleters : DeleteVolume(d) \/ DelStep(d)
    \/ \E p \in PVols : ProviderStep(p)
    \/ Crash \/ InitHostRead \/ InitHost

Spec == Init /\ [][Next]_vars

\* handlers go on, the provider answers, and the manager starts again; nobody
\* is obliged to ask for a delete
Fairness ==
    /\ WF_vars(CreateStep) /\ \A d \in Deleters : WF_vars(DelStep(d))
    /\ \A p \in PVols : WF_vars(ProviderStep(p))
    /\ WF_vars(InitHostRead \/ InitHost)

FairSpec == Spec /\ Fairness

----------------------------------------------------------------------------
(* Properties.                                                             *)

\* Once the row is destroyed the provider has been asked to remove every copy,
\* however the creation ended and however often the delete was begun, but for
\* the duplicates that repeated requests may have made.
NoLeak == status = "deleted" => Cardinality(Kept) <= resent

\* A volume that is offered has a mapping row, and a mapping row names a
\* complete copy until somebody asks for the volume's deletion.
MappedIsThere ==
    /\ status = "available" => mapper # NoVol
    /\ mapper # NoVol /\ status \notin {"deleting", "error_deleting", "deleted"}
         => prov[mapper] = "ready"

\* Every creation ends, well or in 'error', through failures and a restart.
CreatingEnds ==
    status \in {"creating", "downloading"} ~> status \notin {"creating", "downloading"}

\* Every delete ends, through failures and a restart.
DeletingEnds == status = "deleting" ~> status # "deleting"

\* Neither handler leaves the volume where no user could ask for anything.
HandlersEnd == CreatingEnds /\ DeletingEnds

\* The promise: the flow, the driver, the delete handler and init_host
\* together keep the life cycle of VolumeLifecycle.
Lifecycle == INSTANCE VolumeLifecycle WITH
    copies <- Cardinality(Kept), extra <- resent

KeepsLifecycle == Lifecycle!Spec
=============================================================================
