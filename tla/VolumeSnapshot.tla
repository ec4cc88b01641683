--------------------------- MODULE VolumeSnapshot ---------------------------
(***************************************************************************)
(* A volume of the storage service, its snapshots, and their copies at the *)
(* provider: creating and deleting snapshots, deleting the volume with or  *)
(* without its snapshots (cascade), and a restart of the storage manager.  *)
(* A request is followed from the API process, through the message queue   *)
(* (every call is a cast), to the manager's handler.  A database           *)
(* transaction and a compare-and-swap are one step; a provider call, a     *)
(* lock and a database read of its own separate two steps.                 *)
(***************************************************************************)
EXTENDS Integers, FiniteSets

CONSTANTS
    Snaps,       \* ids of the snapshots that may be created
    Requests,    \* bounds the user requests under way at the same time
    Boot,        \* the handler init_host runs to resume a volume delete
    Cascades,    \* how users delete the volume: TRUE with its snapshots
    Forces,      \* operations for which users pass force=True
    Faults,      \* what may go wrong
    MaxCrashes,  \* bound on restarts of the storage manager
    NoSnap

AllForces == {"create", "delete", "volume"}
AllFaults == {"create", "metadata", "delete", "volume", "busy", "stuck",
              "late", "cast_create", "cast_delete", "cast_volume"}

ASSUME ConstantsAssumption ==
    /\ Boot \notin Requests /\ NoSnap \notin Snaps
    /\ Cascades \subseteq BOOLEAN /\ Forces \subseteq AllForces /\ Faults \subseteq AllFaults
    /\ MaxCrashes \in Nat

Procs == Requests \cup {Boot}

VARIABLES
    status,   \* volumes.status; "deleted" once the row is soft-deleted
    snap,     \* snapshots.status; "none" before the row is inserted
    pvol,     \* the provider volume
    psnap,    \* the provider's copy of each snapshot
    pc,       \* per request: where it stands
    sn,       \* per request: the snapshot it works on
    cascade,  \* per request: a volume delete takes the snapshots with it
    todo,     \* per request: snapshots a cascade still has to handle
    odd,      \* per request: those listed in another state than 'deleting'
    mgr,      \* the manager: up, down, or where init_host stands
    crashes

store == <<status, snap, pvol, psnap>>
args  == <<sn, cascade, todo, odd>>
vars  == <<store, pc, args, mgr, crashes>>

VolStatuses  == {"available", "deleting", "error_deleting", "deleted"}
SnapStatuses == {"none", "creating", "available", "error", "deleting",
                 "error_deleting", "deleted"}
\* asked: the provider has taken the request to remove it, and still has it
Copies == {"none", "there", "asked"}
ApiPcs  == {"c_insert", "d_send", "v_list", "v_mark"}
Queued  == {"c_queued", "d_queued", "v_queued"}
SnapLocked == {"d_driver", "d_destroy"}
VolLocked  == {"v_scan", "v_loop", "v_lock", "v_driver", "v_fail", "v_destroy"}
Pcs == {"idle", "c_read", "c_save"} \cup ApiPcs \cup Queued
       \cup SnapLocked \cup VolLocked
MgrPcs == {"up", "down", "boot_resume", "boot", "init"}

TypeOK ==
    /\ status \in VolStatuses /\ snap \in [Snaps -> SnapStatuses]
    /\ pvol \in Copies /\ psnap \in [Snaps -> Copies]
    /\ pc \in [Procs -> Pcs]
    /\ sn \in [Procs -> Snaps \cup {NoSnap}]
    /\ cascade \in [Procs -> BOOLEAN]
    /\ todo \in [Procs -> SUBSET Snaps] /\ odd \in [Procs -> SUBSET Snaps]
    /\ mgr \in MgrPcs /\ crashes \in 0..MaxCrashes

Init ==
    /\ status = "available" /\ snap = [s \in Snaps |-> "none"]
    /\ pvol = "there" /\ psnap = [s \in Snaps |-> "none"]
    /\ pc = [p \in Procs |-> "idle"]
    /\ sn = [p \in Procs |-> NoSnap] /\ cascade = [p \in Procs |-> FALSE]
    /\ todo = [p \in Procs |-> {}] /\ odd = [p \in Procs |-> {}]
    /\ mgr = "up" /\ crashes = 0

----------------------------------------------------------------------------
\* rows the queries see (read_deleted='no')
Live == {s \in Snaps : snap[s] \notin {"none", "deleted"}}

\* mutant: a snapshot that is still being created may be deleted
DeletableCreating(s) == snap[s] \in {"available", "error", "creating"}

\* volume_has_snapshots_filter and volume_has_undeletable_snapshots_filter
HasSnapshots == Live # {}
Deletable(s) == snap[s] \in {"available", "error"}
HasUndeletableSnapshots == \E s \in Live : ~Deletable(s)

\* snapshot.save(): snapshot_update raises for a row that is gone
SaveSnap(s, st) ==
    snap' = IF s \in Live THEN [snap EXCEPT ![s] = st] ELSE snap

\* volume.save()
SaveVolume(st) == status' = IF status = "deleted" THEN status ELSE st

At(p, from) == pc[p] = from
Goto(p, to) == pc' = [pc EXCEPT ![p] = to]
Move(p, from, to) == At(p, from) /\ Goto(p, to) /\ UNCHANGED args

\* the request ends, and with it everything it remembers
Done(p) ==
    /\ Goto(p, "idle")
    /\ sn' = [sn EXCEPT ![p] = NoSnap] /\ cascade' = [cascade EXCEPT ![p] = FALSE]
    /\ todo' = [todo EXCEPT ![p] = {}] /\ odd' = [odd EXCEPT ![p] = {}]

End(p, from) == At(p, from) /\ Done(p)

Then(p, to) == Goto(p, to) /\ UNCHANGED args

\* what init_host does after the handler it called: serve, or, when the
\* handler raised, fail to start
AfterHandler(p, ok) ==
    mgr' = IF p # Boot THEN mgr ELSE IF ok THEN "up" ELSE "down"

Frame == UNCHANGED <<mgr, crashes>>

----------------------------------------------------------------------------
(* Creating a snapshot.                                                    *)

\* API.create_snapshot: the status is checked on the volume as it was read
CreateCheck(p, s) ==
    /\ At(p, "idle") /\ Goto(p, "c_insert")
    /\ snap[s] = "none" /\ \A q \in Procs : sn[q] # s
    /\ IF "create" \in Forces THEN status # "deleted" ELSE status = "available"
    /\ sn' = [sn EXCEPT ![p] = s]
    /\ UNCHANGED <<store, cascade, todo, odd, mgr, crashes>>

\* snapshot.create(), QUOTAS.commit, and the cast
CreateInsert(p) ==
    /\ At(p, "c_insert")
    /\ snap' = [snap EXCEPT ![sn[p]] = "creating"]
    /\ \/ Then(p, "c_queued")
       \/ "cast_create" \in Faults /\ Done(p)
    /\ UNCHANGED <<status, pvol, psnap>> /\ Frame

\* manager.create_snapshot: the volume's row and its provider volume are
\* looked up, and the provider makes the copy
CreateDriver(p) ==
    /\ mgr = "up" /\ Move(p, "c_queued", "c_read")
    /\ status # "deleted" /\ pvol # "none"
    /\ psnap' = [psnap EXCEPT ![sn[p]] = "there"]
    /\ UNCHANGED <<status, snap, pvol>> /\ Frame

\* a failure after the provider took the request leaves its snapshot there
CreateDriverFails(p) ==
    /\ mgr = "up" /\ End(p, "c_queued")
    /\ \/ (status = "deleted" \/ pvol # "there") /\ UNCHANGED psnap
       \/ /\ "create" \in Faults /\ status # "deleted" /\ pvol # "none"
          /\ psnap' \in {psnap, [psnap EXCEPT ![sn[p]] = "there"]}
    /\ SaveSnap(sn[p], "error")
    /\ UNCHANGED <<status, pvol>> /\ Frame

\* volume_get, for the image metadata of a bootable volume
CreateRead(p) ==
    /\ At(p, "c_read")
    /\ \/ status = "deleted" /\ Done(p) /\ UNCHANGED snap
       \/ status # "deleted" /\ Then(p, "c_save") /\ UNCHANGED snap
       \/ /\ status # "deleted" /\ "metadata" \in Faults
          /\ Done(p) /\ SaveSnap(sn[p], "error")
    /\ UNCHANGED <<status, pvol, psnap>> /\ Frame

CreateSave(p) ==
    /\ End(p, "c_save")
    /\ SaveSnap(sn[p], "available")
    /\ UNCHANGED <<status, pvol, psnap>> /\ Frame

----------------------------------------------------------------------------
(* Deleting a snapshot, as a request or on behalf of a cascade.            *)

\* API.delete_snapshot: one conditional_update
DeleteSnapshot(p, s) ==
    /\ At(p, "idle") /\ Goto(p, "d_send")
    /\ s \in Live /\ (Deletable(s) \/ "delete" \in Forces)
    /\ snap' = [snap EXCEPT ![s] = "deleting"]
    /\ sn' = [sn EXCEPT ![p] = s]
    /\ UNCHANGED <<status, pvol, psnap, cascade, todo, odd, mgr, crashes>>

\* the volume is read for its host: VolumeNotFound ends the request
DeleteSend(p) ==
    /\ At(p, "d_send")
    /\ \/ status # "deleted" /\ Then(p, "d_queued")
       \/ (status = "deleted" \/ "cast_delete" \in Faults) /\ Done(p)
    /\ UNCHANGED store /\ Frame

\* locked_snapshot_operation
SnapLockFree(s) == \A q \in Procs : pc[q] \in SnapLocked => sn[q] # s

DeleteStart(p) ==
    /\ \/ mgr = "up" /\ Move(p, "d_queued", "d_driver")
       \/ Move(p, "v_lock", "d_driver")
    /\ SnapLockFree(sn[p])
    /\ UNCHANGED store /\ Frame

\* What a wait for a removal that ends well may have left of the copy:
\* 'error_deleting' is no longer 'deleting' and so counts as deleted, and a
\* volume that cannot be read counts as one that is not found
Waited(copy) == IF copy # "none" /\ "stuck" \in Faults THEN {"none", "asked"} ELSE {"none"}

\* a wait that raises: the provider refused the request, or took it and the
\* copy went to 'error', or went after all
Refused(copy) == IF copy = "none" THEN {"none"} ELSE {copy, "asked", "none"}

\* a provider snapshot that is not found counts as deleted
DeleteDriver(p) ==
    /\ Move(p, "d_driver", "d_destroy")
    /\ \E copy \in Waited(psnap[sn[p]]) : psnap' = [psnap EXCEPT ![sn[p]] = copy]
    /\ UNCHANGED <<status, snap, pvol>> /\ Frame

\* mutant: the failure is not recorded
DeleteDriverUnrecorded(p) ==
    /\ "delete" \in Faults /\ At(p, "d_driver")
    /\ IF cascade[p] THEN Then(p, "v_fail") ELSE Done(p)
    /\ UNCHANGED store /\ Frame

\* the handler raises: a cascade it runs for ends with it
DeleteDriverFails(p) ==
    /\ "delete" \in Faults /\ At(p, "d_driver")
    /\ IF cascade[p] THEN Then(p, "v_fail") ELSE Done(p)
    /\ \E copy \in Refused(psnap[sn[p]]) : psnap' = [psnap EXCEPT ![sn[p]] = copy]
    /\ SaveSnap(sn[p], "error_deleting")
    /\ UNCHANGED <<status, pvol>> /\ Frame

\* the quota given back around it is QuotaReservation's
DeleteDestroy(p) ==
    /\ At(p, "d_destroy")
    /\ snap' = [snap EXCEPT ![sn[p]] = "deleted"]
    /\ IF cascade[p] THEN Then(p, "v_loop") ELSE Done(p)
    /\ UNCHANGED <<status, pvol, psnap>> /\ Frame

----------------------------------------------------------------------------
(* Deleting the volume.                                                    *)

\* API.delete: one conditional_update with a filter on the snapshots
DeleteVolume(p, c) ==
    /\ At(p, "idle")
    /\ \/ status = "available"
       \/ "volume" \in Forces /\ status # "deleted"
    /\ IF c THEN ~HasUndeletableSnapshots ELSE ~HasSnapshots
    /\ status' = "deleting"
    /\ Goto(p, IF c THEN "v_list" ELSE "v_mark")
    /\ cascade' = [cascade EXCEPT ![p] = c]
    /\ UNCHANGED <<snap, pvol, psnap, sn, todo, odd, mgr, crashes>>

ListSnapshots(p) ==
    /\ At(p, "v_list") /\ Goto(p, "v_mark")
    /\ todo' = [todo EXCEPT ![p] = Live]
    /\ UNCHANGED <<store, sn, cascade, odd, mgr, crashes>>

\* conditional_update of one snapshot.  Its expected statuses include
\* 'deleting', but the filter it is given beside them does not
MarkSnapshot(p, s) ==
    /\ At(p, "v_mark") /\ s \in todo[p] /\ Deletable(s)
    /\ snap' = [snap EXCEPT ![s] = "deleting"]
    /\ todo' = [todo EXCEPT ![p] = @ \ {s}]
    /\ UNCHANGED <<status, pvol, psnap, pc, sn, cascade, odd, mgr, crashes>>

\* mutant: the cascade marks the volume with a status volumes do not have
MarkSnapshotBadStatus(p, s) ==
    /\ End(p, "v_mark") /\ s \in todo[p] /\ ~Deletable(s)
    /\ SaveVolume("error")
    /\ UNCHANGED <<snap, pvol, psnap>> /\ Frame

MarkSnapshotFails(p, s) ==
    /\ End(p, "v_mark") /\ s \in todo[p] /\ ~Deletable(s)
    /\ SaveVolume("error_deleting")
    /\ UNCHANGED <<snap, pvol, psnap>> /\ Frame

DeleteVolumeSend(p) ==
    /\ At(p, "v_mark") /\ todo[p] = {}
    /\ \/ Then(p, "v_queued")
       \/ "cast_volume" \in Faults /\ Done(p)
    /\ UNCHANGED store /\ Frame

\* locked_volume_operation, held for a whole cascade
VolLockFree ==
    \A q \in Procs : /\ pc[q] \notin VolLocked
                     /\ pc[q] \in SnapLocked => ~cascade[q]

\* manager.delete_volume: refresh; a volume that is gone ends the handler
VolumeStart(p) ==
    /\ mgr = IF p = Boot THEN "init" ELSE "up"
    /\ At(p, "v_queued") /\ VolLockFree
    /\ IF status = "deleted"
       THEN Done(p) /\ AfterHandler(p, TRUE)
       ELSE Then(p, IF cascade[p] THEN "v_scan" ELSE "v_driver") /\ UNCHANGED mgr
    /\ UNCHANGED <<store, crashes>>

\* the handler lists the snapshots again
ScanSnapshots(p) ==
    /\ At(p, "v_scan") /\ Goto(p, "v_loop")
    /\ todo' = [todo EXCEPT ![p] = Live]
    /\ odd'  = [odd EXCEPT ![p] = {s \in Live : snap[s] # "deleting"}]
    /\ UNCHANGED <<store, sn, cascade, mgr, crashes>>

NextSnapshot(p, s) ==
    /\ At(p, "v_loop") /\ s \in todo[p]
    /\ Goto(p, IF s \in odd[p] THEN "v_fail" ELSE "v_lock")
    /\ todo' = [todo EXCEPT ![p] = @ \ {s}]
    /\ sn' = [sn EXCEPT ![p] = s]
    /\ UNCHANGED <<store, cascade, odd, mgr, crashes>>

AtVolumeDriver(p) == At(p, "v_driver") \/ (At(p, "v_loop") /\ todo[p] = {})

\* the provider refuses to delete a volume that has snapshots
ProviderHasSnapshots == \E s \in Snaps : psnap[s] # "none"

VolumeDriver(p) ==
    /\ AtVolumeDriver(p) /\ Then(p, "v_destroy")
    /\ pvol # "none" => ~ProviderHasSnapshots
    /\ pvol' \in Waited(pvol)
    /\ UNCHANGED <<status, snap, psnap>> /\ Frame

\* mutant: the provider's refusal is swallowed
VolumeDriverIgnored(p) ==
    /\ AtVolumeDriver(p) /\ Then(p, "v_destroy")
    /\ pvol # "none" /\ ProviderHasSnapshots
    /\ UNCHANGED store /\ Frame

VolumeDriverFails(p) ==
    /\ AtVolumeDriver(p) /\ Then(p, "v_fail")
    /\ \/ pvol # "none" /\ ProviderHasSnapshots /\ UNCHANGED pvol
       \/ /\ "volume" \in Faults
          /\ pvol' \in Refused(pvol) /\ (pvol' # pvol => ~ProviderHasSnapshots)
    /\ UNCHANGED <<status, snap, psnap>> /\ Frame

\* VolumeIsBusy: the volume is offered again, the handler returns
VolumeBusy(p) ==
    /\ "busy" \in Faults /\ AtVolumeDriver(p) /\ pvol = "there"
    /\ Done(p) /\ SaveVolume("available") /\ AfterHandler(p, TRUE)
    /\ UNCHANGED <<snap, pvol, psnap, crashes>>

VolumeFails(p) ==
    /\ End(p, "v_fail")
    /\ SaveVolume("error_deleting") /\ AfterHandler(p, FALSE)
    /\ UNCHANGED <<snap, pvol, psnap, crashes>>

VolumeDestroy(p) ==
    /\ End(p, "v_destroy")
    /\ status' = "deleted" /\ AfterHandler(p, TRUE)
    /\ UNCHANGED <<snap, pvol, psnap, crashes>>

\* the provider carries out what it was asked after nobody waits any more
ProviderRemoves ==
    /\ "late" \in Faults
    /\ \/ /\ pvol = "asked" /\ ~ProviderHasSnapshots /\ pvol' = "none"
          /\ UNCHANGED psnap
       \/ \E s \in Snaps : /\ psnap[s] = "asked" /\ psnap' = [psnap EXCEPT ![s] = "none"]
                           /\ UNCHANGED pvol
    /\ UNCHANGED <<status, snap, pc, args, mgr, crashes>>

----------------------------------------------------------------------------
(* The worker dies and starts again: running handlers vanish with their    *)
(* locks, queued messages and API requests stay.                           *)

Survivors == {p \in Requests : pc[p] \in {"idle"} \cup ApiPcs \cup Queued}
Kept(f, none) == [p \in Procs |-> IF p \in Survivors THEN f[p] ELSE none]

Crash ==
    /\ mgr # "down" /\ crashes < MaxCrashes
    /\ mgr' = "down" /\ crashes' = crashes + 1
    /\ pc' = Kept(pc, "idle") /\ sn' = Kept(sn, NoSnap)
    /\ cascade' = Kept(cascade, FALSE) /\ todo' = Kept(todo, {})
    /\ odd' = Kept(odd, {})
    /\ UNCHANGED store

\* mutant: pending deletes are not resumed
InitHostReadForgets ==
    /\ mgr = "down" /\ mgr' = "boot"
    /\ UNCHANGED <<store, pc, args, crashes>>

\* init_host reads the volumes, ...
InitHostRead ==
    /\ mgr = "down"
    /\ mgr' = IF status = "deleting" THEN "boot_resume" ELSE "boot"
    /\ UNCHANGED <<store, pc, args, crashes>>

\* ... takes every snapshot in 'creating' for stuck, and resumes a volume
\* delete, without its cascade, before the rpc server starts
InitHost ==
    /\ snap' = [s \in Snaps |-> IF snap[s] = "creating" THEN "error" ELSE snap[s]]
    /\ \/ mgr = "boot" /\ mgr' = "up" /\ UNCHANGED pc
       \/ mgr = "boot_resume" /\ mgr' = "init" /\ Goto(Boot, "v_queued")
    /\ UNCHANGED <<status, pvol, psnap, args, crashes>>

----------------------------------------------------------------------------
CreateStep(p) ==
    \/ CreateInsert(p) \/ CreateDriver(p) \/ CreateDriverFails(p)
    \/ CreateRead(p) \/ CreateSave(p)

DeleteStep(p) ==
    \/ DeleteSend(p) \/ DeleteStart(p) \/ DeleteDriver(p) \/ DeleteDriverFails(p)
    \/ DeleteDestroy(p)

VolumeStep(p) ==
    \/ ListSnapshots(p) \/ DeleteVolumeSend(p) \/ VolumeStart(p)
    \/ \E s \in Snaps : MarkSnapshot(p, s) \/ MarkSnapshotFails(p, s) \/ NextSnapshot(p, s)
    \/ ScanSnapshots(p) \/ VolumeDriver(p) \/ VolumeDriverFails(p) \/ VolumeBusy(p)
    \/ VolumeFails(p) \/ VolumeDestroy(p)

Step(p) == CreateStep(p) \/ DeleteStep(p) \/ VolumeStep(p)

Next ==
    \/ \E p \in Requests, s \in Snaps : CreateCheck(p, s) \/ DeleteSnapshot(p, s)
    \/ \E p \in Requests, c \in Cascades : DeleteVolume(p, c)
    \/ \E p \in Procs : Step(p)
    \/ ProviderRemoves \/ Crash \/ InitHostRead \/ InitHost

Spec == Init /\ [][Next]_vars

\* an accepted request is carried on, and the manager starts again; nobody is
\* obliged to make a request
Fairness == /\ \A p \in Procs : WF_vars(Step(p))
            /\ WF_vars(InitHostRead \/ InitHost)

FairSpec == Spec /\ Fairness

----------------------------------------------------------------------------
(* Properties.                                                             *)

Working(s) == \E p \in Procs : sn[p] = s

\* Once the volume's row is gone, the provider has been asked to remove the
\* volume and did not refuse: a delete that it refused, or that met a snapshot
\* created meanwhile, never gets as far as destroying the row.  That the volume
\* is gone as well is not promised, since the wait takes 'error_deleting' for
\* success; if it is, so are the copies of its snapshots.
DestroyedWasRemoved ==
    status = "deleted" =>
        /\ pvol # "there"
        /\ pvol = "none" => \A s \in Snaps : psnap[s] = "none"

\* Nothing takes a snapshot from the handler that creates it: nobody deletes it
\* by force, and no restart takes its creation for stuck.
Undisturbed == MaxCrashes = 0 /\ "delete" \notin Forces

\* A message that cannot be sent, a restart, or a volume that is offered again
\* beside another delete of it leaves a snapshot to nobody.
Attended == MaxCrashes = 0 /\ {"cast_delete", "busy"} \cap Faults = {}

\* A snapshot offered to users has its copy at the provider, and nobody has
\* asked to remove that, however its creation interleaves with deletes of the
\* snapshot and of the volume.
AvailableHasData == \A s \in Snaps : snap[s] = "available" => psnap[s] = "there"

\* A copy has a row from the moment it is made until its removal is asked for:
\* none is left that no delete will ever look for.
NoOrphanData ==
    \A s \in Snaps : psnap[s] = "there" => snap[s] \notin {"none", "deleted"}

\* A snapshot is left in 'deleting' with nobody deleting it only beside a
\* volume that is gone, whose own delete has failed, or is on its way.
DeletingHasWorker ==
    \A s \in Snaps :
        snap[s] = "deleting" /\ status = "available" => Working(s)

\* Every creation of a snapshot ends, well or in 'error'.
CreatingEnds == \A s \in Snaps : (snap[s] = "creating") ~> (snap[s] # "creating")

\* Every delete of the volume ends: the volume goes, or is 'error_deleting',
\* also when the manager restarts in the middle of it.
DeletingEnds == (status = "deleting") ~> (status # "deleting")

\* Neither of the two is left with a request that nobody serves.
HandlersEnd == CreatingEnds /\ DeletingEnds

\* "Don't allow deletion of volume with snapshots": no snapshot outlives its
\* volume.
NoSnapshotOfDeleted == status = "deleted" => Live = {}
=============================================================================
