# Jacket: TLA+ specifications

Jacket is a hybrid-cloud service.  It joins a fork of Nova (`src/jacket/compute`) and a fork
of Cinder (`src/jacket/storage`) in one worker process, and instead of a hypervisor and a
disk array it drives a *provider* cloud (`src/jacket/drivers/openstack`, other providers
beside it).  This directory holds specifications of the parts where processes, messages,
locks, database transactions and the provider's own asynchronous work meet: what happens
there is decided by interleavings, late answers, failures and restarts, and is hard to test.

Contents: 1 inventory, 2 plan, 3 conventions, 4 the modules, 5 the runs, 6 the proofs,
7 disagreements between code and comments, 8 observations without a run, 9 what is not
modelled.

## 1. Inventory

Paths are relative to `src/jacket`.

### Processes and what they share

- *API process*: REST front ends and the API classes (`compute/cloud/api.py`,
  `storage/volume/api.py`).  Keeps no state; every status change it makes is a database
  transaction, mostly a compare-and-swap (`conditional_update`), followed by a cast.
- *Jacket worker* (`worker/manager.py` 42-75): **one** process that hosts the compute
  manager, the volume manager and the backup manager.  It consumes casts and calls from the
  queue; green threads interleave at every remote call, lock and database access.  When it
  dies all running handlers vanish, messages that were not taken yet stay, and `init_host` of
  each manager runs before the queue is served again.
- *Database*: shared by everybody; a transaction is atomic.
- *External file locks* (`locked_volume_operation` and relatives): per volume **and per
  operation**, so an attach and a detach of the same volume do not exclude each other.
- *Provider cloud*: accepts requests, works on its own, answers late, twice or not at all.

### Components

| component | state | operations | interacts through | hard behaviour | what makes it correct | module |
|---|---|---|---|---|---|---|
| volume attachment protocol (`storage/volume`, `compute/cloud`, `compute/virt/block_device.py`) | volume status, attach_status, attachment rows, provider attachment | check, reserve, initialize/terminate connection, attach, detach, roll back; delete, extend, upload | REST client between the two services, rpc call with timeout, casts | two owners at once; late answers; rollback beside the handler it gave up on; restart | one owner; the three records of an attachment agree; nothing stuck in use without a row; reservations end | VolumeAttach |
| volumes and snapshots (`storage/volume`) | volume and snapshot status, provider copies | create/delete snapshot, delete volume, cascade, force | casts, locks per snapshot and per volume | check-then-insert; cascade listed twice; resumed delete without cascade; a wait that takes failure for success | a row goes only when removal was accepted; an available one has data; deletes and creations end | VolumeSnapshot |
| quota reservations (`storage/quota.py`, `db/storage/sqlalchemy/api.py`) | usage rows, reservations | reserve, commit, rollback, refresh (nothing in the service calls expire) | called by API flow and manager | lost commit, died request, refresh in between, double release | usage never less than the rows; limit kept; what is held back is what is pending | QuotaReservation |
| provider volumes and their mapping (`drivers/openstack`, `db/extend`) | provider volumes, tag, mapping row | create, wait, map, undo; find by mapping or tag, remove, unmap | provider REST, retried on connection errors | crash between copy and mapping; repeated requests; refused removal | no copy forgotten; a mapping names a complete copy | VolumeProvision |
| volume creation flow (`storage/volume/flows`) | task flow, volume status | tasks and their reverts | manager, quota, driver | failure of each task; restart | every creation ends; available means there | VolumeProvision, QuotaReservation |
| migration and retype | migration_status beside status | migrate, complete, retype | attach and detach of the old volume | attach during migration | the user sees one volume throughout | later |
| volume transfer (`storage/transfer`) | transfer row, 'awaiting-transfer' | create, accept, delete | volume API | accept racing with delete | one owner, quota moves once | later |
| backups (`storage/backup`) | backup row, 'backing-up', 'restoring-backup' | create, restore, delete, init_host | volume manager, driver | restart in the middle | volume returns to its former status | none: see 9 |
| consistency groups | group row and its members' status | create, update, snapshot, delete | volume manager | partial failure over a set | members and group agree | last |
| instance task states (`compute/cloud/api.py`, `manager.py`) | vm_state, task_state, host, the provider's server | build, delete, soft delete, restore, stop, start, pause, suspend, rescue, password, snapshot, backup, shelve, offload, unshelve, rebuild, reboot | casts, provider driver, lock per instance | delete during build; two requests at once; saves without an expected state; restart per task state | one operation at a time; row and server agree; no server forgotten; no instance stuck | InstanceTask |
| instance provisioning (`drivers/openstack/compute_driver.py`) | mapping rows, provider servers | spawn, destroy, rebuild | provider REST | crash between create and mapping | no server forgotten | later |
| hypercontainer worker (`worker/hypercontainer`) | none; retries | wormhole calls | HTTP to an agent in the server | retry of what was done | idempotence | later |
| image synchronisation (`utils.py`, `worker`, `compute/cloud`, `storage/volume/flows`, `db/extend`) | rows of `imge_sync` and `images_mapper`, images at the provider | check whether to sync, start, sync in seven steps, wait | creations and builds read, destroy, insert and poll one row; cast to the worker | check and destroy apart; a row replaced under its sync; failure of each step; worker dies | 'finished' means the copy is there; one sync at a time; failures undone; waits end | ImageSync |
| resource tracker and claims | claims, tracked usage | claim, abort, audit | compute manager | audit between claim and save | no host oversubscribed | later |
| power-state synchronisation | power_state | periodic sync | compute manager | sync against running task | no running task overridden | none: see 9 |
| schedulers | host state | filter, weigh | rpc | stale host state | - | not planned: ranking of external data; volumes bypass them (`flows/api/create_volume.py` 790-803) |
| REST APIs, object and database models, networking, consoles, cells, other providers | - | - | - | - | - | not planned: no state of their own, inherited, or not run by the worker |

## 2. Plan

Done, in this order, most important first: VolumeAttach (the state machine every volume
operation depends on), VolumeSnapshot, QuotaReservation, VolumeProvision with the
abstract VolumeLifecycle it implements, then InstanceTask and ImageSync, each with its MC
module, runs and proofs.

Next, *extending the model*:

1. InstanceProvision: spawn and destroy of provider servers with their mapping; shares the
   shape of VolumeProvision and refines an abstract life cycle of its own.  The unique
   constraint on the mapping makes a row that was not removed fatal to every later spawn.
2. Volume transfer: what else moves a volume's status, composed with VolumeAttach.
3. The claims of the resource tracker; resize and migration as an extension of InstanceTask,
   volume migration as one of VolumeAttach.

Next, *proving more*.  Every safety invariant and action property that a passing run checks is
now stated by a theorem (6).  What is left:

1. A refinement of QuotaReservation to an abstract counter that reserves and commits.
2. VolumeAttach under the faults that start a rollback: which part of HoldInv survives them.
3. The hypotheses of InstanceTask's theorems one by one: a delete that fails, an unguarded
   save, each with what still holds beside it.

A new question gets a run of its own only if no existing run can carry it: a further
scenario of an existing run comes first.

## 3. Conventions

- One database transaction, one compare-and-swap, one provider request and one lock
  acquisition are one step each; everything else a handler does between two of them is part
  of the step.  Logging, notifications and views are left out.
- A row that is soft-deleted has the status `"deleted"`; saving onto it raises and changes
  nothing.
- `Faults` names what may go wrong; a run chooses.  `MaxCrashes`, `MaxMishaps`,
  `RetryLimit`, the sets of ids and `MaxClock` are the bounds.
- InstanceTask, QuotaReservation and ImageSync have one run for many scenarios: `setting`, chosen in the
  initial state from `Settings` and never changed, says who takes part, which operations users ask for,
  the configuration, what may fail and whether the manager may die.  A property that needs a condition
  on the scenario names it (`NoOp`, `NoFault`, `Calm`, `DefaultConfiguration`, `OneProject`, no
  restart), so that its theorem reads `Spec => [](condition => ...)` as well.  In VolumeAttach,
  VolumeSnapshot and VolumeProvision faults and operations are constants; there the condition is a named
  formula on the constants (`Smooth`, `Undisturbed`, `Attended`, `Guarded`) that theorems ASSUME and the
  constants of the run satisfy.
- `pc`-like variables (`client`, `calls`, `del`, `create`) are the position of a handler or
  a request in its code: local variables of the code that matter later are variables of the
  model (`seen`, `cAtt`, `todo`, `target`, `cvol`).
- `mgr` is the manager: `"up"`, `"down"`, or where `init_host` stands.  `init_host` reads
  all rows first and acts on what it read, hence two steps.
- Definitions marked `mutant` in a comment are variants of the definition that follows
  with a plausible mistake in it, kept beside it so that each property can be seen to fail.
  No specification uses them.
- `CHECK_DEADLOCK FALSE` everywhere: users may stop asking, and bounded ids run out, so the
  systems really may stop.  What must go on is stated as liveness where it holds.

## 4. The modules

### VolumeAttach

One single-attach volume, the instances that want it, everything that writes its status.

| model | code |
|---|---|
| `status`, `attachStatus`, `rows` | tables `volumes`, `volume_attachment` |
| `plugged` | the provider volume's attachment |
| `client[i]`, `seen`, `cAtt`, `waits` | `ComputeManager._attach_volume`, `DriverVolumeBlockDevice.attach`, `API.detach_volume` and their exception handlers, one per instance |
| `calls` | rpc `attach_volume` and `detach_volume`: queued, running, answered; `NoAnswer` leaves a call running that nobody waits for |
| `CheckAttach`, `Reserve`, ... | `check_attach`, `reserve_volume` (compare-and-swap), `initialize_connection`, `attach`, ... |
| `UndoUnplug`, `UndoTerminate`, `UndoDetach`, `UndoUnreserve` | the compensations, in the order of the code |
| `AttachStart`..`AttachSave`, `DetachStart`..`DetachSave`, `DetachClear` | the manager's handlers under their two different locks |
| `DeleteRequest`, `DeleteStart`.. | `API.delete`, also with `force=True` (`"force_delete"` in `Ops`), which drops the condition on the status and keeps the one on attach_status; `delete_volume` |
| `Extend*`, `Upload*` | check, write, and handler as three steps, since the check is stale when the write happens |
| `Crash`, `InitHostRead`, `InitHost` | the worker's death and restart; `Local` are the instances whose compute manager dies with it |

`plugged = Gone` means that the provider has accepted the removal of the volume; that it then
removes it is not claimed (8).  Bound: one delete of a user at a time, beside the resumed one.

Abstracted: connection info, device names, hosts, the access mode (a fault), quota.

### VolumeSnapshot

A volume, its snapshots, and their copies at the provider.  A request is followed from the
API process through the queue to the handler in `pc[p]`; `todo` is the list a cascade
works through, `odd` the members found in another state.  `pvol` and `psnap` are the
provider's volume and copies.  The provider refuses to remove a volume that has snapshots
(`ProviderHasSnapshots`, external).  `Forces` are the operations a user passes `force=True`
to.

A provider volume or copy is `"there"`, `"asked"` (its removal was accepted and it is still there) or
`"none"`.  The driver's waits succeed for every status but 'deleting' and 'error' and for every
exception (`clients/cinder.py` 264-274, 422-444), so under the fault `"stuck"` (`Waited`) a handler goes
on, and destroys the row, with its copy in `"asked"`; under `"late"` the provider may take the copy away
after all, at any time (`ProviderRemoves`).  VolumeProvision resolves the rest of the provider's work.

`VolumeBusy` is the branch of `delete_volume` (`manager.py` 751-757) that offers the volume
again.  No driver of the repository raises VolumeIsBusy or SnapshotIsBusy; the first is a fault
(`"busy"`), the second is not modelled: a snapshot that is offered again under a second
queued delete loses its copy while it is offered, and two handlers that keep each other from
a lock need not end.

### QuotaReservation

The usage rows and reservations of one project, under the requests that create and delete
its objects.  `inUse`, `reserved`, `countdown` (until_refresh) and `age` (updated_at) are
columns of `quota_usages`; `resv` holds the live reservations as pairs of an object and why
it was reserved (`"create"`, `"undo"`, `"delete"`); `setting` holds the options of
`conf/quota.py` beside the faults; `pc[o]` is the one request that works on
an object.  Reserve, commit and rollback are each one transaction under the lock on the project's usage
rows, hence one step.  `Mishap` counts requests that die or whose quota call fails and is
logged only.

Abstracted: deltas are of one unit (gigabytes included); the leftovers of negative
reservations of one object merge into one, or are forgotten when a later delete of it fails to
reserve (they hold nothing back); usage rows exist from the start; the reverts of a flow run one
after another; snapshots follow the code path of volumes.  `reservation_expire` is not an
action: it takes no lock on the usage rows and reads and writes `reserved` in two statements,
but nothing in the storage service calls it (8), so an orphan (`Orphans`) stays.

### VolumeProvision and VolumeLifecycle

VolumeProvision resolves what the other modules treat as one driver call: the manager's
create flow, the OpenStack driver, the provider, the mapping row, and the delete handler.

| model | code |
|---|---|
| `status` | `volumes.status` |
| `prov[p]` | the provider's volumes with the tag `tag:caa_volume_id` of this volume: building, ready, failed, removing, stuck, gone |
| `mapper` | the row `provider_volume_id` in `volumes_mapper` |
| `create`, `cvol`, `resent` | the create handler, the `sub_volume` it was answered, how often the retry decorator sent the request again |
| `del[d]`, `target[d]` | delete handlers: the users' and the one of init_host |
| `Submit`, `SubmitFails`, `SubmitAgain` | `os_cinderclient.create_volume`: served and answered; refused, or served without an answer; served and sent again after a connection error |
| `WaitEnds`, `WaitFails` | `check_create_volume_complete` with its limit of polls |
| `MapVolume`, `MapVolumeFails`, `UndoCopy` | `volume_mapper_create` and the `sub_volume.delete()` of both exception handlers |
| `DelLookup`, `DelNothing`, `DelLookupFails` | `_get_provider_volume`: the mapping first, the tag second |
| `DelSubmit`, `DelWaitEnds`, `DelWaitFails`, `Unmap` | `delete_volume` of the driver and `check_delete_volume_complete`, which takes any status but 'deleting' and 'error', and any exception, for success |
| `Built`, `Removed` | the provider (external): at any time, well or not |

A volume made from a snapshot or another volume has the same steps in the driver; the image
flow has the state 'downloading' before.  Abstracted: sizes, types, metadata, the source
volume's own status and lock.

VolumeLifecycle is what the service promises about a volume whoever runs in between: it
is offered only when the provider keeps a copy, the copy stays while it is offered, a row
goes only when nothing is kept.  `copies` is the number of copies whose removal nobody has
asked for; `extra` counts creations that were repeated after a lost connection, the one thing
the code does not clean up.  `Lifecycle == INSTANCE VolumeLifecycle WITH copies <-
Cardinality(Kept), extra <- resent` is the refinement mapping.

### InstanceTask

One instance, its row, its server at the provider, the requests on it and the handlers that
serve them, in a compute manager that dies and starts again.

| model | code |
|---|---|
| `exists`, `vm`, `task`, `host`, `launched` | the row of table `instances` |
| `server` | the provider's server: none, active, shutoff, paused, rescue |
| `op[p]`, `pc[p]`, `seen[p]` | what request or handler `p` does, where it stands, the `Instance` object it holds (stale until it saves or refreshes) |
| `Api`, `Load`, `Request` | `check_instance_state` and the `save(expected_task_state=...)` of each API operation: two steps, so two requests may pass the same check |
| `DeleteMark` ... `LocalDestroy` | `API._delete`: saved without a condition, then by host, offloaded, cast, or local delete |
| `Build*` | `_do_build_and_run_instance` to `_build_and_run_instance` and their cleanups, under the instance's lock |
| `DriverStep`, `SimpleSave`, ... | handlers with one driver call and a final save; `Error` and `Revert` are `_error_out_instance_on_exception` and `reverts_task_state` |
| `Snapshot*`, `Image*`, `Shelve*`, `Offload*`, `Unshelve*`, `Reboot*`, `Rebuild*` | the handlers of these names |
| `Terminate*` | `terminate_instance`, under the lock |
| `Crash`, `Restart`, `Boot*` | the manager's death, `init_host`, and `_init_instance` by the cases of its code |

`CAS` is a save with an expected task state; when it fails the handler ends as the code's
`except` does.  `Locked` tells which program points hold `utils.synchronized(instance.uuid)`:
the rebuild and the operations on power do not.  The conductor (external) forwards unshelve.

Abstracted: networks and volumes of the instance beyond their failing, the content of images,
quotas, resize and migration.  Power-state synchronisation does not run (9).  Nothing in
`reboot_instance` reboots the server (it restarts the container in a hypercontainer), hence
RebootStart and RebootFinal leave `server` alone.

### ImageSync

One image and everybody who wants it at the provider.  `Creators` make volumes from it: they
wait until it is there, and start its sync in the worker when nobody else does.  `Builders`
build instances from it, and upload it afterwards themselves.

| model | code |
|---|---|
| `row[p]` | the live row of project `p` in `imge_sync`: who inserted it, and its status |
| `mapper[p]`, `images` | `images_mapper`, and the copies at the provider, named for whose sync made them |
| `pc[a]`, `seen[a]` | `is_image_sync` and what its callers do next: `Lookup`, `ReadRow`, `Destroy`, `Create`, `Cast`, `Poll`, `Copy`; whose row was read |
| `job[a]` | the sync it started: `ComputeManager.image_sync` (`Take` .. `RemoveVolume`), or the end of `_do_hc_spawn_and_image_sync` for a build (from `PowerOff` on) |
| `Insert`, `Save`, `DestroyRows` | `image_sync_create` with its unique constraint, `image_sync_update` of the first row of the image whatever its project, `image_sync_delete` of all of them |
| `MapImage`, `Discard` | `image_mapper_create`, one insert per key, and the handler of its failure |
| `Failed`, `RemoveServer`, `RemoveVolume` | the exception handlers, in the order of the code |
| `servers`, `volumes` | the temporary server and volume of a sync |
| `overtaken` | history, read by properties only: somebody destroyed a row inserted after his reading |

Abstracted: flavors, sizes and the attachments inside the temporary server (`Spawn` is all of
`_do_hc_spawn`); starting the built server again after the upload; the image is a
hypercontainer's, or Glance fails (fault `glance`); an actor asks once.

How the modules fit: the *driver call* of VolumeSnapshot and of VolumeAttach's delete is the
whole driver part of VolumeProvision; the *row* of QuotaReservation is the status of the
others being neither unborn nor deleted.  They are kept apart because their interleavings do
not meet: the delete lock makes the driver part of one volume sequential, and the quota is
touched only after it.

## 5. The runs

Fairness, where a run uses it: weak fairness of each handler, each accepted request, the
provider and init_host (of the instance: each request, and the restart with init_host as one).
The code justifies it: green threads are scheduled round robin, rpc waits and polls are
bounded, and a dead worker is started again by its supervisor.  Nobody is ever obliged to
*make* a request.  File locks are not fair, so no run relies on strong fairness.

| run | question | bounds, and why they suffice |
|---|---|---|
| attach_protocol | is the reservation exclusive, do the three records agree, is a deleted volume nobody's, is 'deleting' kept, does only the owner detach | three instances, three attachment ids, two calls in flight, a delete: two competitors and a third to come in between |
| attach_restart | with late attach calls and their rollbacks, a restart, a forced delete and its resumption, and extend and upload acting on stale checks: one live row per instance, no use without a row | two instances that die with the worker, two ids, two calls, one restart; the delete, the extend and the upload one at a time, an extend or an upload beside one call, the extend before the restart (`JobsApart`): the abandoned handler, or the job that has read a stale status, beside its rollback or repetition |
| attach_live | does a reservation always end | two instances and a delete, forced or not; failures of every step, one restart; not under a lost cast, a dying compute manager or an extend, where it does not hold (8) |
| undo_detaches_other | *violated*: see 7 | a late answer suffices |
| snap_safety | do rows and provider agree while snapshots are made and deleted under a volume delete with or without cascade | two snapshots and four requests, interchangeable: two that race on one snapshot, and two deletes of the volume, one a cascade over both; every fault but the lost delete message and a busy volume, forced creation and volume delete |
| snap_live | do creations and deletes end, with a restart anywhere, a forced delete of the volume, and a driver that finds it busy | two snapshots, two requests, one restart, the resumed delete |
| outlives_volume | *violated*: see 7 | one snapshot request and one delete |
| quota | in the default configuration: are claims covered, the limit kept, the usage exact when quiet; with refreshes and reverted casts as well: is what is held back what is pending, and what nobody will end the trace of a death or a failed quota call | *Default*: two volumes of a type with a quota of one, another volume and a snapshot that share two gigabytes, three mishaps: a limit of each kind is hit by two who race; *Refreshing*: two volumes, until_refresh 2, max_age 2 of a day of 4 ticks, every fault, two mishaps |
| revert_undercounts | *violated*: see 7 | one failing cast |
| instance | in ten scenarios: is one operation at work at a time, has every task its worker, do row and server agree when nothing runs, is no server forgotten, does what a restart interrupts end | two requests and one restart, *Crowd* three requests: the third was loaded before the second, a delete, clears the task of the first; more are a matter of proof (6).  The slots are alike, so the build takes the first (`builder`); *Races*: the guarded operations against the build, one another and deletes; *Overwrites*: the unguarded ones; *Respawns*: rebuild and unshelve; *Restores*: a restore of a row without a host, which is in the middle of its soft delete; *Restarts*, *Builds*: the manager dies; *Everything*: one request after the other, every operation, fault and a restart; *Backed*: booted from a volume; *Later*: shelved servers are offloaded on request |
| image_sync | is an image taken for synchronised only when its copy is there, do syncs run beside one another, are failures undone, do waits end | *Builds*, *Building*: a creation with two builds, two with one, in one project, every step of the sync failing: one whose sync failed and two that read its row, which is what it takes to overtake; *Strangers*, *Abroad*: a build and a creation beside a creation of another project, which find each other's rows; *Everything*: two creations and every fault; *Restarts*: a creation, a build, every fault and a restart |
| provision | is no copy forgotten, is what is mapped there, do both handlers end, is the life cycle kept | two copies (one answered, one lost or repeated), two deletes beside the resumed one, one repetition, one restart |

What they show, property by property:

- OneOwner, ConnectedHasRow and DestroyedIsFree hold without the faults that start a rollback
  and without a forced delete; RowsUnique and NoPhantomUse hold under every fault that was
  tried, forced deletes included.
- DeletingIsKept: after `API.delete` without force only the delete handler moves a volume on,
  though handlers of attach, detach and roll-back write the status unconditionally.  A forced
  delete takes an 'attaching' volume from its owner, and neither property holds then (8).
- DestroyedWasRemoved: the row of the volume goes only when the provider has accepted its
  removal, through cascades, refused deletes, force and, in the proof, restarts; if the volume
  is gone as well, so are the copies of its snapshots.  AvailableHasData and NoOrphanData (a copy
  has a live row until its removal was accepted) hold unless an administrator force-deletes a
  snapshot that is being created.  None of them claims that an accepted removal works.
- ClaimsCovered and WithinLimit hold in the default configuration (refresh off) through
  deaths and lost commits; QuietIsExact when nothing died.  ReservedIsPending holds in every
  configuration, and so does OrphansHaveDied: a reservation that nobody will commit or roll
  back (and nobody expires) is left by a death or a failed quota call only, one by each.
- OneWorker: the compare-and-swap of the task state is enough, as long as no operation that saves
  without one (suspend, password, soft delete, hard reboot, rebuild) is asked for, hence no restore
  either (only what was soft-deleted is restored), and no delete fails, and until a delete is about to
  destroy the row: it has cleared the task by then, and a request that was loaded before is admitted
  beside the one the delete came in upon.  It takes three requests to see that (*Crowd*).
  TaskHasWorker: whichever save a handler gives up on, no task is left behind.  Both suppose no
  unshelve, which may give a host to a row that the API has decided to destroy: the row is kept,
  'deleted' and without a task (8). QuietAgrees: after any race of guarded operations, deletes and the
  build, vm_state says what the server does, in the words of `vm_states.py`.
- NoOrphanServer, HostedServer, OffloadedIsGone: a delete at any point of a build finds or
  leaves no server; a server belongs to a row with a host, also after restarts and failures,
  hence a later delete asks the manager.  Rebuild and unshelve break the first two (8).
- DeletingEnds and RestartEnds (BuildEnds and ResumedEnds) of the instance: `init_host` carries
  on or clears what it promises to.  ResumedEnds supposes that the worker comes up again (8).
- NoLeak, MappedIsThere, KeepsLifecycle hold through every fault of the provider and a
  restart, except where a restart meets a creation still queued (8).
- HandlersEnd of volumes and of snapshots: creations and deletes end, each in a run with a
  restart.
- SyncedIsThere holds with every failure and restart, in one project and in two, unless a
  mapping is inserted by half; OneSync and QuietIsClean until somebody destroys a row that has
  replaced the one he read (`overtaken`), which is possible (8).  WaitEnds needs none of that:
  even then a creation is never left waiting for a sync that is gone, without the time-out.

## 6. The proofs

`*_proofs.tla` hold theorems for every value of the constants; the assumptions are the named
ASSUMEs of the modules (types and distinctness of the constants, finite sets of objects and of
provider volumes), which TLC evaluates in the runs.

- **VolumeAttach_proofs**.  TypeCorrect; PhantomFree by itself inductive with the type
  invariant: status and rows are written in one transaction, or after a test of the rows;
  OneRowPerInstance from `RowsInv`: attach handlers exclude each other by their lock
  (AttachLocked), the one past its lookup found no row of its instance (FreshAttach), and only
  `volume_attached` writes an instance into a row (BlankRows).  All hold for every fault,
  operation and number of restarts.
- **VolumeHolder_proofs**, on VolumeAttach.  HolderCorrect, and from it OneOwnerCorrect,
  ConnectedCorrect, DestroyedCorrect, DeletingKept and OwnDetachCorrect, the last two about steps.
  They ASSUME `Smooth`: no restart, no extend or upload, no delete with force, no attach that
  fails, or is given up, after its reservation.  Each of these alone breaks OneOwner (a rollback
  gives back another one's reservation, a forced delete fires at the next one's, see 8); lost
  requests, failing detaches and failing deletes are allowed.
  ConnectedCorrect also supposes that terminate_connection does not fail, since the instance
  then believes in an attachment the provider has removed.  OneOwner is far from inductive.
  `HoldInv` follows the *holder* of the volume from the compare-and-swap that reserves it to
  the transaction that drops its last row: there is one (OneHolder); at each step of it the
  status, the rows, the provider and its call say what that step expects (Agrees); every call in
  the queue or at work is the one its instance awaits (Awaited), so no abandoned handler
  writes; and 'available', 'deleting' and 'deleted' mean that there is no holder (Unheld), so
  the delete's compare-and-swap, which has a condition on the status as long as nobody passes
  force (lemma Unforced), excludes the reservation's.
- **QuotaReservation_proofs**.  TypeCorrect; ReservedCorrect for every configuration;
  ClaimsCoveredCorrect, NeverUndercountsCorrect, WithinLimitCorrect for the settings that
  satisfy DefaultConfiguration, from one invariant `ClaimInv` (ClaimsCorrect), which relates the
  usage, the live reservations and where each request stands.  QuietExactCorrect from `ExactInv`
  beside it: while no request has died or failed unnoticed, a usage is the number of objects
  whose creation is committed and whose deletion is not (UsageIsAbsorbed), and the reservations
  are those of the requests under way; no refresh is due then, since an exact usage is never
  negative.  NeverUndercounts alone is not inductive: a
  deletion that commits after its row is gone needs the usage to cover it too, which is what
  Claimants adds.  OrphansCorrect, in every configuration: a step without a mishap orphans
  nothing, a mishap one reservation, since a request is at the place of one at a time.  No theorem
  is about expire: they are about the service as it runs, in which nothing calls it.
- **VolumeSnapshot_proofs**.  TypeCorrect; RemovedCorrect for every fault, forced operation and restart.
  DestroyedWasRemoved is not inductive: `GoneInv` adds that a handler about to destroy the row has had
  the volume's removal accepted, and that the provider has no snapshot without its volume, since it
  refuses to remove the one before the others and to copy what is not there.  AvailableCorrect and
  NoOrphanCorrect ASSUME `Undisturbed` (no restart, no force-delete of a snapshot): `CopyInv` says that
  a creation is alone with its snapshot, and that whoever removes a copy, or has it on the list of a
  cascade, works on a snapshot that is leaving for good.  Neither supposes that a removal that was
  waited for has happened.  NoOrphanData speaks of rows that are not there as well as of deleted ones:
  that is what makes it inductive.  DeletingCorrect ASSUMEs `Attended` (no restart, every delete message
  sent, no volume offered again as busy) and allows forced deletes: as long as the volume is available
  nobody works on its delete, so a snapshot in 'deleting' has its own remover.
- **VolumeProvision_proofs**.  TypeCorrect without any assumption beyond the constants';
  NoLeakCorrect, MappedCorrect and RefinesLifecycle under `Guarded`: no restart meets a queued
  creation, no volume is force-deleted while it is created.  The invariant has three parts.
  *Control* says who runs when: nothing beside the create flow (CreatorAlone), nothing but
  queued messages while the manager starts (ManagerStarts), one delete at a time
  (OneDeleter), and a delete holds the status until its handler destroys the row
  (DeletersLeave).  *Knowledge* says what the handlers' variables mean at the provider.
  *Counted* is the heart: at most `resent + 1` copies were ever made, so a handler that has
  seen one copy asked to go, or gone, knows that at most `resent` are left, and it may destroy
  the row without searching again.  The refinement needs that count for Destroy, and
  MappedIsThere for Offer.

- **InstanceTask_proofs**.  TypeCorrect; InvCorrect, and from it OffloadedCorrect,
  HostedCorrect and NoOrphanCorrect, under the conditions their properties name.  The
  invariant is TypeOK, `RowInv` (without rebuild and unshelve) and `ServerInv` (when moreover
  no spawn can fail together with its cleanup: NeverForgets).  Its heart is that the build is
  alone with the instance until it ends (AloneInv), since an instance that was never launched
  admits deletes only (YoungInv).  So every step of a handler that is not the build is
  `Quiet` (it makes no server, gives no host back while there is one) and every step of the
  build is `Making`; the two operators classify the 50 actions once, and each conjunct of the
  invariant is preserved by both classes.  The restart is the case of its own that makes the
  first two theorems hold for any number of crashes, and the third for none.

- **InstanceWorker_proofs**, on InstanceTask.  WorkCorrect, and from it OneWorkerCorrect,
  TaskHasWorkerCorrect and QuietAgreesCorrect, for any number of concurrent requests.  All
  suppose `Orderly` (no restart, no delete that fails, no rebuild, hard reboot, soft delete,
  restore or unshelve); OneInv moreover `Guarded` (no suspend, no password: their handlers clear the task
  and work on), DoomInv and OwnInv that messages can be sent (a lost one leaves its task),
  AgreeInv `Driven` (also no soft reboot and no driver call or upload that fails half way).
  Every step has one of five *effects* (a request is loaded, asks for its task, is
  served; the build; a delete), proved once from the fifty actions; the conjuncts of `WorkInv` are
  then preserved effect by effect.  OneInv: while no delete is finishing, one request is
  served, and the row has a task.  The rest cannot be said with the row alone, since a delete saves
  over any task.  DoomInv: the task 'deleting', in the row or in an object that a second
  delete has loaded, means that some delete is *committed* to destroying the row; only so may the
  second be ignored.  OwnInv: if there is none, the handler whose next save expects the task
  is still there.  AgreeInv: until a delete removes the server, the handler's
  position says where the server is (Stage), and a handler that a delete has preempted gives up at
  its next save.

- **ImageSync_proofs**.  TypeCorrect, SyncedCorrect, OneSyncCorrect and QuietCorrect, from one
  invariant of five parts.  `StartInv`: an actor starts one sync, after its row was inserted.
  `MapInv` and `SyncInv`: a mapped copy is there and its sync has no step left that removes it;
  'finished' comes after a mapping.  `OwnInv` is the heart: until it saves its last status a
  sync owns a row that says it runs, and whoever is about to destroy a row has read one whose
  sync is over; so only a row inserted between a reading and a destruction can be lost.
  `CleanInv` accounts for what each sync has made by where it stands.

Only model-checked: liveness (AttachingEnds, HandlersEnd twice, DeletingEnds, RestartEnds,
WaitEnds), which needs fairness and ENABLED, and the three properties that runs
show violated.  Every invariant and action property of a passing run is proved; what the run still
adds is that the hypotheses are satisfiable and the bad states near: each has a mutant.  Out
of the prover's reach in general: liveness under fairness, ENABLED, induction over data,
RECURSIVE operators (none is used).

The proofs changed the model once.  OneWorker used to claim one worker whatever a delete does;
the attempt to prove it for any number of requests stopped at the step in which a delete
clears the task, and TLC found the run of three requests that two slots cannot show.  The
property now ends where the delete finishes, and *Crowd* is the scenario that violates the old
one.  The same attempt showed that an unshelve must be excluded from it and from
TaskHasWorker.

## 7. Where code and comments disagree

- *undo_detaches_other*.  `compute/virt/block_device.py` 323-326: the rollback of an attach
  whose answer was late calls detach without an attachment id; terminate_connection has
  given the reservation back, another instance attached in between, and it is detached.  The
  comment says that "If the attach did not happen, the detach request will be ignored."
- *outlives_volume*.  `storage/volume/api.py` 710: a snapshot is inserted after a check of a
  volume object read earlier, while delete tests for snapshots only when it marks the
  volume; the comment at 361 says "Don't allow deletion of volume with snapshots".
- *revert_undercounts*.  `storage/volume/flows/api/create_volume.py` 697: after a failed
  cast QuotaCommitTask gives the quota back while EntryCreateTask keeps the row (549); the
  usage counts fewer volumes than there are, and deleting the row gives the quota back again.

## 8. Observations without a run

What reading and modelling showed, and no property claims:

- `storage/volume/api.py` 1177: extend and upload check a status that was read earlier and
  write without condition; an 'in-use' or 'deleting' volume can become 'extending'.
- `storage/volume/manager.py` 1084: a detach that finds no row marks the volume available
  without looking again; an attach may have completed in between (other lock).
- `compute/cloud/manager.py` 4945: a failed attach unreserves twice; the second can take
  another instance's reservation.
- `compute/cloud/api.py` 3100: when the cast fails after reserve_volume the volume stays
  'attaching'; so it does when the compute manager dies between reservation and attach.
- `storage/volume/manager.py` 501-513: a delete resumed by init_host does not look at the
  status again, and runs beside the user's own message.
- `storage/volume/manager.py` 485-487: snapshots in 'creating' are turned to 'error' although
  their message is still queued and will be served; a `delete_snapshot` cut by a restart stays
  'deleting', as nothing resumes it.
- The same for volumes (439-485): a creation still in the queue when the worker restarts is
  set to 'error'; the user may delete it, and then both handlers run (no lock; see the comment
  at `flows/manager/create_volume.py` 212).  With the fault "backlog" NoLeak is violated.
- `drivers/openstack/clients/cinder.py` 264-274 and 422-444: 'error_deleting' at the provider,
  and any exception while polling, count as a completed removal, of a volume and of a snapshot;
  the row is destroyed and the data stays.
- `storage/volume/api.py` 352-355: with `force=True` a delete has no condition on the status.  An
  'attaching' volume, still 'detached', goes to 'deleting' under its owner; then either its
  attach ends first, which refuses only 'in-use' (`db/storage/sqlalchemy/api.py`, `volume_attached`;
  `manager.py` 965), and the volume is 'in-use' again with its delete still queued, which is
  refused as long as it is attached and fires after a detach, upon the next one's reservation;
  or the delete ends first and the volume is destroyed under its owner.
- `storage/volume/manager.py` 2109-2146 (extend) beside attach: an extend that acts on a stale
  check frees a volume under its detach; a second instance reserves it, finds it attached
  (`compute/virt/block_device.py` 297 skips the attach), and the volume stays 'attaching':
  AttachingEnds is violated with `"extend"` in `Ops`.
- `drivers/openstack/volume_driver.py` 372-376 and 384-389: the mapping row of a volume that
  the provider has lost, or whose deletion failed, is never removed.
- `client_retry_limit` repeats a create on a connection error: duplicates with one tag, of
  which a delete removes one.
- `flows/api/create_volume.py` 829-838: VolumeCastTask's docstring promises to "error out newly
  created volume", but its revert returns when the cast itself failed; the volume stays
  'creating' until the next restart.
- `flows/manager/create_volume.py` 322-327: the revert reads `result.get('volume_spec')`, which
  the result never has, so the source volume's status is not restored; rescheduling (996) is
  commented out.
- `db/storage/sqlalchemy/api.py` 896-899: the age of a usage is taken with its operands
  swapped, against `conf/quota.py` 44 ("Number of seconds between subsequent usage refreshes").
- `db/storage/sqlalchemy/api.py` 818-888: with until_refresh > 0 a refresh between the
  destruction of a row and its commit counts the delta twice.
- `storage/quota.py` 1035 relies on "the reservation expiration mechanisms"; nothing in the
  storage service calls expire (the compute scheduler does, for its own quota), so that what a
  died request has reserved is held back for ever, as the docstrings at
  `flows/api/create_volume.py` 571-578 and 675-683 fear.  If it were called,
  `reservation_expire` (`db/storage/sqlalchemy/api.py` 1124-1150) would subtract from `reserved`
  without the lock that reserve, commit and rollback take, and could lose their updates.
- A cascade and a snapshot's own delete each give the snapshot's quota back.
- `compute/cloud/manager.py` 4381-4397: suspend saves task none at its end, and when a later
  statement fails `reverts_task_state` (335-377) clears the task of a request admitted in
  between; the password handler on a server that does not run does the same.
- `compute/cloud/manager.py` 2381-2397: a build that finds 'deleting' saves it over, with its own task
  state, because a failed save leaves the fields dirty.  When the manager dies in the delete
  after the server went, `init_host` (1053-1100) no longer sees 'deleting', asks for the power
  state, and the exception leaves it (`worker/manager.py` 65-73): the worker never starts.
  The same after a crash between the removal and the save of an offload.
- Rebuild (no lock) and unshelve spawn a server for an instance that may be deleted meanwhile:
  nothing removes it.  So does a spawn that fails and whose cleanup fails.
  `_cleanup_running_deleted_instances` and `_reclaim_queued_deletes` exist only in
  `controller/manager.py` (614-724), where they call methods that class has not.
- `compute/cloud/api.py` 1647-1710: a local delete with the service down leaves the server; a
  second delete of an instance in 'deleting' is ignored (1672-1680); 1948-1954: force_delete is
  documented for "any vm_state/task_state" and refuses any task state.
- `compute/cloud/manager.py` 2564-2630: a delete saves 'deleted' and clears the task, then destroys
  the row; in between a request that was loaded before passes its compare-and-swap of the task
  and is served beside the one the delete came in upon.  `compute/cloud/api.py` 1812-1851: a local
  delete does not destroy a row to which an unshelve gives a host meanwhile; the row stays,
  'deleted' and without a task.
- A hard reboot of a stopped instance makes it 'active' with its server off.
- A manager that dies before the claim leaves 'building' without a host, which no restart
  finds; a stop of an instance in 'error' cut by a restart stays 'powering-off'; a soft-deleted
  instance in 'deleting' is skipped by `init_host`; a failed unshelve leaves 'unshelving'.
- `utils.py` 934-937 and `db/extend/sqlalchemy/api.py` 862: destroying by image and not by row,
  after a check, lets two syncs run at once.  The loser cannot insert its mapping, marks the
  winner's row 'error' and so fails every creation that waits for it, although the image is
  there; and as `is_image_sync` then finds the mapping first (921), the row stays 'error' and
  every later creation from the image fails.  A volume whose creation waited for a build's sync
  that failed fails as well, the row being destroyed (`compute/cloud/manager.py` 6282-6286).
- `storage/volume/flows/manager/create_volume.py` 622-624 waits for a row whether or not a sync
  is needed: an image that was mapped without a sync, or is not a hypercontainer's, raises
  ImageSyncNotFound.
- `compute/cloud/manager.py` 6533: a volume that cannot be made, as a lost cast or the worker's
  death, leaves the row running for ever; each later creation waits half an hour and fails.
  6600: the handler of the last save reads `ex`, which nothing has bound.
- `db/extend/sqlalchemy/api.py` 835: rows are read by image over all projects, and inserted per
  project; a waiting creation may poll another project's row.
- `worker/hypercontainer/wormhole_business.py` 18-72: RetryDecorator promises to retry
  indefinitely for a count of -1 and calls the function once; the sleep time is never
  incremented.

## 9. Not modelled, and why

- *Backups*.  `storage/backup/manager.py` calls get_backup_device, initialize_connection and
  detach_volume of `worker/rpcapi.py`, which has none of them, and the default
  backup driver (`drivers/openstack/volume_driver.py` 693-714) has no backup, restore or
  delete: every request ends in 'error' at once, and there is nothing to interleave.
- *Power-state synchronisation* (`controller/manager.py` 369-612): calls methods its class does
  not have; it fails at its first instance.
- Multiattach volumes (one owner at a time is what VolumeAttach asks about), volume migration
  and retype, resize, consistency groups, transfers, instance mappings, claims, and nested
  quotas are listed with their status in `PROJECT.json`; most are in the plan.
- `reservation_expire` (4, 8) and the SnapshotIsBusy branch of `delete_snapshot` (`manager.py`
  909-914), which no driver of the repository takes (4).
- Schedulers, REST parsing, views, consoles, cells, inherited networking and the drivers of
  other providers have no state of their own here, or the worker does not run them.
