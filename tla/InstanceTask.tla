---------------------------- MODULE InstanceTask ----------------------------
(***************************************************************************)
(* One instance of the compute service: its row, whose task_state says     *)
(* which operation works on it, the server at the provider, the API        *)
(* requests and the handlers of the compute manager that serve them.       *)
(* A request loads the row, checks what it loaded, then saves its task     *)
(* state with a compare-and-swap on the task state alone, and casts.  The  *)
(* handler calls the provider and saves the outcome with a compare-and-    *)
(* swap of its own.  A delete and a reboot save without one.               *)
(* A database statement and a provider call are one step each.             *)
(***************************************************************************)
EXTENDS Naturals, FiniteSets

CONSTANTS
    Requests,  \* slots for the requests under way at the same time
    Boot,      \* init_host's work on the instance after a restart
    Settings   \* what may happen in a behaviour: one of these

AllFaults == {"claim", "block", "spawn", "driver", "destroy", "image",
              "shelved_image", "cast"}

VARIABLES
    exists,    \* the row is not soft-deleted
    vm, task,  \* instances.vm_state and task_state
    host,      \* instances.host is set
    launched,  \* instances.launched_at is set
    server,    \* the provider's server
    op, pc,    \* per request: the operation and where it stands
    seen,      \* per request: the instance object it works with
    mgr,       \* the compute manager: up, down or in init_host
    crashes,
    setting    \* one of Settings, chosen at the start

row  == <<exists, vm, task, host, launched>>
env  == <<crashes, setting>>
vars == <<row, server, op, pc, seen, mgr, env>>

Slots        == setting.slots    \* bounds the concurrent requests
Builder      == setting.builder  \* the slot of the build: they are interchangeable
Ops          == setting.ops      \* what users ask for
Faults       == setting.faults   \* what may go wrong
VolumeBacked == setting.backed   \* the instance boots from a volume
OffloadNow   == setting.offload  \* CONF.shelved_offload_time is 0, its default
MaxCrashes   == setting.crashes  \* bounds the restarts of the compute manager

Procs == Requests \cup {Boot}

VmStates == {"building", "active", "paused", "stopped", "rescued",
             "soft-delete", "deleted", "error", "shelved", "shelved_offloaded"}
BuildTasks   == {"scheduling", "block_device_mapping", "networking", "spawning"}
RebuildTasks == {"rebuilding", "rebuild_block_device_mapping", "rebuild_spawning"}
ImageTasks   == {"image_snapshot", "image_snapshot_pending",
                 "image_pending_upload", "image_uploading"}
SoftReboots  == {"rebooting", "reboot_pending", "reboot_started"}
HardReboots  == {"rebooting_hard", "reboot_pending_hard", "reboot_started_hard"}
ShelveTasks  == {"shelving", "shelving_image_pending_upload",
                 "shelving_image_uploading", "shelving_offloading"}
Tasks == {"none", "powering-off", "powering-on", "pausing", "unpausing",
          "suspending", "rescuing", "unrescuing", "updating_password",
          "image_backup", "unshelving", "deleting", "soft-deleting", "restoring"}
         \cup BuildTasks \cup RebuildTasks \cup ImageTasks
         \cup SoftReboots \cup HardReboots \cup ShelveTasks
Servers == {"none", "active", "shutoff", "paused", "rescue"}
Running == {"active", "rescue"}    \* power_state.RUNNING

Seen == [vm : VmStates, task : Tasks, host : BOOLEAN, off : BOOLEAN]
NotSeen == [vm |-> "building", task |-> "none", host |-> FALSE, off |-> FALSE]

----------------------------------------------------------------------------
(* The API's operations.  vm and task: what the loaded row must show; from *)
(* and to: the compare-and-swap of the task state.                         *)

Check(vms, to) == [vm |-> vms, task |-> {"none"}, from |-> {"none"}, to |-> to]

StopApi     == Check({"active", "error"}, "powering-off")
StartApi    == Check({"stopped"}, "powering-on")
PauseApi    == Check({"active"}, "pausing")
UnpauseApi  == Check({"paused"}, "unpausing")
SuspendApi  == Check({"active"}, "suspending")
RescueApi   == Check({"active", "stopped", "error"}, "rescuing")
UnrescueApi == Check({"rescued"}, "unrescuing")
PasswordApi == Check({"active"}, "updating_password")
SnapshotApi == Check({"active", "stopped", "paused"}, "image_snapshot_pending")
BackupApi   == Check({"active", "stopped", "paused"}, "image_backup")
RebuildApi  == Check({"active", "stopped", "error"}, "rebuilding")
ShelveApi   == Check({"active", "stopped", "paused"}, "shelving")
OffloadApi  == Check({"shelved"}, "shelving_offloading")
UnshelveApi == Check({"shelved", "shelved_offloaded"}, "unshelving")
RestoreApi  == Check({"soft-delete"}, "restoring")
SoftRebootApi == Check({"active"}, "rebooting")
HardRebootApi ==
    [vm |-> {"active", "stopped", "paused", "error"},
     task |-> {"none", "unpausing", "pausing", "suspending", "rebooting_hard"}
              \cup SoftReboots,
     from |-> {"none", "unpausing", "suspending", "rebooting_hard"}
              \cup SoftReboots,
     to |-> "rebooting_hard"]

Api == [stop |-> StopApi, start |-> StartApi, pause |-> PauseApi,
        unpause |-> UnpauseApi, suspend |-> SuspendApi, rescue |-> RescueApi,
        unrescue |-> UnrescueApi, password |-> PasswordApi,
        snapshot |-> SnapshotApi, backup |-> BackupApi, rebuild |-> RebuildApi,
        shelve |-> ShelveApi, offload |-> OffloadApi, unshelve |-> UnshelveApi,
        restore |-> RestoreApi, soft_reboot |-> SoftRebootApi,
        hard_reboot |-> HardRebootApi]

\* what delete, force_delete and soft_delete write, whatever the row shows
DeleteTask == [delete |-> "deleting", force_delete |-> "deleting",
               soft_delete |-> "soft-deleting"]
Deletes == DOMAIN DeleteTask
AllOps  == DOMAIN Api \cup Deletes

----------------------------------------------------------------------------
(* The handlers that make one provider call.  does: the states of the      *)
(* server the call works on, and what it makes of them; vm, from: the      *)
(* final save.                                                             *)

PowerOff == [s \in {"active", "shutoff"} |-> "shutoff"]
PowerOn  == [s \in {"active", "shutoff"} |-> "active"]

Final(does, to, from) == [does |-> does, vm |-> to, from |-> from]

StopHandler     == Final(PowerOff, "stopped", {"powering-off"})
StartHandler    == Final(PowerOn, "active", {"powering-on"})
PauseHandler    == Final([s \in {"active"} |-> "paused"], "paused", {"pausing"})
UnpauseHandler  == Final([s \in {"paused"} |-> "active"], "active", {"unpausing"})
RescueHandler   == Final([s \in {"active", "shutoff"} |-> "rescue"], "rescued", {"rescuing"})
UnrescueHandler == Final([s \in {"rescue"} |-> "active"], "active", {"unrescuing"})
SoftDeleteHandler == Final(PowerOff, "soft-delete", {"soft-deleting"})
RestoreHandler    == Final(PowerOn, "active", {"restoring"})

Simple == [stop |-> StopHandler, start |-> StartHandler, pause |-> PauseHandler,
           unpause |-> UnpauseHandler, rescue |-> RescueHandler,
           unrescue |-> UnrescueHandler, soft_delete |-> SoftDeleteHandler,
           restore |-> RestoreHandler, rebuild_stop |-> StopHandler]

\* the handlers that upload an image: the task states on the way
ImageHandler ==
    [snapshot |-> [first |-> "image_snapshot", pending |-> "image_pending_upload",
                   uploading |-> "image_uploading"],
     backup |-> [first |-> "image_backup", pending |-> "image_pending_upload",
                 uploading |-> "image_uploading"],
     shelve |-> [first |-> "shelving", pending |-> "shelving_image_pending_upload",
                 uploading |-> "shelving_image_uploading"]]

HandlerOps == AllOps \cup {"none", "build", "rebuild_stop"}

ApiPcs   == {"check", "route", "local", "local_destroy"}
Queued   == {"cast", "unshelve_cast"}
BuildPcs == {"b_claim", "b_net", "b_bdm", "b_spawning", "b_spawn", "b_save",
             "b_clean", "b_unclaim", "b_error"}
TermPcs  == {"deleted", "purge", "failed"}
UnshelvePcs == {"u_claim", "u_spawn", "u_save", "u_unclaim"}
RebuildPcs  == {"r_destroy", "r_bdm", "r_spawning", "r_spawn", "r_save",
                "r_mark", "r_stop", "r_host"}
Pcs == {"idle", "off", "driver", "save", "error", "revert", "mark", "image",
        "upload", "o_destroy", "o_save", "started", "final", "init"}
       \cup ApiPcs \cup Queued \cup BuildPcs \cup TermPcs
       \cup UnshelvePcs \cup RebuildPcs

ASSUME ConstantsAssumption ==
    /\ Boot \notin Requests
    /\ \A s \in Settings :
          s \in [slots : SUBSET Requests, builder : Requests, ops : SUBSET AllOps,
                faults : SUBSET AllFaults, backed : BOOLEAN, offload : BOOLEAN,
                crashes : Nat]

TypeOK ==
    /\ exists \in BOOLEAN /\ vm \in VmStates /\ task \in Tasks
    /\ host \in BOOLEAN /\ launched \in BOOLEAN /\ server \in Servers
    /\ op \in [Procs -> HandlerOps] /\ pc \in [Procs -> Pcs]
    /\ seen \in [Procs -> Seen]
    /\ mgr \in {"up", "down", "boot"} /\ crashes \in 0..MaxCrashes
    /\ setting \in Settings

\* the API has created the row and asked the conductor for the build
Init ==
    /\ setting \in Settings
    /\ exists = TRUE /\ vm = "building" /\ task = "scheduling"
    /\ host = FALSE /\ launched = FALSE /\ server = "none"
    /\ op = [p \in Procs |-> IF p = Builder THEN "build" ELSE "none"]
    /\ pc = [p \in Procs |-> IF p = Builder THEN "cast" ELSE "idle"]
    /\ seen = [p \in Procs |-> NotSeen]
    /\ mgr = "up" /\ crashes = 0

----------------------------------------------------------------------------
At(p, s) == pc[p] = s

\* the manager serves requests once init_host has returned
Works(p) == IF p = Boot THEN mgr = "boot" ELSE mgr = "up"
AtWork(p, s) == At(p, s) /\ Works(p)

Go(p, s) == pc' = [pc EXCEPT ![p] = s] /\ UNCHANGED <<op, seen, mgr>>

\* the handler carries on as another one
Become(p, o, s) ==
    /\ op' = [op EXCEPT ![p] = o] /\ pc' = [pc EXCEPT ![p] = s]
    /\ UNCHANGED <<seen, mgr>>

Leave(p) ==
    /\ pc' = [pc EXCEPT ![p] = "idle"] /\ op' = [op EXCEPT ![p] = "none"]
    /\ seen' = [seen EXCEPT ![p] = NotSeen]

\* the handler returns; init_host then goes on to serve requests
End(p) == Leave(p) /\ mgr' = IF p = Boot THEN "up" ELSE mgr

\* the handler raises: _init_instance catches that, except from reboot_instance
Reboots == {"soft_reboot", "hard_reboot"}
EndRaised(p) ==
    /\ Leave(p)
    /\ mgr' = IF p # Boot THEN mgr ELSE IF op[p] \in Reboots THEN "down" ELSE "up"

\* instance.save() of a vm_state and a task_state, without an expected one
Write(v, t) ==
    /\ vm' = IF exists THEN v ELSE vm
    /\ task' = IF exists THEN t ELSE task
    /\ UNCHANGED <<exists, host, launched>>

SetHost(b) ==
    /\ host' = IF exists THEN b ELSE host
    /\ UNCHANGED <<exists, vm, task, launched>>

\* a save also refreshes the object from the row
Fresh(p) == [seen[p] EXCEPT !.vm = vm', !.host = host']
GoFresh(p, s) ==
    /\ pc' = [pc EXCEPT ![p] = s] /\ seen' = [seen EXCEPT ![p] = Fresh(p)]
    /\ UNCHANGED <<op, mgr>>

\* instance.save(expected_task_state=from)
Matches(from) == exists /\ task \in from

\* a save that found another task raises: "the current task is preempted".
\* In a rebuild, unless the row is gone or being deleted, that is an error,
\* and saving it also saves the task that could not be saved before
Rebuilds == {"rebuild", "rebuild_stop"}
Preempted(p, t) ==
    /\ EndRaised(p)
    /\ IF op[p] \in Rebuilds /\ exists /\ task # "deleting"
       THEN Write("error", t) ELSE UNCHANGED row

CAS(p, from, v, t, next) ==
    \/ Matches(from) /\ Write(v, t) /\ Go(p, next)
    \/ ~Matches(from) /\ Preempted(p, t)

FinalCAS(p, from, v, t) ==
    \/ Matches(from) /\ Write(v, t) /\ End(p)
    \/ ~Matches(from) /\ Preempted(p, t)

ErrorsOut == {"rescue", "unrescue", "rebuild", "password"}
\* mutant: without reverts_task_state
FailUnreverted(p) == EndRaised(p)

Fail(p) == Go(p, IF op[p] \in ErrorsOut THEN "error" ELSE "revert")

\* the handlers that run under utils.synchronized(instance.uuid)
Locked(p) ==
    \/ pc[p] \in BuildPcs \cup TermPcs \cup UnshelvePcs
    \/ pc[p] \in {"driver", "save"} /\ op[p] \in {"stop", "rebuild_stop"}
LockFree == \A q \in Procs : ~Locked(q)

----------------------------------------------------------------------------
(* The API.                                                                *)

\* the decorators check the object the request loaded
Allowed(o) ==
    IF o \in Deletes
    THEN /\ o = "soft_delete" => launched
         /\ o = "force_delete" => task = "none"
    ELSE /\ vm \in Api[o].vm /\ task \in Api[o].task /\ launched
         /\ o \in {"stop", "start"} => host
         /\ o \in {"backup", "snapshot", "rescue"} => ~VolumeBacked

Load(p, o) ==
    /\ At(p, "idle") /\ exists /\ Allowed(o)
    /\ pc' = [pc EXCEPT ![p] = "check"] /\ op' = [op EXCEPT ![p] = o]
    /\ seen' = [seen EXCEPT ![p].task = IF o \in Deletes THEN task ELSE "none",
                            ![p].host = o = "restore" /\ host]
    /\ UNCHANGED <<row, server, mgr, env>>

\* the message goes out with the object s, or cannot be sent
Cast(p, o, s) ==
    \/ /\ pc' = [pc EXCEPT ![p] = "cast"] /\ op' = [op EXCEPT ![p] = o]
       /\ seen' = [seen EXCEPT ![p] = s] /\ UNCHANGED mgr
    \/ "cast" \in Faults /\ End(p)

\* a shelve of a volume-backed instance goes straight to offloading it
Handler(o) == IF o = "shelve" /\ VolumeBacked THEN "offload" ELSE o

\* the handlers that use the vm_state of the object they are sent
NeedVm == {"rebuild", "suspend", "unshelve"}

\* mutant: saved without the expected task state
RequestUnguarded(p) ==
    /\ At(p, "check") /\ op[p] \in DOMAIN Api
    /\ IF exists
       THEN /\ Write(vm, Api[op[p]].to)
            /\ Cast(p, Handler(op[p]), IF op[p] \in NeedVm THEN Fresh(p) ELSE NotSeen)
       ELSE End(p) /\ UNCHANGED row
    /\ UNCHANGED <<server, env>>

\* restore: without a host there is nobody to ask
AtOnce(p) == op[p] = "restore" /\ ~seen[p].host

Request(p) ==
    /\ At(p, "check") /\ op[p] \in DOMAIN Api
    /\ \/ /\ Matches(Api[op[p]].from) /\ ~AtOnce(p) /\ Write(vm, Api[op[p]].to)
          /\ Cast(p, Handler(op[p]), IF op[p] \in NeedVm THEN Fresh(p) ELSE NotSeen)
       \/ Matches({"none"}) /\ AtOnce(p) /\ Write("active", "none") /\ End(p)
       \/ ~Matches(Api[op[p]].from) /\ End(p) /\ UNCHANGED row
    /\ UNCHANGED <<server, env>>

\* mutant: the name of the action instead of its task state
DeleteMarkAction(p) ==
    /\ At(p, "check") /\ op[p] \in Deletes
    /\ Write(vm, op[p])
    /\ IF exists THEN GoFresh(p, "route") ELSE End(p)
    /\ UNCHANGED <<server, env>>

\* _delete: the task state is saved whatever the row shows
DeleteMark(p) ==
    /\ At(p, "check") /\ op[p] \in Deletes
    /\ Write(vm, DeleteTask[op[p]])
    /\ IF exists THEN GoFresh(p, "route") ELSE End(p)
    /\ UNCHANGED <<server, env>>

Offloaded(p) == seen[p].vm = "shelved_offloaded"

\* no host yet: the row is destroyed on condition that it still has none;
\* if it has one by now, the object is refreshed
DestroyUnhosted(p) ==
    /\ At(p, "route") /\ ~seen[p].host /\ ~Offloaded(p)
    /\ \/ /\ exists /\ host
          /\ seen' = [seen EXCEPT ![p].vm = vm, ![p].host = TRUE]
          /\ UNCHANGED <<row, op, pc, mgr>>
       \/ /\ ~(exists /\ host) /\ exists' = FALSE /\ End(p)
          /\ UNCHANGED <<vm, task, host, launched>>
    /\ UNCHANGED <<server, env>>

\* a second delete is ignored; otherwise the manager is asked
DeleteCast(p) ==
    /\ At(p, "route") /\ seen[p].host /\ ~Offloaded(p)
    /\ \/ seen[p].task \in {"deleting", "soft-deleting"} /\ End(p)
       \/ seen[p].task \notin {"deleting", "soft-deleting"} /\ Cast(p, op[p], NotSeen)
    /\ UNCHANGED <<row, server, env>>

\* nothing to ask the manager, or its service is down: _local_delete
DeleteLocal(p) ==
    /\ At(p, "route")
    /\ Offloaded(p) \/ (seen[p].host /\ mgr # "up")
    /\ Go(p, "local")
    /\ UNCHANGED <<row, server, env>>

LocalSave(p) ==
    /\ At(p, "local")
    /\ Write(IF op[p] = "soft_delete" THEN "soft-delete" ELSE "deleted", "none")
    /\ IF exists THEN GoFresh(p, "local_destroy") ELSE End(p)
    /\ UNCHANGED <<server, env>>

\* the row is destroyed, unless the object has no host and the row has one
Destroy(p) ==
    exists' = (exists /\ ~seen[p].host /\ host) /\ UNCHANGED <<vm, task, host, launched>>

LocalDestroy(p) ==
    /\ At(p, "local_destroy") /\ End(p) /\ Destroy(p)
    /\ UNCHANGED <<server, env>>

----------------------------------------------------------------------------
(* Building the instance, under its lock.                                  *)

Build(p, s) == AtWork(p, s) /\ UNCHANGED env

\* a row that is gone or has another task is left alone
BuildStart(p) ==
    /\ Build(p, "cast") /\ op[p] = "build" /\ LockFree
    /\ \/ Matches({"scheduling", "none"}) /\ Write("building", "none") /\ Go(p, "b_claim")
       \/ ~Matches({"scheduling", "none"}) /\ End(p) /\ UNCHANGED row
    /\ UNCHANGED server

\* instance_claim sets the host
BuildClaim(p) ==
    /\ Build(p, "b_claim")
    /\ \/ SetHost(TRUE) /\ IF exists THEN Go(p, "b_net") ELSE End(p)
       \/ "claim" \in Faults /\ Go(p, "b_error") /\ UNCHANGED row
    /\ UNCHANGED server

\* a save that finds the row gone or being deleted gives up the build and the
\* claim, but _cleanup_allocated_networks then saves what could not be saved,
\* without an expected task; another task is an error
GiveUp(p, t) ==
    \/ /\ ~exists \/ task = "deleting"
       /\ vm' = (IF exists THEN "building" ELSE vm)
       /\ task' = (IF exists THEN t ELSE task)
       /\ host' = (host /\ ~exists) /\ UNCHANGED <<exists, launched>> /\ End(p)
    \/ exists /\ task # "deleting" /\ UNCHANGED row /\ Go(p, "b_unclaim")

BuildNetwork(p) ==
    /\ Build(p, "b_net")
    /\ \/ Matches({"none"}) /\ Write("building", "networking") /\ Go(p, "b_bdm")
       \/ ~Matches({"none"}) /\ GiveUp(p, "networking")
    /\ UNCHANGED server

\* saved without an expected task state
BuildBlockDevices(p) ==
    /\ Build(p, "b_bdm") /\ Write("building", "block_device_mapping")
    /\ \/ IF exists THEN Go(p, "b_spawning") ELSE End(p)
       \/ exists /\ "block" \in Faults /\ Go(p, "b_unclaim")
    /\ UNCHANGED server

BuildSpawning(p) ==
    /\ Build(p, "b_spawning")
    /\ \/ Matches({"block_device_mapping"}) /\ Write("building", "spawning") /\ Go(p, "b_spawn")
       \/ ~Matches({"block_device_mapping"}) /\ GiveUp(p, "spawning")
    /\ UNCHANGED server

\* driver.spawn; one that fails may leave the server behind
Spawn(good, bad) ==
    \/ server' = "active" /\ good
    \/ "spawn" \in Faults /\ server' \in {server, "active"} /\ bad

\* mutant: nothing is cleaned up after a failed spawn
BuildSpawnDirty(p) ==
    /\ Build(p, "b_spawn") /\ Spawn(Go(p, "b_save"), Go(p, "b_unclaim"))
    /\ UNCHANGED row

BuildSpawn(p) ==
    /\ Build(p, "b_spawn") /\ Spawn(Go(p, "b_save"), Go(p, "b_clean"))
    /\ UNCHANGED row

\* driver.destroy
DestroyServer(good, bad) ==
    \/ server' = "none" /\ good
    \/ "destroy" \in Faults /\ server' \in {server, "none"} /\ bad

\* _build_resources cleans up after a failed spawn
BuildClean(p) ==
    /\ Build(p, "b_clean") /\ DestroyServer(Go(p, "b_unclaim"), Go(p, "b_unclaim"))
    /\ UNCHANGED row

\* leaving the claim in error gives the host back
BuildUnclaim(p) ==
    /\ Build(p, "b_unclaim") /\ Go(p, "b_error")
    /\ SetHost(FALSE) /\ UNCHANGED server

BuildError(p) ==
    /\ Build(p, "b_error") /\ End(p)
    /\ vm' = (IF exists THEN "error" ELSE vm)
    /\ task' = (IF exists THEN "none" ELSE task)
    /\ host' = (host /\ ~exists) /\ UNCHANGED <<exists, launched, server>>

\* the instance is up.  If it is being deleted, the same goes into the row
\* all the same, by the save of _cleanup_allocated_networks
Launch(v, t) ==
    /\ vm' = (IF exists THEN v ELSE vm) /\ task' = (IF exists THEN t ELSE task)
    /\ launched' = (launched \/ exists) /\ UNCHANGED <<exists, host>>

BuildSave(p) ==
    /\ Build(p, "b_save")
    /\ \/ Matches({"spawning", "deleting"}) /\ Launch("active", "none") /\ End(p)
       \/ ~exists /\ UNCHANGED row /\ End(p)
       \/ exists /\ task \notin {"spawning", "deleting"} /\ UNCHANGED row
          /\ Go(p, "b_error")
    /\ UNCHANGED server

BuildStep(p) ==
    \/ BuildStart(p) \/ BuildClaim(p) \/ BuildNetwork(p) \/ BuildBlockDevices(p)
    \/ BuildSpawning(p) \/ BuildSpawn(p) \/ BuildClean(p) \/ BuildUnclaim(p)
    \/ BuildError(p) \/ BuildSave(p)

----------------------------------------------------------------------------
(* The handlers of the compute manager.                                    *)

Handle(p, o, s) == op[p] = o /\ AtWork(p, s) /\ UNCHANGED env
HandleAny(p, os, s) == op[p] \in os /\ AtWork(p, s) /\ UNCHANGED env

\* a call of the driver works on some states of the server only
CallDriver(does, good, bad) ==
    \/ server \in DOMAIN does /\ server' = does[server] /\ good
    \/ server \notin DOMAIN does /\ UNCHANGED server /\ bad
    \/ /\ "driver" \in Faults /\ server \in DOMAIN does
       /\ server' \in {server, does[server]} /\ bad

\* stop_instance holds the lock, and first reads the power state
StopBegin(p) ==
    /\ Handle(p, "stop", "cast") \/ Handle(p, "rebuild_stop", "r_stop")
    /\ LockFree
    /\ IF server = "none" THEN Go(p, "revert")
       ELSE /\ pc' = [pc EXCEPT ![p] = "driver"]
            /\ seen' = [seen EXCEPT ![p].off = (server = "shutoff")]
            /\ UNCHANGED <<op, mgr>>
    /\ UNCHANGED <<row, server>>

\* the handlers that power the server off before they do something else
PowerOffStep(p) ==
    /\ \/ HandleAny(p, {"rescue", "shelve", "offload"}, "cast")
       \/ HandleAny(p, {"offload", "rebuild"}, "off")
    /\ CallDriver(PowerOff,
                  Go(p, CASE op[p] = "rescue" -> "driver" [] op[p] = "shelve" -> "mark"
                          [] op[p] = "offload" -> "o_destroy" [] op[p] = "rebuild" -> "r_destroy"),
                  Fail(p))
    /\ UNCHANGED row

OneCall == {"start", "pause", "unpause", "unrescue", "soft_delete", "restore"}
DriverStep(p) ==
    /\ \/ HandleAny(p, OneCall, "cast")
       \/ HandleAny(p, {"stop", "rebuild_stop", "rescue"}, "driver")
    /\ CallDriver(Simple[op[p]].does, Go(p, "save"), Fail(p))
    /\ UNCHANGED row

\* the power state is read once more, then the outcome is saved.  When it
\* cannot be read, rescue and unrescue have set the vm_state already: the
\* revert saves it
SimpleSave(p) ==
    /\ HandleAny(p, DOMAIN Simple, "save")
    /\ LET h == Simple[op[p]]
           from == h.from \cup (IF seen[p].off THEN {"none"} ELSE {})
       IN \/ /\ server = "none" /\ op[p] \in {"rescue", "unrescue"}
             /\ Write(h.vm, "none") /\ EndRaised(p)
          \/ /\ server = "none" /\ op[p] \notin {"rescue", "unrescue"}
             /\ Go(p, "revert") /\ UNCHANGED row
          \/ /\ server # "none" /\ op[p] = "rebuild_stop"
             /\ CAS(p, from, h.vm, "none", "r_host")
          \/ /\ server # "none" /\ op[p] # "rebuild_stop"
             /\ FinalCAS(p, from, h.vm, "none")
    /\ UNCHANGED server

\* _set_instance_obj_error_state
Error(p) ==
    /\ AtWork(p, "error") /\ Write("error", task) /\ Go(p, "revert")
    /\ UNCHANGED <<server, env>>

\* reverts_task_state: the task is cleared, whatever it is by now.  A stop
\* nested in a rebuild fails the rebuild
Revert(p) ==
    /\ AtWork(p, "revert") /\ Write(vm, "none")
    /\ IF op[p] = "rebuild_stop" THEN Become(p, "rebuild", "error") ELSE EndRaised(p)
    /\ UNCHANGED <<server, env>>

\* no driver suspends: back to the vm_state of the request
Suspend(p) ==
    /\ Handle(p, "suspend", "cast") /\ Write(seen[p].vm, "none") /\ Go(p, "revert")
    /\ UNCHANGED server

Password(p) ==
    /\ Handle(p, "password", "cast")
    /\ \/ server = "none" /\ Go(p, "revert") /\ UNCHANGED row
       \/ server \notin Running \cup {"none"} /\ CAS(p, {"updating_password"}, vm, "none", "revert")
       \/ server = "active" /\ Go(p, "save") /\ UNCHANGED row
       \/ (server = "rescue" \/ (server = "active" /\ "driver" \in Faults))
          /\ Go(p, "error") /\ UNCHANGED row
    /\ UNCHANGED server

PasswordSave(p) ==
    /\ Handle(p, "password", "save") /\ FinalCAS(p, {"updating_password"}, vm, "none")
    /\ UNCHANGED server

----------------------------------------------------------------------------
(* Images: snapshot, backup and shelve.                                    *)

SnapshotBegin(p) ==
    /\ Handle(p, "snapshot", "cast")
    /\ CAS(p, {"image_snapshot_pending"}, vm, "image_snapshot", "mark")
    /\ UNCHANGED server

\* shelve has read the power state already, in the driver's power_off
ImageMark(p) ==
    /\ HandleAny(p, {"snapshot", "shelve"}, "mark") \/ Handle(p, "backup", "cast")
    /\ \/ /\ server = "none" /\ op[p] # "shelve"
          /\ Go(p, "revert") /\ UNCHANGED row
       \/ /\ server # "none" \/ op[p] = "shelve"
          /\ LET h == ImageHandler[op[p]] IN CAS(p, {h.first}, vm, h.pending, "image")
    /\ UNCHANGED server

ImageCreate(p) ==
    /\ HandleAny(p, DOMAIN ImageHandler, "image")
    /\ \/ /\ server = "none" \/ "image" \in Faults
          /\ Go(p, "revert") /\ UNCHANGED row
       \/ /\ server # "none"
          /\ LET h == ImageHandler[op[p]] IN CAS(p, {h.pending}, vm, h.uploading, "upload")
    /\ UNCHANGED server

ImageUpload(p) ==
    /\ HandleAny(p, {"snapshot", "backup"}, "upload")
    /\ \/ "image" \in Faults /\ Go(p, "revert") /\ UNCHANGED row
       \/ FinalCAS(p, {"image_uploading"}, vm, "none")
    /\ UNCHANGED server

\* SHELVED is set when the power state is read: if that fails, the revert
\* saves it.  By default the instance is offloaded at once
ShelveUpload(p) ==
    /\ Handle(p, "shelve", "upload")
    /\ \/ "image" \in Faults /\ Go(p, "revert") /\ UNCHANGED row
       \/ server = "none" /\ Write("shelved", "none") /\ EndRaised(p)
       \/ /\ server # "none" /\ Matches({"shelving", "shelving_image_uploading"})
          /\ Write("shelved", IF OffloadNow THEN "shelving_offloading" ELSE "none")
          /\ IF OffloadNow THEN Become(p, "offload", "off") ELSE End(p)
       \/ /\ server # "none" /\ ~Matches({"shelving", "shelving_image_uploading"})
          /\ EndRaised(p) /\ UNCHANGED row
    /\ UNCHANGED server

OffloadDestroy(p) ==
    /\ Handle(p, "offload", "o_destroy")
    /\ \/ server = "none" /\ Go(p, "revert") /\ UNCHANGED server
       \/ server # "none" /\ DestroyServer(Go(p, "o_save"), Go(p, "revert"))
    /\ UNCHANGED row

\* mutant: the host is not given back
OffloadSaveHosted(p) ==
    /\ Handle(p, "offload", "o_save")
    /\ \/ Matches({"shelving", "shelving_offloading"}) /\ Write("shelved_offloaded", "none")
       \/ ~Matches({"shelving", "shelving_offloading"}) /\ UNCHANGED row
    /\ End(p) /\ UNCHANGED server

OffloadSave(p) ==
    /\ Handle(p, "offload", "o_save")
    /\ \/ /\ Matches({"shelving", "shelving_offloading"})
          /\ vm' = "shelved_offloaded" /\ task' = "none" /\ host' = FALSE
          /\ UNCHANGED <<exists, launched>>
       \/ ~Matches({"shelving", "shelving_offloading"}) /\ UNCHANGED row
    /\ End(p) /\ UNCHANGED server

----------------------------------------------------------------------------
(* Unshelve: first the conductor, in the process of the API.               *)

Conduct(p) ==
    /\ At(p, "cast") /\ op[p] = "unshelve" /\ UNCHANGED <<server, env>>

UnshelveShelved(p) ==
    /\ Conduct(p) /\ seen[p].vm = "shelved"
    /\ \/ /\ Matches({"unshelving"}) /\ Write(vm, "powering-on")
          /\ Cast(p, "start", NotSeen)
       \/ ~Matches({"unshelving"}) /\ End(p) /\ UNCHANGED row

\* a missing image is an error, as is an instance that is not shelved any more
UnshelveOffloaded(p) ==
    /\ Conduct(p) /\ seen[p].vm # "shelved"
    /\ \/ seen[p].vm = "shelved_offloaded" /\ Go(p, "unshelve_cast") /\ UNCHANGED row
       \/ /\ seen[p].vm # "shelved_offloaded" \/ "shelved_image" \in Faults
          /\ Write("error", task) /\ End(p)
       \/ /\ seen[p].vm = "shelved_offloaded" /\ "cast" \in Faults
          /\ Write(vm, "none") /\ End(p)

Unshelve(p, s) == Handle(p, "unshelve", s)

UnshelveBegin(p) ==
    /\ Unshelve(p, "unshelve_cast") /\ LockFree /\ Write(vm, "spawning")
    /\ \/ IF exists THEN Go(p, "u_claim") ELSE End(p)
       \/ exists /\ "block" \in Faults /\ Go(p, "revert")
    /\ UNCHANGED server

UnshelveClaim(p) ==
    /\ Unshelve(p, "u_claim")
    /\ \/ SetHost(TRUE) /\ IF exists THEN Go(p, "u_spawn") ELSE End(p)
       \/ "claim" \in Faults /\ Go(p, "revert") /\ UNCHANGED row
    /\ UNCHANGED server

UnshelveSpawn(p) ==
    /\ Unshelve(p, "u_spawn") /\ Spawn(Go(p, "u_save"), Go(p, "u_unclaim"))
    /\ UNCHANGED row

UnshelveUnclaim(p) ==
    /\ Unshelve(p, "u_unclaim") /\ SetHost(FALSE) /\ Go(p, "revert")
    /\ UNCHANGED server

UnshelveSave(p) ==
    /\ Unshelve(p, "u_save")
    /\ \/ server = "none" /\ Go(p, "revert") /\ UNCHANGED row
       \/ server # "none" /\ FinalCAS(p, {"spawning"}, "active", "none")
    /\ UNCHANGED server

----------------------------------------------------------------------------
(* Reboot.  The server itself is not rebooted: the driver is not called.   *)

RebootTask == [soft_reboot |-> [family |-> SoftReboots, pending |-> "reboot_pending",
                                started |-> "reboot_started"],
               hard_reboot |-> [family |-> HardReboots, pending |-> "reboot_pending_hard",
                                started |-> "reboot_started_hard"]]

RebootBegin(p) ==
    /\ HandleAny(p, Reboots, "cast")
    /\ LET r == RebootTask[op[p]]
       IN \/ server = "none" /\ Go(p, "revert") /\ UNCHANGED row
          \/ /\ server # "none" /\ Matches(r.family)
             /\ Write(vm, r.pending) /\ GoFresh(p, "started")
          \/ server # "none" /\ ~Matches(r.family) /\ EndRaised(p) /\ UNCHANGED row
    /\ UNCHANGED server

\* preempted here, the reboot goes on when the server is running; otherwise
\* the error is saved together with the task that could not be saved
RebootStart(p) ==
    /\ HandleAny(p, Reboots, "started")
    /\ LET r == RebootTask[op[p]]
       IN \/ Matches({r.pending}) /\ Write(vm, r.started) /\ Go(p, "final")
          \/ /\ ~Matches({r.pending}) /\ server \in Running
             /\ Go(p, "final") /\ UNCHANGED row
          \/ ~Matches({r.pending}) /\ server = "none" /\ Go(p, "revert") /\ UNCHANGED row
          \/ /\ ~Matches({r.pending}) /\ server \notin Running \cup {"none"}
             /\ Write("error", r.started) /\ EndRaised(p)
    /\ UNCHANGED server

\* saved without an expected task state
RebootFinal(p) ==
    /\ HandleAny(p, Reboots, "final")
    /\ \/ server = "none" /\ Go(p, "revert") /\ UNCHANGED row
       \/ /\ server # "none" /\ End(p)
          /\ Write(IF seen[p].vm = "rescued" THEN "rescued" ELSE "active", "none")
    /\ UNCHANGED server

----------------------------------------------------------------------------
(* Rebuild: the server is destroyed and spawned again, without the lock.   *)

Rebuild(p, s) == Handle(p, "rebuild", s)

RebuildBegin(p) ==
    /\ Rebuild(p, "cast")
    /\ \/ server = "none" /\ Go(p, "error") /\ UNCHANGED row
       \/ server # "none" /\ CAS(p, {"rebuilding"}, vm, "rebuilding", "off")
    /\ UNCHANGED server

RebuildDestroy(p) ==
    /\ Rebuild(p, "r_destroy") /\ DestroyServer(Go(p, "r_bdm"), Go(p, "error"))
    /\ UNCHANGED row

RebuildBlockDevices(p) ==
    /\ Rebuild(p, "r_bdm")
    /\ CAS(p, {"rebuilding"}, vm, "rebuild_block_device_mapping", "r_spawning")
    /\ UNCHANGED server

RebuildSpawning(p) ==
    /\ Rebuild(p, "r_spawning")
    /\ \/ "block" \in Faults /\ Go(p, "error") /\ UNCHANGED row
       \/ CAS(p, {"rebuild_block_device_mapping"}, vm, "rebuild_spawning", "r_spawn")
    /\ UNCHANGED server

RebuildSpawn(p) ==
    /\ Rebuild(p, "r_spawn") /\ Spawn(Go(p, "r_save"), Go(p, "error"))
    /\ UNCHANGED row

RebuildSave(p) ==
    /\ Rebuild(p, "r_save")
    /\ \/ server = "none" /\ Go(p, "error") /\ UNCHANGED row
       \/ server # "none" /\ CAS(p, {"rebuild_spawning"}, "active", "none",
                                 IF seen[p].vm = "stopped" THEN "r_mark" ELSE "r_host")
    /\ UNCHANGED server

\* an instance that was stopped is stopped again
RebuildMark(p) ==
    /\ Rebuild(p, "r_mark") /\ Write("active", "powering-off")
    /\ IF exists THEN Become(p, "rebuild_stop", "r_stop") ELSE End(p)
    /\ UNCHANGED server

RebuildHost(p) ==
    /\ HandleAny(p, Rebuilds, "r_host") /\ SetHost(TRUE) /\ End(p)
    /\ UNCHANGED server

----------------------------------------------------------------------------
(* Delete, under the lock.                                                 *)

Terminates == {"delete", "force_delete"}

\* mutant: without the lock
TerminateBeginUnlocked(p) ==
    /\ HandleAny(p, Terminates, "cast")
    /\ DestroyServer(Go(p, "deleted"), Go(p, "failed"))
    /\ UNCHANGED row

TerminateBegin(p) ==
    /\ HandleAny(p, Terminates, "cast") /\ LockFree
    /\ DestroyServer(Go(p, "deleted"), Go(p, "failed"))
    /\ UNCHANGED row

\* always saved, without expecting task state to be DELETING
TerminateSave(p) ==
    /\ AtWork(p, "deleted") /\ Write("deleted", "none")
    /\ IF exists THEN GoFresh(p, "purge") ELSE End(p)
    /\ UNCHANGED <<server, env>>

TerminatePurge(p) ==
    /\ AtWork(p, "purge") /\ Destroy(p)
    /\ IF exists' THEN Go(p, "failed") ELSE End(p)
    /\ UNCHANGED <<server, env>>

\* init_host resumes a delete without reverts_task_state
TerminateFailed(p) ==
    /\ AtWork(p, "failed") /\ Write("error", task)
    /\ IF p = Boot THEN End(p) ELSE Go(p, "revert")
    /\ UNCHANGED <<server, env>>

----------------------------------------------------------------------------
(* The compute manager dies and is started again.  Requests in the API and *)
(* messages outlive it, handlers and their locks do not.                   *)

Crash ==
    /\ mgr # "down" /\ crashes < MaxCrashes
    /\ mgr' = "down" /\ crashes' = crashes + 1
    /\ LET kept(p) == p # Boot /\ pc[p] \in ApiPcs \cup Queued
       IN /\ pc' = [p \in Procs |-> IF kept(p) THEN pc[p] ELSE "idle"]
          /\ op' = [p \in Procs |-> IF kept(p) THEN op[p] ELSE "none"]
          /\ seen' = [p \in Procs |-> IF kept(p) THEN seen[p] ELSE NotSeen]
    /\ UNCHANGED <<row, server, setting>>

\* init_host loads the instances of this host
Restart ==
    /\ mgr = "down"
    /\ IF exists /\ host
       THEN /\ mgr' = "boot" /\ pc' = [pc EXCEPT ![Boot] = "init"]
            /\ seen' = [seen EXCEPT ![Boot] =
                           [vm |-> vm, task |-> task, host |-> TRUE, off |-> FALSE]]
       ELSE mgr' = "up" /\ UNCHANGED <<pc, seen>>
    /\ UNCHANGED <<row, server, op, env>>

Booting == At(Boot, "init") /\ mgr = "boot" /\ UNCHANGED <<server, env>>

\* an exception out of init_host: the worker does not start
Blocked == Leave(Boot) /\ mgr' = "down" /\ UNCHANGED row

\* instance.save() in _init_instance
BootWrite(v, t) == IF exists THEN Write(v, t) /\ End(Boot) ELSE Blocked

Skipped(s) == s.vm = "soft-delete" \/ (s.vm = "error" /\ s.task # "deleting")
Unfinished(s) ==
    \/ s.vm = "building"
    \/ s.task \in BuildTasks /\ s.vm # "deleted"
    \/ s.task \in RebuildTasks /\ s.vm \in {"active", "stopped"}
Settled(s) == ~Skipped(s) /\ ~Unfinished(s) /\ s.vm # "deleted"

BootSkip ==
    /\ Booting /\ Skipped(seen[Boot]) /\ End(Boot) /\ UNCHANGED row

BootPurge ==
    /\ Booting /\ seen[Boot].vm = "deleted" /\ Become(Boot, "delete", "purge")
    /\ UNCHANGED row

BootUnfinished ==
    /\ Booting /\ ~Skipped(seen[Boot]) /\ Unfinished(seen[Boot])
    /\ BootWrite("error", "none")

\* mutant: an interrupted snapshot is left as it is
BootImageLeft ==
    /\ Booting /\ Settled(seen[Boot]) /\ seen[Boot].task \in ImageTasks
    /\ End(Boot) /\ UNCHANGED row

BootImage ==
    /\ Booting /\ Settled(seen[Boot]) /\ seen[Boot].task \in ImageTasks
    /\ IF exists
       THEN /\ Write(vm, "none") /\ UNCHANGED <<op, pc, mgr>>
            /\ seen' = [seen EXCEPT ![Boot] = [Fresh(Boot) EXCEPT !.task = "none"]]
       ELSE Blocked

\* mutant: an interrupted delete is left as it is
BootDeleteLeft ==
    /\ Booting /\ Settled(seen[Boot]) /\ seen[Boot].task = "deleting"
    /\ End(Boot) /\ UNCHANGED row

BootDelete ==
    /\ Booting /\ Settled(seen[Boot]) /\ seen[Boot].task = "deleting"
    /\ Become(Boot, "delete", "cast") /\ UNCHANGED row

\* the rest depends on the power state: reading it raises without a server
PowerRead ==
    /\ Booting /\ Settled(seen[Boot])
    /\ seen[Boot].task \notin ImageTasks \cup {"deleting"}

BootNoServer == PowerRead /\ server = "none" /\ Blocked

\* _retry_reboot
RetriesReboot(s) ==
    \/ s.task = "reboot_pending" /\ s.vm = "active"
    \/ s.task = "reboot_pending_hard" /\ s.vm \in HardRebootApi.vm
    \/ s.task \in {"reboot_started", "reboot_started_hard"} /\ server \notin Running

BootReboot ==
    /\ PowerRead /\ server # "none" /\ RetriesReboot(seen[Boot])
    /\ IF seen[Boot].task \in SoftReboots /\ server \in Running
       THEN Become(Boot, "soft_reboot", "cast") /\ UNCHANGED row
       ELSE IF seen[Boot].task \notin SoftReboots
       THEN Become(Boot, "hard_reboot", "cast") /\ UNCHANGED row
       ELSE IF exists
       THEN Become(Boot, "hard_reboot", "cast") /\ Write(vm, "reboot_pending_hard")
       ELSE Blocked

Interrupted(s) ==
    /\ server \in Running
    /\ s.task \in {"reboot_started", "reboot_started_hard", "pausing", "unpausing"}

BootClear ==
    /\ PowerRead /\ Interrupted(seen[Boot]) /\ ~RetriesReboot(seen[Boot])
    /\ BootWrite("active", "none")

Resumed == {"powering-off", "powering-on"}
BootResume ==
    /\ PowerRead /\ server # "none"
    /\ \/ server = "paused" /\ seen[Boot].task = "unpausing" /\ Become(Boot, "unpause", "cast")
       \/ seen[Boot].task = "powering-off" /\ Become(Boot, "stop", "cast")
       \/ seen[Boot].task = "powering-on" /\ Become(Boot, "start", "cast")
    /\ UNCHANGED row

BootLeave ==
    /\ PowerRead /\ server # "none" /\ seen[Boot].task \notin Resumed
    /\ ~RetriesReboot(seen[Boot]) /\ ~Interrupted(seen[Boot])
    /\ ~(server = "paused" /\ seen[Boot].task = "unpausing")
    /\ End(Boot) /\ UNCHANGED row

InitHost ==
    \/ BootSkip \/ BootPurge \/ BootUnfinished \/ BootImage \/ BootDelete
    \/ BootNoServer \/ BootReboot \/ BootClear \/ BootResume \/ BootLeave

----------------------------------------------------------------------------
ApiStep(p) ==
    \/ Request(p) \/ DeleteMark(p) \/ DestroyUnhosted(p) \/ DeleteCast(p)
    \/ DeleteLocal(p) \/ LocalSave(p) \/ LocalDestroy(p)
    \/ UnshelveShelved(p) \/ UnshelveOffloaded(p)

HandlerStep(p) ==
    \/ StopBegin(p) \/ PowerOffStep(p) \/ DriverStep(p) \/ SimpleSave(p)
    \/ Error(p) \/ Revert(p) \/ Suspend(p) \/ Password(p) \/ PasswordSave(p)
    \/ SnapshotBegin(p) \/ ImageMark(p) \/ ImageCreate(p) \/ ImageUpload(p)
    \/ ShelveUpload(p) \/ OffloadDestroy(p) \/ OffloadSave(p)
    \/ UnshelveBegin(p) \/ UnshelveClaim(p) \/ UnshelveSpawn(p)
    \/ UnshelveUnclaim(p) \/ UnshelveSave(p)
    \/ RebootBegin(p) \/ RebootStart(p) \/ RebootFinal(p)
    \/ RebuildBegin(p) \/ RebuildDestroy(p) \/ RebuildBlockDevices(p)
    \/ RebuildSpawning(p) \/ RebuildSpawn(p) \/ RebuildSave(p)
    \/ RebuildMark(p) \/ RebuildHost(p)
    \/ TerminateBegin(p) \/ TerminateSave(p) \/ TerminatePurge(p) \/ TerminateFailed(p)

Step(p) == ApiStep(p) \/ BuildStep(p) \/ HandlerStep(p)

\* nothing is left to do: users ask for nothing more
Rest == /\ \A p \in Procs : At(p, "idle")
        /\ mgr = "up" /\ UNCHANGED vars

Next ==
    \/ \E p \in Slots, o \in Ops : Load(p, o)
    \/ \E p \in Procs : Step(p)
    \/ Crash \/ Restart \/ InitHost
    \/ Rest

Spec == Init /\ [][Next]_vars

\* the threads of the API and of the manager run; users, crashes are free
FairSpec ==
    /\ Spec
    /\ \A p \in Requests : WF_vars(Step(p))
    /\ WF_vars(Restart \/ InitHost \/ Step(Boot))

----------------------------------------------------------------------------
(* Properties.  Each names the settings under which it holds.              *)

Calm == MaxCrashes = 0
NoFault(fs) == Faults \cap fs = {}
NoOp(os) == Ops \cap os = {}

\* the operations that save a task state without an expected one
\* (what is restored was soft-deleted: the properties leave out both)
Unguarded == {"suspend", "password", "soft_delete", "hard_reboot", "rebuild"}

Busy(p) == pc[p] \notin {"idle"} \cup ApiPcs \cup Queued

\* A delete has saved the row as 'deleted', which also clears the task, and is
\* about to destroy it.
Finishing(p) == op[p] \in Deletes /\ pc[p] \in {"purge", "local_destroy"}

\* The compare-and-swap of the task state lets one operation at a time work on
\* the instance; only a delete comes in beside it.  That lasts until a delete
\* clears the task of the operation it came in beside: a request that loaded
\* the row before passes its compare-and-swap until the row is destroyed.  An
\* operation that saves unconditionally, or a delete that fails and clears the
\* task, ends it earlier; so does an unshelve, which may claim a host after the
\* API has decided to destroy the row: the row is kept then, without a task.
OneWorker ==
    /\ Calm /\ NoFault({"destroy"}) /\ NoOp(Unguarded \cup {"restore", "unshelve"})
    /\ exists /\ \A d \in Procs : ~Finishing(d)
    => \A p, q \in Procs :
          p # q /\ Busy(p) /\ Busy(q) => {op[p], op[q]} \cap Deletes # {}

\* A task state means that somebody works on it (task_states.py: "what is
\* happening to the instance at the current moment"): whichever save a handler
\* gives up on, no task is left behind, except in 'error'.  An unshelve that
\* claims a host while the API destroys the row keeps a row that is 'deleted',
\* and a delete of that one may be ignored.
TaskHasWorker ==
    /\ Calm /\ NoFault({"destroy", "cast"})
    /\ NoOp({"rebuild", "hard_reboot", "soft_delete", "restore", "unshelve"})
    /\ exists /\ task # "none" /\ vm # "error"
    => \E p \in Procs : pc[p] \notin {"idle", "check"}

\* what vm_states.py says of the server
ServersOf(v) ==
    CASE v = "active"  -> {"active"}
      [] v = "paused"  -> {"paused"}
      [] v = "rescued" -> {"rescue"}
      [] v \in {"stopped", "soft-delete", "shelved"} -> {"shutoff"}
      [] v \in {"shelved_offloaded", "deleted"} -> {"none"}
      [] v = "building" -> {}
      [] v = "error" -> Servers

\* "if there is no ongoing compute API calls, vm_state should reflect what the
\* customer expect the VM to be": after any race of requests, deletes and the
\* build the row agrees with the server, unless a call of the driver fails
\* half way, a reboot or an unshelve saves 'active' over what it finds, or an
\* unguarded save clears the task of another request.
QuietAgrees ==
    /\ Calm /\ NoFault({"driver", "image", "destroy"})
    /\ NoOp(Unguarded \cup {"restore", "soft_reboot", "unshelve"})
    /\ exists /\ task = "none" /\ \A p \in Procs : pc[p] \in {"idle", "check"}
    => server \in ServersOf(vm)

\* Rebuild and unshelve spawn a server for an instance that may be deleted
\* meanwhile; a spawn that fails and cannot be cleaned up leaves one, too.
NeverForgets ==
    NoOp({"rebuild", "unshelve"}) /\ ~({"spawn", "destroy"} \subseteq Faults)

\* Once the row is destroyed the provider has no server of the instance,
\* however the delete interleaves with the build, with a second delete and with
\* the handlers that were at work: nothing would ever remove it.
NoOrphanServer == NeverForgets /\ Calm /\ ~exists => server = "none"

\* A server belongs to an instance with a host, whatever fails and whenever the
\* manager dies: only the host makes a later delete ask the manager, and a
\* restart find the instance.
HostedServer == NeverForgets /\ exists /\ server # "none" => host

\* An instance that is shelved_offloaded has neither host nor server, whatever
\* fails and also after restarts: its delete does not ask the manager.
OffloadedIsGone ==
    NoOp({"rebuild", "unshelve"}) /\ exists /\ vm = "shelved_offloaded"
    => ~host /\ server = "none"

\* A delete that was accepted ends, also when the manager dies in the middle
\* of it and although the build may overwrite its task state.
DeletingEnds ==
    NoFault({"destroy", "cast"}) /\ NoOp({"soft_delete"}) /\ task = "deleting"
        ~> ~exists \/ task # "deleting"

\* A build that is interrupted by a restart does not stay in its task.
BuildEnds ==
    NoFault({"claim", "block", "spawn"}) /\ NoOp(Deletes) /\ task \in BuildTasks
        ~> task \notin BuildTasks

\* The tasks that init_host resumes or clears end after a restart, if init_host
\* returns.
Resumable == ImageTasks \cup {"powering-off", "powering-on"}
ServiceUp == <>[](mgr = "up")
ResumedEnds ==
    ServiceUp => (NoFault({"destroy", "cast"}) /\ task \in Resumable
                     ~> ~exists \/ vm = "error" \/ task \notin Resumable)

\* No restart leaves the instance in a task that nobody carries on.
RestartEnds == BuildEnds /\ ResumedEnds
=============================================================================
