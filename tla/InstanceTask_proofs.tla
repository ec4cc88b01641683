------------------------ MODULE InstanceTask_proofs ------------------------
(***************************************************************************)
(* Proofs about InstanceTask: TypeOK, and where the server of an instance  *)
(* may be (OffloadedIsGone, HostedServer, NoOrphanServer), for any number  *)
(* of requests and any settings.                                           *)
(* The argument: one build makes the server, alone with the instance until *)
(* it ends (AloneInv), and an instance that was never launched admits      *)
(* deletes only (YoungInv).  Every other step is Quiet: it makes no server,*)
(* sets no host and takes the host away only from an instance whose server *)
(* is gone.                                                                *)
(***************************************************************************)
EXTENDS InstanceTask, TLAPS

ApiOnly == {"idle", "check", "route"}
Claimed == {"b_net", "b_bdm", "b_spawning", "b_spawn", "b_save", "b_clean"}
Unmade  == {"b_claim", "b_net", "b_bdm", "b_spawning", "b_spawn", "b_unclaim", "b_error"}
Ended   == {"local", "local_destroy", "deleted", "purge"}
Young   == {"building", "error", "deleted"}
Gone    == launched /\ ~host /\ server = "none"

----------------------------------------------------------------------------
(* The invariant.  Without rebuild and unshelve:                           *)

OpsInv == \A p \in Procs : op[p] \notin {"rebuild", "rebuild_stop", "unshelve"}

BuildInv ==
    /\ \A p \in Procs : pc[p] \in BuildPcs => op[p] = "build"
    /\ \A p \in Procs : op[p] = "build" =>
          p # Boot /\ pc[p] \in BuildPcs \cup {"cast"} /\ ~launched /\ pc[Boot] = "idle"
    /\ \A p, q \in Procs : op[p] = "build" /\ op[q] = "build" => p = q

\* before it is launched, an instance is only built and deleted
YoungInv ==
    ~launched => /\ vm \in Young /\ seen[Boot].vm \in Young
                 /\ \A p \in Procs : op[p] \in {"none", "build", "delete", "force_delete"}

\* a build that has not claimed yet: nobody can have seen a host
QueuedInv ==
    \A p, q \in Procs :
       op[p] = "build" /\ pc[p] \in {"cast", "b_claim"} =>
           /\ ~host /\ server = "none" /\ ~seen[q].host
           /\ q # p => pc[q] \in ApiOnly

\* a build at work is alone: others wait in the API or for its lock
AloneInv ==
    \A p, q \in Procs :
       pc[p] \in BuildPcs => mgr = "up" /\ (q # p => pc[q] \in ApiOnly \cup {"cast"})

ClaimInv == \A p \in Procs : pc[p] \in Claimed => exists /\ host

OffInv ==
    /\ vm = "shelved_offloaded" => Gone
    /\ \A p \in Procs : seen[p].vm = "shelved_offloaded" => Gone
    /\ \A p \in Procs : pc[p] = "o_save" => op[p] = "offload" /\ server = "none"

RowInv == OpsInv /\ BuildInv /\ YoungInv /\ QueuedInv /\ AloneInv /\ ClaimInv /\ OffInv

(* If no server is forgotten either:                                       *)

\* a build that gives its claim back has no server
MadeInv ==
    /\ \A p \in Procs : pc[p] \in Unmade => server = "none"
    /\ \A p \in Procs : pc[p] = "b_clean" => "spawn" \in Faults
    /\ \A p \in Procs : pc[p] \in {"b_spawn", "b_save"} => task \in {"spawning", "deleting"}

HostInv == exists /\ server # "none" => host

\* without restarts nobody deletes an instance locally that has a server
CalmInv ==
    /\ mgr = "up" /\ crashes = 0 /\ pc[Boot] = "idle"
    /\ \A p \in Procs : pc[p] \in Ended => server = "none"
    /\ ~exists => server = "none"

ServerInv == MadeInv /\ HostInv /\ (Calm => CalmInv)

IInv == /\ TypeOK
        /\ NoOp({"rebuild", "unshelve"}) => RowInv
        /\ NeverForgets => ServerInv

----------------------------------------------------------------------------
(* Names and tables.                                                       *)

\* every place a handler is sent to
LEMMA PcNames ==
  {"idle", "off", "driver", "save", "error", "revert", "mark", "image", "upload",
   "o_destroy", "o_save", "started", "final", "init", "check", "route", "local",
   "local_destroy", "cast", "unshelve_cast", "b_claim", "b_net", "b_bdm", "b_spawning",
   "b_spawn", "b_save", "b_clean", "b_unclaim", "b_error", "deleted", "purge", "failed",
   "u_claim", "u_spawn", "u_save", "u_unclaim", "r_destroy", "r_bdm", "r_spawning",
   "r_spawn", "r_save", "r_mark", "r_stop", "r_host"} \subseteq Pcs
  BY DEF Pcs, ApiPcs, Queued, BuildPcs, TermPcs, UnshelvePcs, RebuildPcs

\* the task states the actions write
LEMMA TaskNames ==
  {"none", "powering-off", "powering-on", "deleting", "networking", "spawning",
   "block_device_mapping", "image_snapshot", "shelving_offloading", "rebuilding",
   "rebuild_block_device_mapping", "rebuild_spawning", "reboot_pending_hard"}
  \subseteq Tasks
  BY DEF Tasks, BuildTasks, RebuildTasks, ImageTasks, ShelveTasks, HardReboots

\* the vm_states the actions write
LEMMA VmNames ==
  {"building", "active", "rescued", "soft-delete", "deleted", "error", "shelved",
   "shelved_offloaded"} \subseteq VmStates
  BY DEF VmStates

\* what a request or a handler may be
LEMMA OpNames ==
  /\ {"none", "start", "stop", "unpause", "offload", "rebuild", "rebuild_stop", "delete",
      "soft_reboot", "hard_reboot"} \subseteq HandlerOps
  /\ AllOps \subseteq HandlerOps
  /\ Deletes = {"delete", "force_delete", "soft_delete"}
  /\ "build" \notin AllOps /\ "rebuild_stop" \notin AllOps
  BY DEF HandlerOps, AllOps, Deletes, DeleteTask, Api

\* the API's operations
LEMMA ApiTable ==
    /\ DOMAIN Api = {"stop", "start", "pause", "unpause", "suspend", "rescue", "unrescue",
                     "password", "snapshot", "backup", "rebuild", "shelve", "offload",
                     "unshelve", "restore", "soft_reboot", "hard_reboot"}
    /\ \A o \in DOMAIN Api : Api[o].to \in Tasks
  <1>1. DOMAIN Api = {"stop", "start", "pause", "unpause", "suspend", "rescue", "unrescue",
                     "password", "snapshot", "backup", "rebuild", "shelve", "offload",
                     "unshelve", "restore", "soft_reboot", "hard_reboot"}
    BY DEF Api
  <1>2. \A o \in DOMAIN Api : Api[o].to \in Tasks
    BY <1>1 DEF Api, Check, StopApi, StartApi, PauseApi, UnpauseApi, SuspendApi, RescueApi,
        UnrescueApi, PasswordApi, SnapshotApi, BackupApi, RebuildApi, ShelveApi, OffloadApi,
        UnshelveApi, RestoreApi, SoftRebootApi, HardRebootApi, Tasks, RebuildTasks,
        ImageTasks, SoftReboots, HardReboots, ShelveTasks
  <1> QED BY <1>1, <1>2

\* the API's deletes
LEMMA DeleteTable ==
    /\ \A o \in Deletes : DeleteTask[o] \in Tasks
    /\ DeleteTask["delete"] = "deleting" /\ DeleteTask["force_delete"] = "deleting"
  BY DEF Deletes, DeleteTask, Tasks

\* the handlers with one provider call make no server
LEMMA SimpleTable ==
    /\ DOMAIN Simple = {"stop", "start", "pause", "unpause", "rescue", "unrescue",
                        "soft_delete", "restore", "rebuild_stop"}
    /\ \A o \in DOMAIN Simple :
          /\ Simple[o].vm \in VmStates \ {"shelved_offloaded"}
          /\ "none" \notin DOMAIN Simple[o].does
          /\ \A s \in DOMAIN Simple[o].does : Simple[o].does[s] \in Servers
  <1>1. DOMAIN Simple = {"stop", "start", "pause", "unpause", "rescue", "unrescue",
                        "soft_delete", "restore", "rebuild_stop"}
    BY DEF Simple
  <1> DEFINE Good(h) == /\ h.vm \in VmStates \ {"shelved_offloaded"}
                        /\ "none" \notin DOMAIN h.does
                        /\ \A s \in DOMAIN h.does : h.does[s] \in Servers
  <1>2. Good(StopHandler) /\ Good(StartHandler) /\ Good(PauseHandler) /\ Good(UnpauseHandler)
    BY DEF StopHandler, StartHandler, PauseHandler, UnpauseHandler, Final, PowerOn, PowerOff,
        VmStates, Servers
  <1>3. Good(RescueHandler) /\ Good(UnrescueHandler) /\ Good(SoftDeleteHandler)
        /\ Good(RestoreHandler)
    BY DEF RescueHandler, UnrescueHandler, SoftDeleteHandler, RestoreHandler, Final, PowerOn,
        PowerOff, VmStates, Servers
  <1> HIDE DEF Good
  <1>4. \A o \in DOMAIN Simple : Good(Simple[o])
    BY <1>1, <1>2, <1>3 DEF Simple
  <1> QED BY <1>1, <1>4 DEF Good

\* images, reboots and power_off
LEMMA OtherTables ==
    /\ DOMAIN ImageHandler = {"snapshot", "backup", "shelve"}
    /\ \A o \in DOMAIN ImageHandler :
          ImageHandler[o].pending \in Tasks /\ ImageHandler[o].uploading \in Tasks
    /\ DOMAIN RebootTask = Reboots
    /\ \A o \in Reboots : RebootTask[o].pending \in Tasks /\ RebootTask[o].started \in Tasks
    /\ "none" \notin DOMAIN PowerOff
    /\ \A s \in DOMAIN PowerOff : PowerOff[s] \in Servers
  BY DEF ImageHandler, RebootTask, Reboots, Tasks, ImageTasks, ShelveTasks, SoftReboots,
      HardReboots, PowerOff, Servers

----------------------------------------------------------------------------
(* Types.                                                                  *)

RowType     == /\ exists \in BOOLEAN /\ vm \in VmStates /\ task \in Tasks
               /\ host \in BOOLEAN /\ launched \in BOOLEAN
ServerType  == server \in Servers
ControlType == /\ op \in [Procs -> HandlerOps] /\ pc \in [Procs -> Pcs]
               /\ seen \in [Procs -> Seen] /\ mgr \in {"up", "down", "boot"}
EnvType     == crashes \in 0..MaxCrashes /\ setting \in Settings

\* TypeOK in parts
LEMMA TypeParts == TypeOK <=> RowType /\ ServerType /\ ControlType /\ EnvType
  BY DEF TypeOK, RowType, ServerType, ControlType, EnvType

\* and after a step
LEMMA TypePartsNext == TypeOK' <=> RowType' /\ ServerType' /\ ControlType' /\ EnvType'
  BY DEF TypeOK, RowType, ServerType, ControlType, EnvType

\* the servers the provider makes
LEMMA ServerNames == {"none", "active"} \subseteq Servers
  BY DEF Servers

\* the objects a request works with
LEMMA SeenType == NotSeen \in Seen /\ \A p \in Procs : ControlType => seen[p] \in Seen
  BY VmNames, TaskNames DEF NotSeen, Seen, ControlType

\* the saves keep the row typed
LEMMA RowMoves ==
  ASSUME RowType
  PROVE  /\ \A v \in VmStates, t \in Tasks : Write(v, t) => RowType'
         /\ \A b \in BOOLEAN : SetHost(b) => RowType'
         /\ UNCHANGED row => RowType'
  BY DEF RowType, Write, SetHost, row

\* the moves of a process keep the control typed
LEMMA ControlMoves ==
  ASSUME ControlType, RowType, RowType', NEW p \in Procs
  PROVE  /\ \A s \in Pcs : Go(p, s) => ControlType'
         /\ \A s \in Pcs : GoFresh(p, s) => ControlType'
         /\ \A o \in HandlerOps, s \in Pcs : Become(p, o, s) => ControlType'
         /\ End(p) => ControlType'
         /\ EndRaised(p) => ControlType'
         /\ \A o \in HandlerOps, s \in Seen : Cast(p, o, s) => ControlType'
  <1>1. ASSUME Leave(p) PROVE (op \in [Procs -> HandlerOps] /\ pc \in [Procs -> Pcs]
                               /\ seen \in [Procs -> Seen])'
    BY <1>1, SeenType, PcNames, OpNames DEF Leave, ControlType
  <1>2. End(p) => ControlType'
    BY <1>1 DEF End, ControlType
  <1>3. EndRaised(p) => ControlType'
    BY <1>1 DEF EndRaised, ControlType
  <1>4. ASSUME NEW s \in Pcs, Go(p, s) PROVE ControlType'
    BY <1>4 DEF Go, ControlType
  <1>5. ASSUME NEW s \in Pcs, GoFresh(p, s) PROVE ControlType'
    <2>1. Fresh(p) \in Seen
      BY SeenType DEF Fresh, Seen, RowType
    <2> QED BY <1>5, <2>1 DEF GoFresh, ControlType
  <1>6. ASSUME NEW o \in HandlerOps, NEW s \in Pcs, Become(p, o, s) PROVE ControlType'
    BY <1>6 DEF Become, ControlType
  <1>7. ASSUME NEW o \in HandlerOps, NEW s \in Seen, Cast(p, o, s) PROVE ControlType'
    BY <1>2, <1>7, PcNames DEF Cast, ControlType
  <1> QED BY <1>2, <1>3, <1>4, <1>5, <1>6, <1>7

\* a save with an expected task keeps row and control typed
LEMMA CASMoves ==
  ASSUME ControlType, RowType, NEW p \in Procs, NEW from,
         NEW v \in VmStates, NEW t \in Tasks, NEW s \in Pcs
  PROVE  /\ CAS(p, from, v, t, s) => RowType' /\ ControlType'
         /\ FinalCAS(p, from, v, t) => RowType' /\ ControlType'
  <1>1. Preempted(p, t) => RowType' /\ ControlType'
    <2>1. "error" \in VmStates
      BY VmNames
    <2>2. Preempted(p, t) => RowType'
      BY <2>1, RowMoves DEF Preempted
    <2> QED BY <2>2, ControlMoves DEF Preempted
  <1> QED BY <1>1, RowMoves, ControlMoves DEF CAS, FinalCAS

\* a refreshed object
LEMMA FreshType == ASSUME ControlType, RowType, RowType', NEW p \in Procs PROVE Fresh(p) \in Seen
  BY SeenType DEF Fresh, Seen, RowType

\* what a request is sent on as
LEMMA HandlerType == \A o \in DOMAIN Api : Handler(o) \in HandlerOps
  BY OpNames DEF Handler, AllOps

\* init_host is one of the processes
LEMMA BootProc == Boot \in Procs
  BY DEF Procs

\* init_host raises
LEMMA BlockedType == ControlType /\ RowType /\ Blocked => RowType' /\ ControlType'
  BY RowMoves, BootProc, SeenType, PcNames, OpNames DEF Blocked, Leave, ControlType

\* the initial states are typed
LEMMA TypeInit == Init => TypeOK
  <1> SUFFICES ASSUME Init PROVE TypeOK
    OBVIOUS
  <1>1. crashes \in 0..MaxCrashes /\ setting \in Settings
    BY ConstantsAssumption DEF Init, MaxCrashes
  <1>2. seen \in [Procs -> Seen]
    BY SeenType DEF Init
  <1>3. op \in [Procs -> HandlerOps] /\ pc \in [Procs -> Pcs]
    <2>1. {"build", "none"} \subseteq HandlerOps /\ {"cast", "idle"} \subseteq Pcs
      BY PcNames DEF HandlerOps
    <2> QED BY <2>1 DEF Init
  <1>4. vm \in VmStates /\ task \in Tasks /\ server \in Servers
    BY DEF Init, VmStates, Tasks, BuildTasks, Servers
  <1> QED BY <1>1, <1>2, <1>3, <1>4 DEF Init, TypeOK

\* every action keeps everything typed
LEMMA TypeStep == TypeOK /\ [Next]_vars => TypeOK'
  <1> DEFINE Typed == RowType /\ ServerType /\ ControlType /\ EnvType
  <1> SUFFICES ASSUME Typed, [Next]_vars PROVE Typed'
    BY TypeParts, TypePartsNext
  <1>a. vm \in VmStates /\ task \in Tasks /\ "error" \in VmStates /\ "none" \in Tasks
    BY VmNames, TaskNames DEF RowType
  <1>b. \A p \in Procs : seen[p] \in Seen /\ seen[p].vm \in VmStates
    BY SeenType DEF Seen
  <1> USE DEF ServerType, EnvType, env, MaxCrashes
  <1>Request. ASSUME NEW p \in Procs, Request(p) PROVE Typed'
    <2>1. CASE End(p) /\ Matches({"none"}) /\ Write("active", "none")
      BY <1>Request, <2>1, <1>a, RowMoves, ControlMoves, VmNames DEF Request
    <2>2. CASE End(p) /\ UNCHANGED row
      BY <1>Request, <2>2, RowMoves, ControlMoves DEF Request
    <2>3. CASE /\ Write(vm, Api[op[p]].to)
               /\ Cast(p, Handler(op[p]), IF op[p] \in NeedVm THEN Fresh(p) ELSE NotSeen)
      BY <1>Request, <2>3, <1>a, RowMoves, ControlMoves, OpNames, SeenType, ApiTable,
         FreshType, HandlerType
      DEF Request, NeedVm
    <2> QED BY <1>Request, <2>1, <2>2, <2>3 DEF Request
  <1>DeleteMark. ASSUME NEW p \in Procs, DeleteMark(p) PROVE Typed'
    BY <1>DeleteMark, <1>a, RowMoves, ControlMoves, PcNames, DeleteTable
    DEF DeleteMark
  <1>DestroyUnhosted. ASSUME NEW p \in Procs, DestroyUnhosted(p) PROVE Typed'
    <2>1. RowType'
      BY <1>DestroyUnhosted DEF DestroyUnhosted, RowType, row
    <2>2. [seen[p] EXCEPT !.vm = vm, !.host = TRUE] \in Seen
      BY <1>a, <1>b DEF Seen
    <2>3. ControlType'
      BY <1>DestroyUnhosted, <2>1, <2>2, ControlMoves DEF DestroyUnhosted, ControlType
    <2> QED BY <1>DestroyUnhosted, <2>1, <2>3 DEF DestroyUnhosted
  <1>DeleteCast. ASSUME NEW p \in Procs, DeleteCast(p) PROVE Typed'
    <2>1. NotSeen \in Seen /\ op[p] \in HandlerOps
      BY SeenType DEF ControlType
    <2> QED BY <1>DeleteCast, <2>1, RowMoves, ControlMoves DEF DeleteCast
  <1>DeleteLocal. ASSUME NEW p \in Procs, DeleteLocal(p) PROVE Typed'
    BY <1>DeleteLocal, <1>b, RowMoves, ControlMoves, PcNames
    DEF DeleteLocal
  <1>LocalSave. ASSUME NEW p \in Procs, LocalSave(p) PROVE Typed'
    BY <1>LocalSave, <1>a, RowMoves, ControlMoves, PcNames, TaskNames, VmNames
    DEF LocalSave
  <1>LocalDestroy. ASSUME NEW p \in Procs, LocalDestroy(p) PROVE Typed'
    BY <1>LocalDestroy, <1>b, ControlMoves
    DEF LocalDestroy, Destroy, RowType
  <1>UnshelveShelved. ASSUME NEW p \in Procs, UnshelveShelved(p) PROVE Typed'
    BY <1>UnshelveShelved, <1>a, <1>b, RowMoves, ControlMoves, TaskNames, VmNames,
       OpNames, SeenType
    DEF UnshelveShelved, Conduct
  <1>UnshelveOffloaded. ASSUME NEW p \in Procs, UnshelveOffloaded(p) PROVE Typed'
    BY <1>UnshelveOffloaded, <1>a, <1>b, RowMoves, ControlMoves, PcNames, TaskNames,
       VmNames
    DEF UnshelveOffloaded, Conduct
  <1>BuildStart. ASSUME NEW p \in Procs, BuildStart(p) PROVE Typed'
    BY <1>BuildStart, <1>a, RowMoves, ControlMoves, PcNames, TaskNames, VmNames
    DEF BuildStart, Build
  <1>BuildClaim. ASSUME NEW p \in Procs, BuildClaim(p) PROVE Typed'
    BY <1>BuildClaim, RowMoves, ControlMoves, PcNames
    DEF BuildClaim, Build
  <1>BuildNetwork. ASSUME NEW p \in Procs, BuildNetwork(p) PROVE Typed'
    BY <1>BuildNetwork, <1>a, RowMoves, ControlMoves, PcNames, TaskNames, VmNames
    DEF BuildNetwork, Build, GiveUp, RowType
  <1>BuildBlockDevices. ASSUME NEW p \in Procs, BuildBlockDevices(p) PROVE Typed'
    BY <1>BuildBlockDevices, RowMoves, ControlMoves, PcNames, TaskNames, VmNames
    DEF BuildBlockDevices, Build
  <1>BuildSpawning. ASSUME NEW p \in Procs, BuildSpawning(p) PROVE Typed'
    BY <1>BuildSpawning, RowMoves, ControlMoves, PcNames, TaskNames, VmNames
    DEF BuildSpawning, Build, GiveUp, RowType
  <1>BuildSpawn. ASSUME NEW p \in Procs, BuildSpawn(p) PROVE Typed'
    BY <1>BuildSpawn, RowMoves, ControlMoves, PcNames, VmNames, ServerNames
    DEF BuildSpawn, Build, Spawn
  <1>BuildClean. ASSUME NEW p \in Procs, BuildClean(p) PROVE Typed'
    BY <1>BuildClean, <1>a, RowMoves, ControlMoves, PcNames, ServerNames
    DEF BuildClean, Build, DestroyServer
  <1>BuildUnclaim. ASSUME NEW p \in Procs, BuildUnclaim(p) PROVE Typed'
    BY <1>BuildUnclaim, RowMoves, ControlMoves, PcNames
    DEF BuildUnclaim, Build
  <1>BuildError. ASSUME NEW p \in Procs, BuildError(p) PROVE Typed'
    BY <1>BuildError, <1>a, ControlMoves, TaskNames, VmNames
    DEF BuildError, Build, RowType
  <1>BuildSave. ASSUME NEW p \in Procs, BuildSave(p) PROVE Typed'
    BY <1>BuildSave, <1>a, RowMoves, ControlMoves, PcNames, TaskNames, VmNames,
       RowType
    DEF BuildSave, Build, Launch, RowType
  <1>StopBegin. ASSUME NEW p \in Procs, StopBegin(p) PROVE Typed'
    <2>1. [seen[p] EXCEPT !.off = (server = "shutoff")] \in Seen /\ "driver" \in Pcs
      BY <1>b, PcNames DEF Seen
    <2>2. RowType'
      BY <1>StopBegin, RowMoves DEF StopBegin
    <2>3. CASE Go(p, "revert")
      BY <1>StopBegin, <2>2, <2>3, ControlMoves, PcNames DEF StopBegin, Handle
    <2>4. CASE ~Go(p, "revert")
      <3>1. ControlType'
        BY <1>StopBegin, <2>1, <2>4 DEF StopBegin, ControlType
      <3> QED BY <1>StopBegin, <2>2, <3>1 DEF StopBegin, Handle
    <2> QED BY <2>3, <2>4
  <1>PowerOffStep. ASSUME NEW p \in Procs, PowerOffStep(p) PROVE Typed'
    BY <1>PowerOffStep, RowMoves, ControlMoves, PcNames, ServerNames, OtherTables
    DEF PowerOffStep, HandleAny, CallDriver, Fail
  <1>DriverStep. ASSUME NEW p \in Procs, DriverStep(p) PROVE Typed'
    <2>1. op[p] \in DOMAIN Simple
      BY <1>DriverStep, SimpleTable DEF DriverStep, HandleAny, OneCall
    <2>2. Go(p, "save") \/ Fail(p)
      BY <1>DriverStep DEF DriverStep, CallDriver
    <2>3. ControlType' /\ RowType'
      BY <1>DriverStep, <2>2, RowMoves, ControlMoves, PcNames DEF DriverStep, Fail
    <2>4. server' \in Servers
      BY <1>DriverStep, <2>1, SimpleTable DEF DriverStep, CallDriver
    <2> QED BY <1>DriverStep, <2>3, <2>4 DEF DriverStep, HandleAny
  <1>SimpleSave. ASSUME NEW p \in Procs, SimpleSave(p) PROVE Typed'
    BY <1>SimpleSave, <1>a, <1>b, RowMoves, ControlMoves, CASMoves, PcNames,
       TaskNames, VmNames, SimpleTable
    DEF SimpleSave, HandleAny
  <1>Error. ASSUME NEW p \in Procs, Error(p) PROVE Typed'
    BY <1>Error, <1>a, RowMoves, ControlMoves, PcNames, TaskNames, VmNames
    DEF Error
  <1>Revert. ASSUME NEW p \in Procs, Revert(p) PROVE Typed'
    BY <1>Revert, <1>a, RowMoves, ControlMoves, PcNames, TaskNames, VmNames, OpNames
    DEF Revert
  <1>Suspend. ASSUME NEW p \in Procs, Suspend(p) PROVE Typed'
    BY <1>Suspend, <1>a, <1>b, RowMoves, ControlMoves, PcNames, TaskNames, VmNames
    DEF Suspend, Handle, ControlType, Seen
  <1>Password. ASSUME NEW p \in Procs, Password(p) PROVE Typed'
    BY <1>Password, <1>a, RowMoves, ControlMoves, CASMoves, PcNames, TaskNames,
       VmNames
    DEF Password, Handle
  <1>PasswordSave. ASSUME NEW p \in Procs, PasswordSave(p) PROVE Typed'
    BY <1>PasswordSave, <1>a, CASMoves, PcNames, TaskNames, VmNames
    DEF PasswordSave, Handle
  <1>SnapshotBegin. ASSUME NEW p \in Procs, SnapshotBegin(p) PROVE Typed'
    BY <1>SnapshotBegin, <1>a, CASMoves, PcNames, TaskNames, VmNames
    DEF SnapshotBegin, Handle
  <1>ImageMark. ASSUME NEW p \in Procs, ImageMark(p) PROVE Typed'
    BY <1>ImageMark, <1>a, RowMoves, ControlMoves, CASMoves, PcNames, TaskNames,
       VmNames, OtherTables
    DEF ImageMark, HandleAny, Handle
  <1>ImageCreate. ASSUME NEW p \in Procs, ImageCreate(p) PROVE Typed'
    BY <1>ImageCreate, <1>a, RowMoves, ControlMoves, CASMoves, PcNames, TaskNames,
       VmNames, OtherTables
    DEF ImageCreate, HandleAny
  <1>ImageUpload. ASSUME NEW p \in Procs, ImageUpload(p) PROVE Typed'
    BY <1>ImageUpload, <1>a, RowMoves, ControlMoves, CASMoves, PcNames, TaskNames,
       VmNames
    DEF ImageUpload, HandleAny
  <1>ShelveUpload. ASSUME NEW p \in Procs, ShelveUpload(p) PROVE Typed'
    BY <1>ShelveUpload, <1>a, RowMoves, ControlMoves, PcNames, TaskNames, VmNames,
       OpNames
    DEF ShelveUpload, Handle
  <1>OffloadDestroy. ASSUME NEW p \in Procs, OffloadDestroy(p) PROVE Typed'
    BY <1>OffloadDestroy, <1>a, RowMoves, ControlMoves, PcNames, ServerNames
    DEF OffloadDestroy, Handle, DestroyServer
  <1>OffloadSave. ASSUME NEW p \in Procs, OffloadSave(p) PROVE Typed'
    BY <1>OffloadSave, <1>a, RowMoves, ControlMoves, TaskNames, VmNames
    DEF OffloadSave, Handle, RowType
  <1>UnshelveBegin. ASSUME NEW p \in Procs, UnshelveBegin(p) PROVE Typed'
    BY <1>UnshelveBegin, <1>a, RowMoves, ControlMoves, PcNames, TaskNames, VmNames
    DEF UnshelveBegin, Unshelve, Handle
  <1>UnshelveClaim. ASSUME NEW p \in Procs, UnshelveClaim(p) PROVE Typed'
    BY <1>UnshelveClaim, RowMoves, ControlMoves, PcNames
    DEF UnshelveClaim, Unshelve, Handle
  <1>UnshelveSpawn. ASSUME NEW p \in Procs, UnshelveSpawn(p) PROVE Typed'
    BY <1>UnshelveSpawn, RowMoves, ControlMoves, PcNames, VmNames, ServerNames
    DEF UnshelveSpawn, Unshelve, Handle, Spawn
  <1>UnshelveUnclaim. ASSUME NEW p \in Procs, UnshelveUnclaim(p) PROVE Typed'
    BY <1>UnshelveUnclaim, RowMoves, ControlMoves, PcNames
    DEF UnshelveUnclaim, Unshelve, Handle
  <1>UnshelveSave. ASSUME NEW p \in Procs, UnshelveSave(p) PROVE Typed'
    BY <1>UnshelveSave, <1>a, RowMoves, ControlMoves, CASMoves, PcNames, TaskNames,
       VmNames
    DEF UnshelveSave, Unshelve, Handle
  <1>RebootBegin. ASSUME NEW p \in Procs, RebootBegin(p) PROVE Typed'
    BY <1>RebootBegin, <1>a, RowMoves, ControlMoves, PcNames, TaskNames, VmNames,
       OtherTables
    DEF RebootBegin, HandleAny
  <1>RebootStart. ASSUME NEW p \in Procs, RebootStart(p) PROVE Typed'
    BY <1>RebootStart, <1>a, RowMoves, ControlMoves, PcNames, TaskNames, VmNames,
       OtherTables
    DEF RebootStart, HandleAny
  <1>RebootFinal. ASSUME NEW p \in Procs, RebootFinal(p) PROVE Typed'
    BY <1>RebootFinal, <1>a, <1>b, RowMoves, ControlMoves, PcNames, TaskNames, VmNames
    DEF RebootFinal, HandleAny
  <1>RebuildBegin. ASSUME NEW p \in Procs, RebuildBegin(p) PROVE Typed'
    BY <1>RebuildBegin, <1>a, RowMoves, ControlMoves, CASMoves, PcNames, TaskNames,
       VmNames
    DEF RebuildBegin, Rebuild, Handle
  <1>RebuildDestroy. ASSUME NEW p \in Procs, RebuildDestroy(p) PROVE Typed'
    BY <1>RebuildDestroy, <1>a, RowMoves, ControlMoves, PcNames, ServerNames
    DEF RebuildDestroy, Rebuild, Handle, DestroyServer
  <1>RebuildBlockDevices. ASSUME NEW p \in Procs, RebuildBlockDevices(p) PROVE Typed'
    BY <1>RebuildBlockDevices, <1>a, CASMoves, PcNames, TaskNames, VmNames
    DEF RebuildBlockDevices, Rebuild, Handle
  <1>RebuildSpawning. ASSUME NEW p \in Procs, RebuildSpawning(p) PROVE Typed'
    BY <1>RebuildSpawning, <1>a, RowMoves, ControlMoves, CASMoves, PcNames, TaskNames,
       VmNames
    DEF RebuildSpawning, Rebuild, Handle
  <1>RebuildSpawn. ASSUME NEW p \in Procs, RebuildSpawn(p) PROVE Typed'
    BY <1>RebuildSpawn, RowMoves, ControlMoves, PcNames, VmNames, ServerNames
    DEF RebuildSpawn, Rebuild, Handle, Spawn
  <1>RebuildSave. ASSUME NEW p \in Procs, RebuildSave(p) PROVE Typed'
    BY <1>RebuildSave, <1>a, <1>b, RowMoves, ControlMoves, CASMoves, PcNames,
       TaskNames, VmNames
    DEF RebuildSave, Rebuild, Handle
  <1>RebuildMark. ASSUME NEW p \in Procs, RebuildMark(p) PROVE Typed'
    BY <1>RebuildMark, RowMoves, ControlMoves, PcNames, TaskNames, VmNames, OpNames
    DEF RebuildMark, Rebuild, Handle
  <1>RebuildHost. ASSUME NEW p \in Procs, RebuildHost(p) PROVE Typed'
    BY <1>RebuildHost, RowMoves, ControlMoves
    DEF RebuildHost, HandleAny
  <1>TerminateBegin. ASSUME NEW p \in Procs, TerminateBegin(p) PROVE Typed'
    BY <1>TerminateBegin, <1>a, RowMoves, ControlMoves, PcNames, ServerNames
    DEF TerminateBegin, HandleAny, DestroyServer
  <1>TerminateSave. ASSUME NEW p \in Procs, TerminateSave(p) PROVE Typed'
    BY <1>TerminateSave, <1>a, RowMoves, ControlMoves, PcNames, TaskNames, VmNames
    DEF TerminateSave
  <1>TerminatePurge. ASSUME NEW p \in Procs, TerminatePurge(p) PROVE Typed'
    BY <1>TerminatePurge, <1>b, ControlMoves, PcNames
    DEF TerminatePurge, Destroy, RowType
  <1>TerminateFailed. ASSUME NEW p \in Procs, TerminateFailed(p) PROVE Typed'
    BY <1>TerminateFailed, <1>a, RowMoves, ControlMoves, PcNames, TaskNames, VmNames
    DEF TerminateFailed
  <1>Load. ASSUME NEW p \in Procs, NEW o \in AllOps, Load(p, o) PROVE Typed'
    <2>1. [seen[p] EXCEPT !.task = IF o \in Deletes THEN task ELSE "none",
                          !.host = o = "restore" /\ host] \in Seen
      BY <1>a, <1>b DEF Seen
    <2>2. o \in HandlerOps /\ "check" \in Pcs
      BY OpNames, PcNames
    <2> QED BY <1>Load, <2>1, <2>2, RowMoves DEF Load, ControlType
  <1>Asked. ASSUME NEW p \in Slots, NEW o \in Ops PROVE p \in Procs /\ o \in AllOps
    BY ConstantsAssumption DEF Slots, Ops, Procs
  <1>Crash. CASE Crash
    <2>1. crashes' \in 0..MaxCrashes'
      <3>1. setting.crashes \in Nat /\ setting' = setting
        BY <1>Crash, ConstantsAssumption DEF Crash
      <3> QED BY <1>Crash, <3>1 DEF Crash
    <2>2. "idle" \in Pcs /\ "none" \in HandlerOps /\ NotSeen \in Seen
      BY PcNames, OpNames, SeenType
    <2>3. ControlType'
      BY <1>Crash, <2>2 DEF Crash, ControlType
    <2> QED BY <1>Crash, <2>1, <2>3, RowMoves DEF Crash
  <1>Restart. CASE Restart
    <2>1. "init" \in Pcs /\ Boot \in Procs
      BY PcNames, BootProc
    <2>2. [vm |-> vm, task |-> task, host |-> TRUE, off |-> FALSE] \in Seen
      BY <1>a DEF Seen
    <2>3. ControlType'
      BY <1>Restart, <2>1, <2>2 DEF Restart, ControlType
    <2> QED BY <1>Restart, <2>3, RowMoves DEF Restart
  <1>BootSkip. CASE BootSkip
    BY <1>BootSkip, RowMoves, ControlMoves, BootProc DEF BootSkip, Booting
  <1>BootPurge. CASE BootPurge
    BY <1>BootPurge, RowMoves, ControlMoves, PcNames, OpNames, BootProc
    DEF BootPurge, Booting
  <1>BootUnfinished. CASE BootUnfinished
    BY <1>BootUnfinished, <1>a, RowMoves, ControlMoves, TaskNames, VmNames, BootProc,
       BlockedType
    DEF BootUnfinished, BootWrite, Booting
  <1>BootImage. CASE BootImage
    <2>1. CASE exists
      <3>1. RowType'
        BY <1>BootImage, <2>1, <1>a, RowMoves DEF BootImage
      <3>2. [Fresh(Boot) EXCEPT !.task = "none"] \in Seen
        BY <3>1, FreshType, BootProc, <1>a DEF Seen
      <3>3. ControlType'
        BY <1>BootImage, <2>1, <3>2 DEF BootImage, ControlType
      <3> QED BY <1>BootImage, <3>1, <3>3 DEF BootImage, Booting
    <2>2. CASE ~exists
      BY <1>BootImage, <2>2, BlockedType DEF BootImage, Booting
    <2> QED BY <2>1, <2>2
  <1>BootDelete. CASE BootDelete
    BY <1>BootDelete, RowMoves, ControlMoves, PcNames, OpNames, BootProc
    DEF BootDelete, Booting
  <1>BootNoServer. CASE BootNoServer
    BY <1>BootNoServer, <1>a, RowMoves, BootProc, BlockedType
    DEF BootNoServer, Booting, PowerRead
  <1>BootReboot. CASE BootReboot
    BY <1>BootReboot, <1>a, RowMoves, ControlMoves, PcNames, TaskNames, VmNames,
       OpNames, BootProc, BlockedType
    DEF BootReboot, Booting, PowerRead
  <1>BootClear. CASE BootClear
    BY <1>BootClear, <1>a, RowMoves, ControlMoves, TaskNames, VmNames, BootProc,
       BlockedType
    DEF BootClear, BootWrite, Booting, PowerRead
  <1>BootResume. CASE BootResume
    BY <1>BootResume, <1>a, RowMoves, ControlMoves, PcNames, OpNames, BootProc
    DEF BootResume, Booting, PowerRead
  <1>BootLeave. CASE BootLeave
    BY <1>BootLeave, <1>a, RowMoves, ControlMoves, BootProc
    DEF BootLeave, Booting, PowerRead
  <1>Stutter. CASE UNCHANGED vars
    BY <1>Stutter DEF vars, RowType, ServerType, ControlType, EnvType, row, env, MaxCrashes
  <1> QED
    BY <1>Load, <1>Asked, <1>Request, <1>DeleteMark, <1>DestroyUnhosted,
       <1>DeleteCast, <1>DeleteLocal, <1>LocalSave, <1>LocalDestroy,
       <1>UnshelveShelved, <1>UnshelveOffloaded, <1>BuildStart, <1>BuildClaim,
       <1>BuildNetwork, <1>BuildBlockDevices, <1>BuildSpawning, <1>BuildSpawn,
       <1>BuildClean, <1>BuildUnclaim, <1>BuildError, <1>BuildSave, <1>StopBegin,
       <1>PowerOffStep, <1>DriverStep, <1>SimpleSave, <1>Error, <1>Revert, <1>Suspend,
       <1>Password, <1>PasswordSave, <1>SnapshotBegin, <1>ImageMark, <1>ImageCreate,
       <1>ImageUpload, <1>ShelveUpload, <1>OffloadDestroy, <1>OffloadSave,
       <1>UnshelveBegin, <1>UnshelveClaim, <1>UnshelveSpawn, <1>UnshelveUnclaim,
       <1>UnshelveSave, <1>RebootBegin, <1>RebootStart, <1>RebootFinal,
       <1>RebuildBegin, <1>RebuildDestroy, <1>RebuildBlockDevices, <1>RebuildSpawning,
       <1>RebuildSpawn, <1>RebuildSave, <1>RebuildMark, <1>RebuildHost,
       <1>TerminateBegin, <1>TerminateSave, <1>TerminatePurge, <1>TerminateFailed,
       <1>Crash, <1>Restart, <1>BootSkip, <1>BootPurge, <1>BootUnfinished,
       <1>BootImage, <1>BootDelete, <1>BootNoServer, <1>BootReboot, <1>BootClear,
       <1>BootResume, <1>BootLeave, <1>Stutter
    DEF Next, Step, ApiStep, BuildStep, HandlerStep, InitHost, Rest

\* Every variable of an instance's row, requests and handlers keeps its type.
THEOREM TypeCorrect == Spec => []TypeOK
  BY TypeInit, TypeStep, PTL DEF Spec

\* how a process moves
Alone(p) == \A q \in Procs \ {p} : op'[q] = op[q] /\ pc'[q] = pc[q] /\ seen'[q] = seen[q]

\* a refreshed object shows the row
LEMMA FreshMoves ==
  ASSUME ControlType, NEW p \in Procs
  PROVE  Fresh(p).vm = vm' /\ Fresh(p).host = host'
  <1>1. seen[p] \in Seen
    BY DEF ControlType
  <1> QED BY <1>1 DEF Fresh, Seen

\* what a process does to itself
LEMMA Moves ==
  ASSUME ControlType, NEW p \in Procs
  PROVE  /\ \A s : Go(p, s) => /\ op'[p] = op[p] /\ pc'[p] = s /\ seen'[p] = seen[p]
                               /\ Alone(p) /\ mgr' = mgr
         /\ \A s : GoFresh(p, s) => /\ op'[p] = op[p] /\ pc'[p] = s /\ Alone(p)
                                    /\ seen'[p].vm = vm' /\ seen'[p].host = host'
                                    /\ mgr' = mgr
         /\ \A o, s : Become(p, o, s) => /\ op'[p] = o /\ pc'[p] = s /\ seen'[p] = seen[p]
                                         /\ Alone(p) /\ mgr' = mgr
         /\ Leave(p) => /\ op'[p] = "none" /\ pc'[p] = "idle" /\ seen'[p] = NotSeen
                        /\ Alone(p)
  <1>1. ASSUME NEW s, GoFresh(p, s)
        PROVE  /\ op'[p] = op[p] /\ pc'[p] = s /\ Alone(p) /\ mgr' = mgr
               /\ seen'[p].vm = vm' /\ seen'[p].host = host'
    BY <1>1, FreshMoves DEF GoFresh, ControlType, Alone
  <1>2. ASSUME NEW s, Go(p, s)
        PROVE  /\ op'[p] = op[p] /\ pc'[p] = s /\ seen'[p] = seen[p]
               /\ Alone(p) /\ mgr' = mgr
    BY <1>2 DEF Go, ControlType, Alone
  <1>3. ASSUME NEW o, NEW s, Become(p, o, s)
        PROVE  /\ op'[p] = o /\ pc'[p] = s /\ seen'[p] = seen[p]
               /\ Alone(p) /\ mgr' = mgr
    BY <1>3 DEF Become, ControlType, Alone
  <1>4. Leave(p) => /\ op'[p] = "none" /\ pc'[p] = "idle" /\ seen'[p] = NotSeen
                    /\ Alone(p)
    BY DEF Leave, ControlType, Alone
  <1> QED BY <1>1, <1>2, <1>3, <1>4

\* a process that ends
LEMMA Ends ==
  ASSUME ControlType, NEW p \in Procs
  PROVE  End(p) \/ EndRaised(p) =>
            /\ op'[p] = "none" /\ pc'[p] = "idle" /\ seen'[p] = NotSeen
            /\ Alone(p) /\ (p # Boot => mgr' = mgr)
  BY Moves DEF End, EndRaised

\* a request that is sent on
LEMMA CastMoves ==
  ASSUME ControlType, NEW p \in Procs, NEW o, NEW s, Cast(p, o, s)
  PROVE  \/ /\ op'[p] = o /\ pc'[p] = "cast" /\ seen'[p] = s /\ Alone(p) /\ mgr' = mgr
         \/ End(p)
  BY DEF Cast, ControlType, Alone

----------------------------------------------------------------------------
(* What the steps that build nothing may do.                               *)

Quiet(p) ==
    \* to itself and to the others
    /\ Alone(p)
    /\ op[p] # "build" /\ pc[p] \notin BuildPcs /\ (p = Boot => pc[p] # "idle")
    /\ op'[p] \notin {"build", "rebuild", "rebuild_stop", "unshelve"}
    /\ pc'[p] \notin BuildPcs
    /\ p # Boot => mgr' = mgr
    /\ UNCHANGED <<launched, crashes, setting>>
    \* to the server and to the row
    /\ server = "none" => server' = "none"
    /\ exists' => exists
    /\ host' => host
    /\ host /\ ~host' => server' = "none"
    /\ exists /\ ~exists' => ~host \/ pc[p] \in Ended
    /\ seen'[p].host => seen[p].host \/ host
    /\ pc'[p] \in Ended => pc[p] \in Ended \/ server' = "none" \/ mgr # "up"
    \* offloaded
    /\ vm' = "shelved_offloaded" \/ seen'[p].vm = "shelved_offloaded"
       => vm = "shelved_offloaded" \/ seen[p].vm = "shelved_offloaded" \/ Gone'
    /\ pc'[p] = "o_save" => op'[p] = "offload" /\ server' = "none"
    \* before the launch
    /\ pc[p] \in ApiOnly /\ exists /\ host => exists' /\ host'
    /\ ~launched =>
          /\ vm' \in Young /\ (p = Boot => seen'[p].vm \in Young)
          /\ op'[p] \in {"none", "delete", "force_delete"}
          /\ pc[p] = "cast" => LockFree
          /\ pc[p] \in ApiOnly =>
                /\ task' \in {task, "deleting"}
                /\ \/ pc'[p] \in ApiOnly
                   \/ seen[p].host /\ pc'[p] = "cast"
                   \/ seen[p].host /\ pc'[p] = "local" /\ mgr # "up"

\* the API's steps and the handlers' are quiet
LEMMA HandlerQuiet ==
  ASSUME TypeOK, RowInv, NEW p \in Procs, ApiStep(p) \/ HandlerStep(p)
  PROVE  Quiet(p)
  <1>a. RowType /\ ControlType
    BY TypeParts
  <1>b. op[p] \notin {"rebuild", "rebuild_stop", "unshelve"}
    BY DEF RowInv, OpsInv
  <1>c. /\ pc[p] \in BuildPcs => op[p] = "build"
        /\ op[p] = "build" => pc[p] \in BuildPcs \cup {"cast"} /\ p # Boot
    BY DEF RowInv, BuildInv
  <1>d. ~launched => /\ vm \in Young /\ (p = Boot => seen[p].vm \in Young)
                     /\ op[p] \in {"none", "build", "delete", "force_delete"}
    BY DEF RowInv, YoungInv
  <1>e. /\ vm = "shelved_offloaded" => Gone
        /\ seen[p].vm = "shelved_offloaded" => Gone
        /\ pc[p] = "o_save" => op[p] = "offload" /\ server = "none"
    BY DEF RowInv, OffInv
  <1> USE DEF BuildPcs, ApiOnly, Ended, Young, Gone, NotSeen
  <1>Request. CASE Request(p)
    <2>1. /\ op[p] \in DOMAIN Api /\ op[p] \notin {"build", "none", "delete", "force_delete"}
          /\ Handler(op[p]) \in {op[p], "offload"} /\ launched
      BY <1>Request, <1>d, ApiTable DEF Request, Handler
    <2>2. /\ op'[p] \in {op[p], "offload", "none"} /\ pc'[p] \in {"cast", "idle"}
          /\ Alone(p) /\ (p # Boot => mgr' = mgr)
          /\ seen'[p] = NotSeen \/ (seen'[p].vm = vm' /\ seen'[p].host = host')
      BY <1>Request, <1>a, <2>1, CastMoves, FreshMoves, Ends DEF Request
    <2>3. /\ UNCHANGED <<exists, host, launched, server, crashes, setting>>
          /\ vm' \in {vm, "active"}
      BY <1>Request DEF Request, Write, row, env
    <2> QED BY <1>Request, <1>b, <2>1, <2>2, <2>3 DEF Request, Quiet, At
  <1>DeleteMark. CASE DeleteMark(p)
    <2>1. op[p] \in {"delete", "force_delete", "soft_delete"}
      BY <1>DeleteMark, OpNames DEF DeleteMark
    <2>2. ~launched => task' \in {task, "deleting"}
      BY <1>DeleteMark, <2>1, <1>d, DeleteTable DEF DeleteMark, Write
    <2> QED BY <1>DeleteMark, <2>1, <2>2, <1>a, <1>d, <1>e, Moves, Ends
        DEF DeleteMark, At, Write, env, Quiet, RowType
  <1>DestroyUnhosted. CASE DestroyUnhosted(p)
    <2>1. CASE End(p)
      BY <1>DestroyUnhosted, <2>1, <1>b, <1>c, <1>d, Ends, <1>a
      DEF DestroyUnhosted, At, env, Quiet
    <2>2. CASE ~End(p)
      <3>1. exists /\ host /\ seen' = [seen EXCEPT ![p].vm = vm, ![p].host = TRUE]
        BY <1>DestroyUnhosted, <2>2 DEF DestroyUnhosted
      <3>2. seen'[p].vm = vm /\ Alone(p)
        BY <1>DestroyUnhosted, <2>2, <3>1, <1>a DEF DestroyUnhosted, ControlType, Seen, Alone
      <3> QED BY <1>DestroyUnhosted, <2>2, <3>1, <3>2, <1>b, <1>c, <1>d
          DEF DestroyUnhosted, At, row, env, Quiet
    <2> QED BY <2>1, <2>2
  <1>DeleteCast. CASE DeleteCast(p)
    <2>1. \/ /\ op'[p] = op[p] /\ pc'[p] = "cast" /\ seen'[p] = NotSeen /\ Alone(p)
             /\ mgr' = mgr
          \/ End(p)
      BY <1>DeleteCast, <1>a, CastMoves DEF DeleteCast
    <2> QED BY <1>DeleteCast, <2>1, <1>a, <1>b, <1>c, <1>d, Ends
        DEF DeleteCast, At, row, env, Quiet
  <1>DeleteLocal. CASE DeleteLocal(p)
    BY <1>DeleteLocal, <1>a, <1>b, <1>c, <1>d, <1>e, Moves, Ends
    DEF DeleteLocal, At, Offloaded, row, env, Quiet, RowType
  <1>LocalSave. CASE LocalSave(p)
    BY <1>LocalSave, <1>a, <1>b, <1>c, <1>d, <1>e, Moves, Ends
    DEF LocalSave, At, Write, env, Quiet, RowType
  <1>LocalDestroy. CASE LocalDestroy(p)
    BY <1>LocalDestroy, <1>a, <1>b, <1>c, <1>d, <1>e, Moves, Ends
    DEF LocalDestroy, At, Destroy, env, Quiet, RowType
  <1>UnshelveShelved. CASE UnshelveShelved(p)
    BY <1>UnshelveShelved, <1>a, <1>b, <1>c, <1>d, <1>e, Moves, Ends
    DEF UnshelveShelved, Conduct, At, env, Matches, Write, Cast, Faults, row, Quiet,
        RowType
  <1>UnshelveOffloaded. CASE UnshelveOffloaded(p)
    BY <1>UnshelveOffloaded, <1>a, <1>b, <1>c, <1>d, <1>e, Moves, Ends
    DEF UnshelveOffloaded, Conduct, At, env, row, Faults, Write, Quiet, RowType
  <1>StopBegin. CASE StopBegin(p)
    <2>1. op[p] = "stop" /\ pc[p] = "cast" /\ launched
      BY <1>StopBegin, <1>b, <1>d DEF StopBegin, Handle, AtWork, At
    <2>2. /\ op'[p] = "stop" /\ pc'[p] \in {"revert", "driver"} /\ Alone(p) /\ mgr' = mgr
          /\ seen'[p].vm = seen[p].vm /\ seen'[p].host = seen[p].host
      BY <1>StopBegin, <2>1, <1>a, Moves DEF StopBegin, ControlType, Seen, Alone
    <2> QED BY <1>StopBegin, <2>1, <2>2 DEF StopBegin, Handle, row, env, Quiet
  <1>PowerOffStep. CASE PowerOffStep(p)
    BY <1>PowerOffStep, <1>a, <1>b, <1>c, <1>d, <1>e, Moves, Ends, OtherTables
    DEF PowerOffStep, HandleAny, AtWork, At, env, CallDriver, Faults, Fail, ErrorsOut,
        row, Quiet, RowType
  <1>DriverStep. CASE DriverStep(p)
    BY <1>DriverStep, <1>a, <1>b, <1>c, <1>d, <1>e, Moves, Ends, SimpleTable
    DEF DriverStep, HandleAny, AtWork, At, env, OneCall, CallDriver, Faults, Fail,
        ErrorsOut, row, Quiet, RowType
  <1>SimpleSave. CASE SimpleSave(p)
    BY <1>SimpleSave, <1>a, <1>b, <1>c, <1>d, <1>e, Moves, Ends, SimpleTable
    DEF SimpleSave, HandleAny, AtWork, At, env, Write, row, CAS, Matches, Preempted,
        Rebuilds, FinalCAS, Quiet, RowType
  <1>Error. CASE Error(p)
    BY <1>Error, <1>a, <1>b, <1>c, <1>d, <1>e, Moves, Ends
    DEF Error, AtWork, At, Write, env, Quiet, RowType
  <1>Revert. CASE Revert(p)
    BY <1>Revert, <1>a, <1>b, <1>c, <1>d, <1>e, Moves, Ends
    DEF Revert, AtWork, At, Write, env, Quiet, RowType
  <1>Suspend. CASE Suspend(p)
    BY <1>Suspend, <1>a, <1>b, <1>c, <1>d, <1>e, Moves, Ends
    DEF Suspend, Handle, AtWork, At, env, Write, Quiet, RowType
  <1>Password. CASE Password(p)
    BY <1>Password, <1>a, <1>b, <1>c, <1>d, <1>e, Moves, Ends
    DEF Password, Handle, AtWork, At, env, row, Running, CAS, Matches, Write,
        Preempted, Rebuilds, Faults, Quiet, RowType
  <1>PasswordSave. CASE PasswordSave(p)
    BY <1>PasswordSave, <1>a, <1>b, <1>c, <1>d, <1>e, Moves, Ends
    DEF PasswordSave, Handle, AtWork, At, env, FinalCAS, Matches, Write, Preempted,
        Rebuilds, row, Quiet, RowType
  <1>SnapshotBegin. CASE SnapshotBegin(p)
    BY <1>SnapshotBegin, <1>a, <1>b, <1>c, <1>d, <1>e, Moves, Ends
    DEF SnapshotBegin, Handle, AtWork, At, env, CAS, Matches, Write, Preempted,
        Rebuilds, row, Quiet, RowType
  <1>ImageMark. CASE ImageMark(p)
    BY <1>ImageMark, <1>a, <1>b, <1>c, <1>d, <1>e, Moves, Ends, OtherTables
    DEF ImageMark, HandleAny, AtWork, At, env, Handle, row, CAS, Matches, Write,
        Preempted, Rebuilds, Quiet, RowType
  <1>ImageCreate. CASE ImageCreate(p)
    BY <1>ImageCreate, <1>a, <1>b, <1>c, <1>d, <1>e, Moves, Ends, OtherTables
    DEF ImageCreate, HandleAny, AtWork, At, env, Faults, row, CAS, Matches, Write,
        Preempted, Rebuilds, Quiet, RowType
  <1>ImageUpload. CASE ImageUpload(p)
    BY <1>ImageUpload, <1>a, <1>b, <1>c, <1>d, <1>e, Moves, Ends
    DEF ImageUpload, HandleAny, AtWork, At, env, Faults, row, FinalCAS, Matches,
        Write, Preempted, Rebuilds, Quiet, RowType
  <1>ShelveUpload. CASE ShelveUpload(p)
    BY <1>ShelveUpload, <1>a, <1>b, <1>c, <1>d, <1>e, Moves, Ends
    DEF ShelveUpload, Handle, AtWork, At, env, Faults, row, Write, Matches, Quiet,
        RowType
  <1>OffloadDestroy. CASE OffloadDestroy(p)
    BY <1>OffloadDestroy, <1>a, <1>b, <1>c, <1>d, <1>e, Moves, Ends
    DEF OffloadDestroy, Handle, AtWork, At, env, DestroyServer, Faults, row, Quiet,
        RowType
  <1>OffloadSave. CASE OffloadSave(p)
    BY <1>OffloadSave, <1>a, <1>b, <1>c, <1>d, <1>e, Moves, Ends
    DEF OffloadSave, Handle, AtWork, At, env, Matches, row, Quiet, RowType
  <1>UnshelveBegin. CASE UnshelveBegin(p)
    BY <1>UnshelveBegin, <1>a, <1>b, <1>c, <1>d, <1>e, Moves, Ends
    DEF UnshelveBegin, Unshelve, Handle, AtWork, At, env, Write, Faults, Quiet,
        RowType
  <1>UnshelveClaim. CASE UnshelveClaim(p)
    BY <1>UnshelveClaim, <1>a, <1>b, <1>c, <1>d, <1>e, Moves, Ends
    DEF UnshelveClaim, Unshelve, Handle, AtWork, At, env, SetHost, Faults, row, Quiet,
        RowType
  <1>UnshelveSpawn. CASE UnshelveSpawn(p)
    BY <1>UnshelveSpawn, <1>a, <1>b, <1>c, <1>d, <1>e, Moves, Ends
    DEF UnshelveSpawn, Unshelve, Handle, AtWork, At, env, Spawn, Faults, row, Quiet,
        RowType
  <1>UnshelveUnclaim. CASE UnshelveUnclaim(p)
    BY <1>UnshelveUnclaim, <1>a, <1>b, <1>c, <1>d, <1>e, Moves, Ends
    DEF UnshelveUnclaim, Unshelve, Handle, AtWork, At, env, SetHost, Quiet, RowType
  <1>UnshelveSave. CASE UnshelveSave(p)
    BY <1>UnshelveSave, <1>a, <1>b, <1>c, <1>d, <1>e, Moves, Ends
    DEF UnshelveSave, Unshelve, Handle, AtWork, At, env, row, FinalCAS, Matches,
        Write, Preempted, Rebuilds, Quiet, RowType
  <1>RebootBegin. CASE RebootBegin(p)
    BY <1>RebootBegin, <1>a, <1>b, <1>c, <1>d, <1>e, Moves, Ends, OtherTables
    DEF RebootBegin, HandleAny, AtWork, At, env, Reboots, row, Matches, Write, Quiet,
        RowType
  <1>RebootStart. CASE RebootStart(p)
    BY <1>RebootStart, <1>a, <1>b, <1>c, <1>d, <1>e, Moves, Ends, OtherTables
    DEF RebootStart, HandleAny, AtWork, At, env, Reboots, Matches, Write, Running,
        row, Quiet, RowType
  <1>RebootFinal. CASE RebootFinal(p)
    BY <1>RebootFinal, <1>a, <1>b, <1>c, <1>d, <1>e, Moves, Ends
    DEF RebootFinal, HandleAny, AtWork, At, env, Reboots, row, Write, Quiet, RowType
  <1>RebuildBegin. CASE RebuildBegin(p)
    BY <1>RebuildBegin, <1>a, <1>b, <1>c, <1>d, <1>e, Moves, Ends
    DEF RebuildBegin, Rebuild, Handle, AtWork, At, env, row, CAS, Matches, Write,
        Preempted, Rebuilds, Quiet, RowType
  <1>RebuildDestroy. CASE RebuildDestroy(p)
    BY <1>RebuildDestroy, <1>a, <1>b, <1>c, <1>d, <1>e, Moves, Ends
    DEF RebuildDestroy, Rebuild, Handle, AtWork, At, env, DestroyServer, Faults, row,
        Quiet, RowType
  <1>RebuildBlockDevices. CASE RebuildBlockDevices(p)
    BY <1>RebuildBlockDevices, <1>a, <1>b, <1>c, <1>d, <1>e, Moves, Ends
    DEF RebuildBlockDevices, Rebuild, Handle, AtWork, At, env, CAS, Matches, Write,
        Preempted, Rebuilds, row, Quiet, RowType
  <1>RebuildSpawning. CASE RebuildSpawning(p)
    BY <1>RebuildSpawning, <1>a, <1>b, <1>c, <1>d, <1>e, Moves, Ends
    DEF RebuildSpawning, Rebuild, Handle, AtWork, At, env, Faults, row, CAS, Matches,
        Write, Preempted, Rebuilds, Quiet, RowType
  <1>RebuildSpawn. CASE RebuildSpawn(p)
    BY <1>RebuildSpawn, <1>a, <1>b, <1>c, <1>d, <1>e, Moves, Ends
    DEF RebuildSpawn, Rebuild, Handle, AtWork, At, env, Spawn, Faults, row, Quiet,
        RowType
  <1>RebuildSave. CASE RebuildSave(p)
    BY <1>RebuildSave, <1>a, <1>b, <1>c, <1>d, <1>e, Moves, Ends
    DEF RebuildSave, Rebuild, Handle, AtWork, At, env, row, CAS, Matches, Write,
        Preempted, Rebuilds, Quiet, RowType
  <1>RebuildMark. CASE RebuildMark(p)
    BY <1>RebuildMark, <1>a, <1>b, <1>c, <1>d, <1>e, Moves, Ends
    DEF RebuildMark, Rebuild, Handle, AtWork, At, env, Write, Quiet, RowType
  <1>RebuildHost. CASE RebuildHost(p)
    BY <1>RebuildHost, <1>a, <1>b, <1>c, <1>d, <1>e, Moves, Ends
    DEF RebuildHost, HandleAny, AtWork, At, env, Rebuilds, SetHost, Quiet, RowType
  <1>TerminateBegin. CASE TerminateBegin(p)
    BY <1>TerminateBegin, <1>a, <1>b, <1>c, <1>d, <1>e, Moves, Ends
    DEF TerminateBegin, HandleAny, AtWork, At, env, Terminates, DestroyServer, Faults,
        row, Quiet, RowType
  <1>TerminateSave. CASE TerminateSave(p)
    BY <1>TerminateSave, <1>a, <1>b, <1>c, <1>d, <1>e, Moves, Ends
    DEF TerminateSave, AtWork, At, Write, env, Quiet, RowType
  <1>TerminatePurge. CASE TerminatePurge(p)
    BY <1>TerminatePurge, <1>a, <1>b, <1>c, <1>d, <1>e, Moves, Ends
    DEF TerminatePurge, AtWork, At, Destroy, env, Quiet, RowType
  <1>TerminateFailed. CASE TerminateFailed(p)
    BY <1>TerminateFailed, <1>a, <1>b, <1>c, <1>d, <1>e, Moves, Ends
    DEF TerminateFailed, AtWork, At, Write, env, Quiet, RowType
  <1> QED
    BY <1>Request, <1>DeleteMark, <1>DestroyUnhosted, <1>DeleteCast, <1>DeleteLocal,
       <1>LocalSave, <1>LocalDestroy, <1>UnshelveShelved, <1>UnshelveOffloaded,
       <1>StopBegin, <1>PowerOffStep, <1>DriverStep, <1>SimpleSave, <1>Error,
       <1>Revert, <1>Suspend, <1>Password, <1>PasswordSave, <1>SnapshotBegin,
       <1>ImageMark, <1>ImageCreate, <1>ImageUpload, <1>ShelveUpload,
       <1>OffloadDestroy, <1>OffloadSave, <1>UnshelveBegin, <1>UnshelveClaim,
       <1>UnshelveSpawn, <1>UnshelveUnclaim, <1>UnshelveSave, <1>RebootBegin,
       <1>RebootStart, <1>RebootFinal, <1>RebuildBegin, <1>RebuildDestroy,
       <1>RebuildBlockDevices, <1>RebuildSpawning, <1>RebuildSpawn, <1>RebuildSave,
       <1>RebuildMark, <1>RebuildHost, <1>TerminateBegin, <1>TerminateSave,
       <1>TerminatePurge, <1>TerminateFailed
    DEF ApiStep, HandlerStep

\* a new request is quiet
LEMMA LoadQuiet ==
  ASSUME TypeOK, RowInv, NoOp({"rebuild", "unshelve"}),
         NEW p \in Slots, NEW o \in Ops, Load(p, o)
  PROVE  p \in Procs /\ Quiet(p)
  <1>1. p \in Procs /\ p # Boot /\ o \in AllOps /\ ControlType
    BY ConstantsAssumption, TypeParts DEF Slots, Ops, Procs, TypeOK
  <1>2. o \notin {"build", "none", "rebuild", "rebuild_stop", "unshelve"}
    BY <1>1, OpNames, ApiTable DEF NoOp, AllOps, Deletes
  <1>3. ~launched => o \in {"delete", "force_delete"}
    BY OpNames DEF Load, Allowed
  <1>4. /\ pc[p] = "idle" /\ pc'[p] = "check" /\ op'[p] = o /\ Alone(p)
        /\ seen'[p].vm = seen[p].vm /\ (seen'[p].host => host)
    BY <1>1 DEF Load, At, ControlType, Seen, Alone
  <1>5. op[p] # "build"
    BY <1>1, <1>4 DEF RowInv, BuildInv, BuildPcs
  <1>6. ~launched => vm \in Young
    BY DEF RowInv, YoungInv
  <1> QED BY <1>1, <1>2, <1>3, <1>4, <1>5, <1>6
      DEF Load, Quiet, row, env, BuildPcs, ApiOnly, Ended

\* init_host is quiet
LEMMA BootQuiet ==
  ASSUME TypeOK, RowInv, InitHost
  PROVE  Quiet(Boot)
  <1>a. RowType /\ ControlType /\ Boot \in Procs
    BY TypeParts, BootProc
  <1>b. op[Boot] \notin {"build", "rebuild", "rebuild_stop", "unshelve"}
    BY <1>a DEF RowInv, OpsInv, BuildInv
  <1>c. ~launched => vm \in Young /\ seen[Boot].vm \in Young
    BY DEF RowInv, YoungInv
  <1>d. Settled(seen[Boot]) /\ seen[Boot].vm \in Young => seen[Boot].task = "deleting"
    BY DEF Settled, Skipped, Unfinished, Young
  <1>e. Blocked => /\ op'[Boot] = "none" /\ pc'[Boot] = "idle" /\ seen'[Boot] = NotSeen
                   /\ Alone(Boot) /\ UNCHANGED row
    BY <1>a, Moves DEF Blocked
  <1>f. "deleting" \notin ImageTasks
    BY DEF ImageTasks
  <1>g. /\ Fresh(Boot).vm = vm' /\ Fresh(Boot).host = host'
        /\ [Fresh(Boot) EXCEPT !.task = "none"].vm = Fresh(Boot).vm
        /\ [Fresh(Boot) EXCEPT !.task = "none"].host = Fresh(Boot).host
    <2>1. seen[Boot] \in Seen
      BY <1>a DEF ControlType
    <2> QED BY <2>1 DEF Fresh, Seen
  <1> USE DEF BuildPcs, ApiOnly, Ended, Young, Gone, NotSeen
  <1>BootSkip. CASE BootSkip
    BY <1>BootSkip, <1>a, <1>b, <1>c, <1>d, <1>e, <1>f, <1>g, Moves, Ends
    DEF BootSkip, Booting, At, env, row, Quiet, RowType
  <1>BootPurge. CASE BootPurge
    BY <1>BootPurge, <1>a, <1>b, <1>c, <1>d, <1>e, <1>f, <1>g, Moves, Ends
    DEF BootPurge, Booting, At, env, row, Quiet, RowType
  <1>BootUnfinished. CASE BootUnfinished
    BY <1>BootUnfinished, <1>a, <1>b, <1>c, <1>d, <1>e, <1>f, <1>g, Moves, Ends
    DEF BootUnfinished, Booting, At, env, BootWrite, Write, row, Quiet, RowType
  <1>BootImage. CASE BootImage
    <2>1. CASE ~exists
      BY <1>BootImage, <2>1, <1>b, <1>c, <1>e DEF BootImage, Booting, At, env, row, Quiet
    <2>2. CASE exists
      <3>1. seen' = [seen EXCEPT ![Boot] = [Fresh(Boot) EXCEPT !.task = "none"]]
            /\ UNCHANGED <<op, pc, mgr>> /\ Write(vm, "none")
        BY <1>BootImage, <2>2 DEF BootImage
      <3>2. Alone(Boot) /\ seen'[Boot].vm = vm' /\ seen'[Boot].host = host'
        <4>1. seen'[Boot] = [Fresh(Boot) EXCEPT !.task = "none"]
          BY <3>1, <1>a DEF ControlType
        <4>2. Alone(Boot)
          BY <3>1, <1>a DEF ControlType, Alone
        <4> QED BY <4>1, <4>2, <1>g
      <3> QED BY <1>BootImage, <2>2, <3>1, <3>2, <1>b, <1>c, <1>d, <1>f
          DEF BootImage, Booting, At, env, Write, Quiet
    <2> QED BY <2>1, <2>2
  <1>BootDelete. CASE BootDelete
    BY <1>BootDelete, <1>a, <1>b, <1>c, <1>d, <1>e, <1>f, <1>g, Moves, Ends
    DEF BootDelete, Booting, At, env, row, Quiet, RowType
  <1>BootNoServer. CASE BootNoServer
    BY <1>BootNoServer, <1>a, <1>b, <1>c, <1>d, <1>e, <1>f, <1>g, Moves, Ends
    DEF BootNoServer, PowerRead, Booting, At, env, row, Quiet, RowType
  <1>BootReboot. CASE BootReboot
    BY <1>BootReboot, <1>a, <1>b, <1>c, <1>d, <1>e, <1>f, <1>g, Moves, Ends
    DEF BootReboot, PowerRead, Booting, At, env, Running, row, Write, Quiet, RowType
  <1>BootClear. CASE BootClear
    BY <1>BootClear, <1>a, <1>b, <1>c, <1>d, <1>e, <1>f, <1>g, Moves, Ends
    DEF BootClear, PowerRead, Booting, At, env, BootWrite, Write, row, Quiet, RowType
  <1>BootResume. CASE BootResume
    BY <1>BootResume, <1>a, <1>b, <1>c, <1>d, <1>e, <1>f, <1>g, Moves, Ends
    DEF BootResume, PowerRead, Booting, At, env, row, Quiet, RowType
  <1>BootLeave. CASE BootLeave
    BY <1>BootLeave, <1>a, <1>b, <1>c, <1>d, <1>e, <1>f, <1>g, Moves, Ends
    DEF BootLeave, PowerRead, Booting, At, env, row, Quiet, RowType
  <1> QED
    BY <1>BootSkip, <1>BootPurge, <1>BootUnfinished, <1>BootImage, <1>BootDelete,
       <1>BootNoServer, <1>BootReboot, <1>BootClear, <1>BootResume, <1>BootLeave DEF InitHost

\* quiet steps keep RowInv
LEMMA RowQuiet ==
  ASSUME TypeOK, TypeOK', RowInv, NEW p \in Procs, Quiet(p)
  PROVE  RowInv'
  <1>a. \A q \in Procs : q = p \/ (op'[q] = op[q] /\ pc'[q] = pc[q] /\ seen'[q] = seen[q])
    BY DEF Quiet, Alone
  <1>b. RowType /\ RowType' /\ Boot \in Procs
    BY TypeParts, TypePartsNext, BootProc
  <1>1. OpsInv'
    BY <1>a DEF RowInv, OpsInv, Quiet
  <1>2. BuildInv'
    BY <1>a, <1>b DEF RowInv, BuildInv, Quiet
  <1>3. YoungInv'
    BY <1>a, <1>b DEF RowInv, YoungInv, Quiet
  <1>4. QueuedInv'
    <2> SUFFICES ASSUME NEW b \in Procs, NEW q \in Procs,
                        op'[b] = "build", pc'[b] \in {"cast", "b_claim"}
                 PROVE  /\ ~host' /\ server' = "none" /\ ~seen'[q].host
                        /\ q # b => pc'[q] \in ApiOnly
      BY DEF QueuedInv
    <2>1. b # p /\ op[b] = "build" /\ pc[b] \in {"cast", "b_claim"}
      BY <1>a DEF Quiet
    <2>2. /\ ~host /\ server = "none" /\ ~seen[q].host /\ ~seen[p].host /\ ~launched
          /\ pc[p] \in ApiOnly /\ (q # b => pc[q] \in ApiOnly)
      BY <2>1 DEF RowInv, QueuedInv, BuildInv
    <2> QED BY <1>a, <2>1, <2>2 DEF Quiet
  <1>5. AloneInv'
    <2> SUFFICES ASSUME NEW b \in Procs, NEW q \in Procs, pc'[b] \in BuildPcs
                 PROVE  mgr' = "up" /\ (q # b => pc'[q] \in ApiOnly \cup {"cast"})
      BY DEF AloneInv
    <2>1. b # p /\ pc[b] \in BuildPcs /\ op[b] = "build" /\ ~launched /\ pc[Boot] = "idle"
      BY <1>a DEF Quiet, RowInv, BuildInv
    <2>2. mgr = "up" /\ pc[p] \in ApiOnly \cup {"cast"}
          /\ (q # b => pc[q] \in ApiOnly \cup {"cast"})
      BY <2>1 DEF RowInv, AloneInv
    <2>3. ~LockFree
      BY <2>1 DEF LockFree, Locked
    <2> QED BY <1>a, <2>1, <2>2, <2>3 DEF Quiet
  <1>6. ClaimInv'
    <2> SUFFICES ASSUME NEW b \in Procs, pc'[b] \in Claimed PROVE exists' /\ host'
      BY DEF ClaimInv
    <2>1. b # p /\ pc[b] \in BuildPcs /\ pc[b] \in Claimed
      BY <1>a DEF Quiet, Claimed, BuildPcs
    <2>2. exists /\ host /\ pc[p] \in ApiOnly \cup {"cast"} /\ ~launched
      BY <2>1 DEF RowInv, ClaimInv, AloneInv, BuildInv
    <2>3. ~LockFree
      BY <2>1 DEF LockFree, Locked
    <2> QED BY <2>2, <2>3 DEF Quiet
  <1>7. OffInv'
    BY <1>a, <1>b DEF RowInv, OffInv, Quiet, Gone, RowType
  <1> QED BY <1>1, <1>2, <1>3, <1>4, <1>5, <1>6, <1>7 DEF RowInv

\* and ServerInv
LEMMA ServerQuiet ==
  ASSUME TypeOK, TypeOK', RowInv, ServerInv, NEW p \in Procs, Quiet(p)
  PROVE  ServerInv'
  <1>a. \A q \in Procs : q = p \/ (op'[q] = op[q] /\ pc'[q] = pc[q] /\ seen'[q] = seen[q])
    BY DEF Quiet, Alone
  <1>b. RowType /\ RowType' /\ Boot \in Procs
    BY TypeParts, TypePartsNext, BootProc
  <1>c. Unmade \subseteq BuildPcs /\ {"b_clean", "b_spawn", "b_save"} \subseteq BuildPcs
    BY DEF Unmade, BuildPcs
  <1>1. MadeInv'
    <2>1. ASSUME NEW b \in Procs, pc'[b] \in {"b_spawn", "b_save"}
          PROVE  task' \in {"spawning", "deleting"}
      <3>1. b # p /\ pc[b] = pc'[b] /\ op[b] = "build" /\ ~launched
        BY <1>a, <1>c, <2>1 DEF Quiet, RowInv, BuildInv
      <3>2. task \in {"spawning", "deleting"}
        BY <2>1, <3>1 DEF ServerInv, MadeInv
      <3>3. pc[p] \in ApiOnly \cup {"cast"} /\ ~LockFree
        BY <1>c, <2>1, <3>1 DEF RowInv, AloneInv, LockFree, Locked
      <3> QED BY <3>1, <3>2, <3>3 DEF Quiet
    <2>2. setting' = setting /\ (server = "none" => server' = "none") /\ pc'[p] \notin BuildPcs
      BY DEF Quiet
    <2> QED BY <1>a, <1>c, <2>1, <2>2 DEF ServerInv, MadeInv, Faults
  <1>2. HostInv'
    BY <1>b DEF ServerInv, HostInv, Quiet, RowType
  <1>3. Calm' => CalmInv'
    <2> SUFFICES ASSUME Calm' PROVE CalmInv'
      OBVIOUS
    <2>1. CalmInv
      BY DEF Quiet, Calm, MaxCrashes, ServerInv
    <2>2. p # Boot
      BY <2>1 DEF CalmInv, Quiet
    <2> QED BY <1>a, <1>b, <2>1, <2>2 DEF CalmInv, Quiet, ServerInv, HostInv, RowType
  <1> QED BY <1>1, <1>2, <1>3 DEF ServerInv

----------------------------------------------------------------------------
(* What a step of the build may do.                                        *)

Making(p) ==
    \* to itself and to the others
    /\ Alone(p) /\ p # Boot /\ mgr = "up" /\ mgr' = mgr
    /\ op[p] = "build" /\ pc[p] \in BuildPcs \cup {"cast"}
    /\ \/ op'[p] = "build" /\ pc'[p] \in BuildPcs /\ launched' = launched
       \/ op'[p] = "none" /\ pc'[p] = "idle"
    /\ seen'[p] \in {seen[p], NotSeen}
    /\ UNCHANGED <<exists, crashes, setting>>
    \* to the row
    /\ vm' \in {vm, "building", "error", "active"}
    /\ ~launched' => vm' # "active" \/ vm' = vm
    /\ host' \in BOOLEAN
    /\ host' => host \/ pc[p] = "b_claim"
    /\ host /\ ~host' => pc[p] \in Unmade /\ server' = server
    /\ pc'[p] = "b_claim" => pc[p] = "cast" /\ host' = host /\ server' = server
    /\ pc'[p] \in Claimed =>
          \/ exists' /\ host' /\ pc[p] = "b_claim"
          \/ exists' = exists /\ host' = host /\ pc[p] \in Claimed
    \* to the server
    /\ server' # server => pc[p] \in {"b_spawn", "b_clean"}
    /\ pc'[p] \in Unmade =>
          \/ server' = server /\ pc[p] \in Unmade \cup {"cast"}
          \/ pc[p] = "b_clean" /\ (server' = "none" \/ "destroy" \in Faults)
          \/ pc[p] = "b_save" /\ task \notin {"spawning", "deleting"}
    /\ pc'[p] = "b_clean" => "spawn" \in Faults
    /\ pc'[p] \in {"b_spawn", "b_save"} =>
          task' = "spawning" \/ (task' = task /\ pc[p] = "b_spawn")

\* the steps of the build
LEMMA BuildMakes ==
  ASSUME TypeOK, RowInv, NEW p \in Procs, BuildStep(p)
  PROVE  Making(p)
  <1>a. RowType /\ ControlType
    BY TypeParts
  <1>b. pc[p] \in BuildPcs => op[p] = "build"
    BY DEF RowInv, BuildInv
  <1>c. op[p] = "build" => p # Boot
    BY DEF RowInv, BuildInv
  <1> USE DEF BuildPcs, Unmade, Claimed
  <1>BuildStart. CASE BuildStart(p)
    BY <1>BuildStart, <1>a, <1>b, <1>c, Moves, Ends
    DEF BuildStart, Build, AtWork, At, env, Matches, Write, row, Making, RowType,
        Works
  <1>BuildClaim. CASE BuildClaim(p)
    <2>1. CASE Go(p, "b_error") /\ UNCHANGED row
      BY <1>BuildClaim, <2>1, <1>a, <1>b, <1>c, Moves
      DEF BuildClaim, Build, AtWork, At, Works, row, env, Making, RowType
    <2>2. CASE SetHost(TRUE) /\ (Go(p, "b_net") \/ End(p))
      <3>1. /\ exists' = exists /\ launched' = launched /\ vm' = vm /\ host' \in BOOLEAN
            /\ exists => host'
            /\ ~exists => host' = host
        BY <2>2, <1>a DEF SetHost, RowType
      <3>2. Go(p, "b_net") => exists
        <4>1. Go(p, "b_net") => ~End(p) /\ ~Go(p, "b_error")
          <5>1. Go(p, "b_net") => pc'[p] = "b_net"
            BY <1>a, Moves
          <5>2. Go(p, "b_error") => pc'[p] = "b_error"
            BY <1>a, Moves
          <5>3. End(p) => pc'[p] = "idle"
            BY <1>a DEF End, Leave, ControlType
          <5> QED BY <5>1, <5>2, <5>3
        <4> QED BY <1>BuildClaim, <4>1 DEF BuildClaim
      <3> QED BY <1>BuildClaim, <2>2, <3>1, <3>2, <1>a, <1>b, <1>c, Moves, Ends
          DEF BuildClaim, Build, AtWork, At, Works, env, Making
    <2> QED BY <1>BuildClaim, <2>1, <2>2 DEF BuildClaim
  <1>BuildNetwork. CASE BuildNetwork(p)
    <2>1. CASE Matches({"none"}) /\ Go(p, "b_bdm") /\ Write("building", "networking")
      BY <1>BuildNetwork, <2>1, <1>a, <1>b, <1>c, Moves
      DEF BuildNetwork, Build, AtWork, At, Works, Write, Matches, env, Making, RowType
    <2>2. CASE Go(p, "b_unclaim") /\ UNCHANGED row
      BY <1>BuildNetwork, <2>2, <1>a, <1>b, <1>c, Moves
      DEF BuildNetwork, Build, AtWork, At, Works, row, env, Making, RowType
    <2>3. CASE ~(Matches({"none"}) /\ Go(p, "b_bdm") /\ Write("building", "networking"))
              /\ ~(Go(p, "b_unclaim") /\ UNCHANGED row)
      <3>1. End(p) /\ exists' = exists /\ launched' = launched /\ vm' \in {vm, "building"}
            /\ host' \in BOOLEAN /\ (host' => host)
        BY <1>BuildNetwork, <2>3, <1>a DEF BuildNetwork, GiveUp, RowType
      <3> QED BY <1>BuildNetwork, <3>1, <1>a, <1>b, <1>c, Ends
          DEF BuildNetwork, Build, AtWork, At, Works, env, Making
    <2> QED BY <2>1, <2>2, <2>3
  <1>BuildBlockDevices. CASE BuildBlockDevices(p)
    BY <1>BuildBlockDevices, <1>a, <1>b, <1>c, Moves, Ends
    DEF BuildBlockDevices, Build, AtWork, At, env, Write, Faults, Making, RowType,
        Works
  <1>BuildSpawning. CASE BuildSpawning(p)
    <2>1. CASE Matches({"block_device_mapping"}) /\ Go(p, "b_spawn") /\ Write("building", "spawning")
      BY <1>BuildSpawning, <2>1, <1>a, <1>b, <1>c, Moves
      DEF BuildSpawning, Build, AtWork, At, Works, Write, Matches, env, Making, RowType
    <2>2. CASE Go(p, "b_unclaim") /\ UNCHANGED row
      BY <1>BuildSpawning, <2>2, <1>a, <1>b, <1>c, Moves
      DEF BuildSpawning, Build, AtWork, At, Works, row, env, Making, RowType
    <2>3. CASE ~(Matches({"block_device_mapping"}) /\ Go(p, "b_spawn") /\ Write("building", "spawning"))
              /\ ~(Go(p, "b_unclaim") /\ UNCHANGED row)
      <3>1. End(p) /\ exists' = exists /\ launched' = launched /\ vm' \in {vm, "building"}
            /\ host' \in BOOLEAN /\ (host' => host)
        BY <1>BuildSpawning, <2>3, <1>a DEF BuildSpawning, GiveUp, RowType
      <3> QED BY <1>BuildSpawning, <3>1, <1>a, <1>b, <1>c, Ends
          DEF BuildSpawning, Build, AtWork, At, Works, env, Making
    <2> QED BY <2>1, <2>2, <2>3
  <1>BuildSpawn. CASE BuildSpawn(p)
    BY <1>BuildSpawn, <1>a, <1>b, <1>c, Moves, Ends
    DEF BuildSpawn, Build, AtWork, At, env, Spawn, Faults, row, Making, RowType, Works
  <1>BuildClean. CASE BuildClean(p)
    BY <1>BuildClean, <1>a, <1>b, <1>c, Moves, Ends
    DEF BuildClean, Build, AtWork, At, env, DestroyServer, Faults, row, Making,
        RowType, Works
  <1>BuildUnclaim. CASE BuildUnclaim(p)
    <2>1. /\ exists' = exists /\ launched' = launched /\ vm' = vm
          /\ host' \in BOOLEAN /\ (host' => host)
      BY <1>BuildUnclaim, <1>a DEF BuildUnclaim, SetHost, RowType
    <2> QED BY <1>BuildUnclaim, <2>1, <1>a, <1>b, <1>c, Moves
        DEF BuildUnclaim, Build, AtWork, At, Works, env, Making
  <1>BuildError. CASE BuildError(p)
    BY <1>BuildError, <1>a, <1>b, <1>c, Moves, Ends
    DEF BuildError, Build, AtWork, At, env, Making, RowType, Works
  <1>BuildSave. CASE BuildSave(p)
    BY <1>BuildSave, <1>a, <1>b, <1>c, Moves, Ends
    DEF BuildSave, Build, AtWork, At, env, Matches, Launch, row, Making, RowType,
        Works
  <1> QED
    BY <1>BuildStart, <1>BuildClaim, <1>BuildNetwork, <1>BuildBlockDevices,
       <1>BuildSpawning, <1>BuildSpawn, <1>BuildClean, <1>BuildUnclaim, <1>BuildError,
       <1>BuildSave DEF BuildStep

\* a step of the build keeps RowInv
LEMMA RowMaking ==
  ASSUME TypeOK, TypeOK', RowInv, NEW p \in Procs, Making(p)
  PROVE  RowInv'
  <1>a. \A q \in Procs : q = p \/ (op'[q] = op[q] /\ pc'[q] = pc[q] /\ seen'[q] = seen[q])
    BY DEF Making, Alone
  <1>b. /\ RowType /\ RowType' /\ Boot \in Procs /\ "cast" \notin BuildPcs
        /\ "idle" \notin BuildPcs /\ "idle" \notin Claimed
    BY TypeParts, TypePartsNext, BootProc DEF BuildPcs, Claimed
  <1>c. /\ ~launched /\ vm \in Young /\ pc[Boot] = "idle"
        /\ seen[Boot].vm \in Young
        /\ \A q \in Procs : op[q] \in {"none", "build", "delete", "force_delete"}
    BY DEF Making, RowInv, BuildInv, YoungInv
  <1>d. \A q \in Procs : q # p => op[q] # "build" /\ pc[q] \notin BuildPcs
    BY DEF Making, RowInv, BuildInv
  <1>1. OpsInv'
    BY <1>a DEF RowInv, OpsInv, Making
  <1>2. BuildInv'
    BY <1>a, <1>b, <1>c, <1>d DEF RowInv, BuildInv, Making
  <1>3. YoungInv'
    BY <1>a, <1>b, <1>c DEF YoungInv, Young, Making, NotSeen
  <1>4. QueuedInv'
    <2> SUFFICES ASSUME NEW b \in Procs, NEW q \in Procs,
                        op'[b] = "build", pc'[b] \in {"cast", "b_claim"}
                 PROVE  /\ ~host' /\ server' = "none" /\ ~seen'[q].host
                        /\ q # b => pc'[q] \in ApiOnly
      BY DEF QueuedInv
    <2>1. b = p
      BY <1>a, <1>d
    <2>2. pc'[p] = "b_claim" /\ pc[p] = "cast" /\ host' = host /\ server' = server
      BY <1>b, <2>1 DEF Making
    <2>3. /\ ~host /\ server = "none" /\ ~seen[q].host
          /\ q # p => pc[q] \in ApiOnly
      BY <2>2 DEF Making, RowInv, QueuedInv
    <2> QED BY <1>a, <2>1, <2>2, <2>3 DEF Making, NotSeen
  <1>5. AloneInv'
    <2> SUFFICES ASSUME NEW b \in Procs, NEW q \in Procs, pc'[b] \in BuildPcs
                 PROVE  mgr' = "up" /\ (q # b => pc'[q] \in ApiOnly \cup {"cast"})
      BY DEF AloneInv
    <2>1. b = p
      BY <1>a, <1>d
    <2>2. q # p => pc[q] \in ApiOnly \cup {"cast"}
      BY DEF Making, RowInv, AloneInv, QueuedInv
    <2> QED BY <1>a, <2>1, <2>2 DEF Making
  <1>6. ClaimInv'
    <2> SUFFICES ASSUME NEW b \in Procs, pc'[b] \in Claimed PROVE exists' /\ host'
      BY DEF ClaimInv
    <2>1. b = p
      BY <1>a, <1>d DEF Claimed, BuildPcs
    <2>2. pc[p] \in Claimed => exists /\ host
      BY DEF RowInv, ClaimInv
    <2> QED BY <2>1, <2>2 DEF Making
  <1>7. OffInv'
    <2>1. vm' # "shelved_offloaded"
      BY <1>c DEF Making, Young
    <2>2. \A q \in Procs : seen'[q].vm # "shelved_offloaded"
      BY <1>a, <1>c DEF Making, RowInv, OffInv, Gone, NotSeen
    <2>3. \A q \in Procs : pc'[q] # "o_save"
      BY <1>a, <1>b, <1>c DEF Making, RowInv, OffInv, BuildPcs
    <2> QED BY <2>1, <2>2, <2>3 DEF OffInv
  <1> QED BY <1>1, <1>2, <1>3, <1>4, <1>5, <1>6, <1>7 DEF RowInv

\* and ServerInv, if no server is forgotten
LEMMA ServerMaking ==
  ASSUME TypeOK, TypeOK', RowInv, NeverForgets, ServerInv, NEW p \in Procs, Making(p)
  PROVE  ServerInv'
  <1>a. \A q \in Procs : q = p \/ (op'[q] = op[q] /\ pc'[q] = pc[q] /\ seen'[q] = seen[q])
    BY DEF Making, Alone
  <1>b. \A q \in Procs : q # p => pc[q] \notin BuildPcs
    BY DEF Making, RowInv, BuildInv
  <1>c. /\ Unmade \subseteq BuildPcs /\ {"b_clean", "b_spawn", "b_save"} \subseteq BuildPcs
        /\ "idle" \notin BuildPcs /\ "cast" \notin BuildPcs
    BY DEF Unmade, BuildPcs
  <1>d. RowType /\ RowType' /\ Boot \in Procs
    BY TypeParts, TypePartsNext, BootProc
  <1>e. pc[p] = "b_clean" => ~("destroy" \in Faults)
    BY DEF ServerInv, MadeInv, NeverForgets
  <1>f. pc[p] \in Unmade \cup {"cast"} => server = "none"
    BY DEF ServerInv, MadeInv, RowInv, QueuedInv, Making
  <1>1. MadeInv'
    <2>1. pc'[p] \in Unmade => server' = "none"
      <3>1. pc[p] = "b_save" => task \in {"spawning", "deleting"}
        BY DEF ServerInv, MadeInv
      <3> QED BY <1>e, <1>f, <3>1 DEF Making
    <2>2. pc'[p] = "b_clean" => "spawn" \in Faults'
      BY DEF Making, Faults
    <2>3. pc'[p] \in {"b_spawn", "b_save"} => task' \in {"spawning", "deleting"}
      BY DEF Making, ServerInv, MadeInv
    <2> QED BY <1>a, <1>b, <1>c, <2>1, <2>2, <2>3 DEF MadeInv
  <1>2. HostInv'
    <2>1. CASE server' = server
      BY <1>d, <1>f, <2>1 DEF HostInv, ServerInv, Making, RowType
    <2>2. CASE server' # server
      <3>1. pc[p] \in Claimed
        BY <2>2 DEF Making, Claimed
      <3> QED BY <2>2, <3>1 DEF HostInv, RowInv, ClaimInv, Making
    <2> QED BY <2>1, <2>2
  <1>3. Calm' => CalmInv'
    <2> SUFFICES ASSUME Calm' PROVE CalmInv'
      OBVIOUS
    <2>1. CalmInv
      BY DEF Making, Calm, MaxCrashes, ServerInv
    <2>2. ~exists' => server' = "none"
      <3>1. ~exists => pc[p] \notin Claimed
        BY DEF RowInv, ClaimInv
      <3> QED BY <2>1, <3>1 DEF CalmInv, Making, Claimed
    <2>3. \A q \in Procs : pc'[q] \in Ended => server' = "none"
      <3>1. pc'[p] \notin Ended
        BY DEF Making, BuildPcs, Ended
      <3>2. ASSUME NEW q \in Procs, pc'[q] \in Ended PROVE server' = "none"
        <4>1. q # p /\ pc[q] \in Ended
          BY <1>a, <3>1, <3>2
        <4>2. pc[q] \notin ApiOnly \cup {"cast"}
          BY <4>1 DEF Ended, ApiOnly
        <4> QED BY <4>1, <4>2 DEF Making, RowInv, QueuedInv, AloneInv
      <3> QED BY <3>2
    <2>4. mgr' = "up" /\ crashes' = 0 /\ pc'[Boot] = "idle"
      BY <1>a, <1>d, <2>1 DEF CalmInv, Making
    <2> QED BY <2>2, <2>3, <2>4 DEF CalmInv
  <1> QED BY <1>1, <1>2, <1>3 DEF ServerInv

----------------------------------------------------------------------------
(* Restarts, and the theorems.                                             *)

\* a crash keeps both: handlers die, requests and messages stay
LEMMA CrashStep ==
  ASSUME TypeOK, TypeOK', Crash
  PROVE  /\ RowInv => RowInv'
         /\ RowInv /\ ServerInv => ServerInv'
         /\ setting' = setting
  <1>a. \A q \in Procs :
           \/ /\ op'[q] = op[q] /\ pc'[q] = pc[q] /\ seen'[q] = seen[q]
              /\ q # Boot /\ pc[q] \in ApiPcs \cup Queued
           \/ op'[q] = "none" /\ pc'[q] = "idle" /\ seen'[q] = NotSeen
    BY DEF Crash
  <1>b. UNCHANGED row /\ server' = server /\ setting' = setting /\ mgr' = "down"
    BY DEF Crash
  <1>c. /\ \A q \in Procs : pc'[q] \notin BuildPcs \cup {"o_save"}
        /\ Boot \in Procs /\ op'[Boot] = "none" /\ pc'[Boot] = "idle" /\ seen'[Boot] = NotSeen
    BY <1>a, BootProc DEF ApiPcs, Queued, BuildPcs
  <1>d. Claimed \subseteq BuildPcs /\ Unmade \subseteq BuildPcs
        /\ {"b_clean", "b_spawn", "b_save"} \subseteq BuildPcs
    BY DEF Claimed, Unmade, BuildPcs
  <1>1. ASSUME RowInv PROVE RowInv'
    <2>1. OpsInv'
      BY <1>1, <1>a DEF RowInv, OpsInv
    <2>2. BuildInv'
      BY <1>1, <1>a, <1>b, <1>c DEF RowInv, BuildInv, row
    <2>3. YoungInv'
      BY <1>1, <1>a, <1>b, <1>c DEF RowInv, YoungInv, row, Young, NotSeen
    <2>4. QueuedInv'
      BY <1>1, <1>a, <1>b, <1>c DEF RowInv, QueuedInv, row, NotSeen, ApiOnly
    <2>5. AloneInv' /\ ClaimInv'
      BY <1>c, <1>d DEF AloneInv, ClaimInv
    <2>6. OffInv'
      BY <1>1, <1>a, <1>b, <1>c DEF RowInv, OffInv, Gone, row, NotSeen
    <2> QED BY <2>1, <2>2, <2>3, <2>4, <2>5, <2>6 DEF RowInv
  <1>2. ASSUME ServerInv PROVE ServerInv'
    <2>1. MadeInv'
      BY <1>c, <1>d DEF MadeInv
    <2>2. HostInv'
      BY <1>2, <1>b DEF ServerInv, HostInv, row
    <2>3. ~Calm'
      BY <1>b DEF Crash, Calm, MaxCrashes, TypeOK
    <2> QED BY <2>1, <2>2, <2>3 DEF ServerInv
  <1> QED BY <1>1, <1>2, <1>b

\* so does a restart, which finds no build at work
LEMMA RestartStep ==
  ASSUME TypeOK, TypeOK', Restart
  PROVE  /\ RowInv => RowInv'
         /\ RowInv /\ ServerInv => ServerInv'
         /\ setting' = setting
  <1>a. UNCHANGED <<row, server, op>> /\ setting' = setting /\ mgr = "down"
    BY DEF Restart, env
  <1>b. \/ /\ exists /\ host /\ pc'[Boot] = "init" /\ seen'[Boot].vm = vm
           /\ \A q \in Procs \ {Boot} : pc'[q] = pc[q] /\ seen'[q] = seen[q]
        \/ UNCHANGED <<pc, seen>>
    BY BootProc DEF Restart, TypeOK
  <1>c. \A q \in Procs : pc'[q] = pc[q] \/ (q = Boot /\ pc'[q] = "init" /\ exists /\ host)
    BY <1>b
  <1>d. Claimed \subseteq BuildPcs /\ Unmade \subseteq BuildPcs
        /\ {"b_clean", "b_spawn", "b_save"} \subseteq BuildPcs
        /\ "init" \notin BuildPcs
    BY DEF Claimed, Unmade, BuildPcs
  <1>1. ASSUME RowInv PROVE RowInv'
    <2>0. \A q \in Procs : pc'[q] \notin BuildPcs
      BY <1>1, <1>a, <1>c, <1>d DEF RowInv, AloneInv
    <2>1. \A q \in Procs : op[q] = "build" => UNCHANGED <<pc, seen>>
      <3> SUFFICES ASSUME NEW q \in Procs, op[q] = "build", ~(UNCHANGED <<pc, seen>>)
                   PROVE  FALSE
        OBVIOUS
      <3>1. pc[q] = "cast"
        BY <1>1, <1>a DEF RowInv, BuildInv, AloneInv
      <3>2. ~host
        BY <1>1, <3>1 DEF RowInv, QueuedInv
      <3> QED BY <1>b, <3>2
    <2>2. OpsInv'
      BY <1>1, <1>a DEF RowInv, OpsInv
    <2>3. BuildInv'
      BY <1>1, <1>a, <2>0, <2>1 DEF RowInv, BuildInv, row
    <2>4. YoungInv'
      BY <1>1, <1>a, <1>b DEF RowInv, YoungInv, row
    <2>5. QueuedInv'
      <3> SUFFICES ASSUME NEW b \in Procs, NEW q \in Procs,
                          op'[b] = "build", pc'[b] \in {"cast", "b_claim"}
                   PROVE  /\ ~host' /\ server' = "none" /\ ~seen'[q].host
                          /\ q # b => pc'[q] \in ApiOnly
        BY DEF QueuedInv
      <3>1. UNCHANGED <<pc, seen>>
        BY <1>a, <2>1
      <3> QED BY <1>1, <1>a, <3>1 DEF RowInv, QueuedInv, row
    <2>6. AloneInv' /\ ClaimInv'
      BY <2>0, <1>d DEF AloneInv, ClaimInv
    <2>7. OffInv'
      BY <1>1, <1>a, <1>b, <1>c DEF RowInv, OffInv, Gone, row
    <2> QED BY <2>2, <2>3, <2>4, <2>5, <2>6, <2>7 DEF RowInv
  <1>2. ASSUME RowInv, ServerInv PROVE ServerInv'
    <2>1. MadeInv'
      BY <1>2, <1>a, <1>c, <1>d DEF MadeInv, RowInv, AloneInv
    <2>2. HostInv'
      BY <1>2, <1>a DEF ServerInv, HostInv, row
    <2>3. ~Calm'
      BY <1>2, <1>a DEF ServerInv, CalmInv, Calm, MaxCrashes
    <2> QED BY <2>1, <2>2, <2>3 DEF ServerInv
  <1> QED BY <1>1, <1>2, <1>a

\* the setting never changes
LEMMA SettingStep == [Next]_vars => setting' = setting
  <1> SUFFICES ASSUME [Next]_vars PROVE setting' = setting
    OBVIOUS
  <1> USE DEF env
  <1>ApiStep. ASSUME NEW p \in Procs, ApiStep(p) PROVE setting' = setting
    BY <1>ApiStep
    DEF ApiStep, Request, DeleteMark, DestroyUnhosted, DeleteCast, DeleteLocal,
        LocalSave, LocalDestroy, UnshelveShelved, UnshelveOffloaded, Conduct
  <1>BuildStep. ASSUME NEW p \in Procs, BuildStep(p) PROVE setting' = setting
    BY <1>BuildStep
    DEF BuildStep, BuildStart, BuildClaim, BuildNetwork, BuildBlockDevices,
        BuildSpawning, BuildSpawn, BuildClean, BuildUnclaim, BuildError, BuildSave,
        Build
  <1>HandlerStep. ASSUME NEW p \in Procs, HandlerStep(p) PROVE setting' = setting
    BY <1>HandlerStep
    DEF HandlerStep, StopBegin, PowerOffStep, DriverStep, SimpleSave, Error, Revert,
        Suspend, Password, PasswordSave, SnapshotBegin, ImageMark, ImageCreate,
        ImageUpload, ShelveUpload, OffloadDestroy, OffloadSave, UnshelveBegin,
        UnshelveClaim, UnshelveSpawn, UnshelveUnclaim, UnshelveSave, RebootBegin,
        RebootStart, RebootFinal, RebuildBegin, RebuildDestroy, RebuildBlockDevices,
        RebuildSpawning, RebuildSpawn, RebuildSave, RebuildMark, RebuildHost,
        TerminateBegin, TerminateSave, TerminatePurge, TerminateFailed, Handle,
        HandleAny, Rebuild, Unshelve
  <1>InitHost. InitHost => setting' = setting
    BY DEF InitHost, BootSkip, BootPurge, BootUnfinished, BootImage, BootDelete,
        BootNoServer, BootReboot, BootClear, BootResume, BootLeave, Booting, PowerRead
  <1> QED
    BY <1>ApiStep, <1>BuildStep, <1>HandlerStep, <1>InitHost
    DEF Next, Step, Load, Crash, Restart, Rest, vars

\* the invariant holds at the start
LEMMA InvInit == Init => IInv
  <1> SUFFICES ASSUME Init PROVE IInv
    OBVIOUS
  <1>1. TypeOK
    BY TypeInit
  <1>2. /\ op = [p \in Procs |-> IF p = Builder THEN "build" ELSE "none"]
        /\ pc = [p \in Procs |-> IF p = Builder THEN "cast" ELSE "idle"]
    BY DEF Init
  <1>3. Builder # Boot /\ Builder \in Procs /\ Boot \in Procs
    BY ConstantsAssumption DEF Init, Builder, Procs
  <1>4. seen = [p \in Procs |-> NotSeen] /\ seen[Boot].vm \in Young
    BY <1>3 DEF Init, NotSeen, Young
  <1>5. OpsInv /\ BuildInv
    BY <1>2, <1>3 DEF Init, OpsInv, BuildInv, BuildPcs
  <1>6. YoungInv /\ QueuedInv
    BY <1>2, <1>3, <1>4 DEF Init, YoungInv, QueuedInv, Young, ApiOnly, NotSeen
  <1>7. AloneInv /\ ClaimInv /\ OffInv
    BY <1>2, <1>3, <1>4 DEF Init, AloneInv, ClaimInv, OffInv, BuildPcs, Claimed, NotSeen
  <1>8. ServerInv
    BY <1>2, <1>3 DEF Init, ServerInv, MadeInv, HostInv, CalmInv, Unmade, Ended
  <1> QED BY <1>1, <1>5, <1>6, <1>7, <1>8 DEF IInv, RowInv

\* and is inductive
LEMMA InvStep == IInv /\ [Next]_vars => IInv'
  <1> SUFFICES ASSUME IInv, [Next]_vars PROVE IInv'
    OBVIOUS
  <1>1. TypeOK /\ TypeOK'
    BY TypeStep DEF IInv
  <1>2. NeverForgets => NoOp({"rebuild", "unshelve"})
    BY DEF NeverForgets
  <1>3. ASSUME NoOp({"rebuild", "unshelve"}), NEW p \in Procs, Quiet(p) \/ Making(p)
        PROVE  IInv'
    <2>1. RowInv
      BY <1>3 DEF IInv
    <2>2. RowInv'
      BY <1>1, <1>3, <2>1, RowQuiet, RowMaking
    <2>3. setting' = setting
      BY <1>3 DEF Quiet, Making
    <2>4. ASSUME NeverForgets' PROVE ServerInv'
      <3>1. NeverForgets
        BY <2>3, <2>4 DEF NeverForgets, NoOp, Ops, Faults
      <3>2. ServerInv
        BY <3>1 DEF IInv
      <3> QED BY <1>1, <1>3, <2>1, <3>1, <3>2, ServerQuiet, ServerMaking
    <2> QED BY <1>1, <2>2, <2>4 DEF IInv
  <1>4. CASE Crash \/ Restart
    <2>1. setting' = setting
      BY <1>1, <1>4, CrashStep, RestartStep
    <2>2. /\ NeverForgets' <=> NeverForgets
          /\ NoOp({"rebuild", "unshelve"})' <=> NoOp({"rebuild", "unshelve"})
      BY <2>1 DEF NeverForgets, NoOp, Ops, Faults
    <2>3. /\ RowInv => RowInv'
          /\ RowInv /\ ServerInv => ServerInv'
      BY <1>1, <1>4, CrashStep, RestartStep
    <2> QED BY <1>1, <1>2, <2>2, <2>3 DEF IInv
  <1>5. CASE UNCHANGED vars
    <2> USE <1>5 DEF vars, row, env
    <2>1. /\ NeverForgets' <=> NeverForgets
          /\ NoOp({"rebuild", "unshelve"})' <=> NoOp({"rebuild", "unshelve"})
      BY DEF NeverForgets, NoOp, Ops, Faults
    <2>2. RowInv => RowInv'
      BY DEF RowInv, OpsInv, BuildInv, YoungInv, QueuedInv, AloneInv, ClaimInv, OffInv, Gone
    <2>3. ServerInv => ServerInv'
      BY DEF ServerInv, MadeInv, HostInv, CalmInv, Calm, MaxCrashes, Faults
    <2> QED BY <1>1, <2>1, <2>2, <2>3 DEF IInv
  <1>6. CASE ~NoOp({"rebuild", "unshelve"}) /\ setting' = setting
    <2>1. ~NoOp({"rebuild", "unshelve"})' /\ ~NeverForgets'
      BY <1>6 DEF NoOp, NeverForgets, Ops
    <2> QED BY <1>1, <2>1 DEF IInv
  <1>7. ASSUME NoOp({"rebuild", "unshelve"}), ~(Crash \/ Restart), ~UNCHANGED vars
        PROVE  \E p \in Procs : Quiet(p) \/ Making(p)
    <2>1. RowInv
      BY <1>7 DEF IInv
    <2>2. ASSUME NEW p \in Slots, NEW o \in Ops, Load(p, o) PROVE p \in Procs /\ Quiet(p)
      BY <1>1, <1>7, <2>1, <2>2, LoadQuiet
    <2>3. ASSUME NEW p \in Procs, ApiStep(p) \/ HandlerStep(p) PROVE Quiet(p)
      BY <1>1, <2>1, <2>3, HandlerQuiet
    <2>4. ASSUME NEW p \in Procs, BuildStep(p) PROVE Making(p)
      BY <1>1, <2>1, <2>4, BuildMakes
    <2>5. InitHost => Quiet(Boot)
      BY <1>1, <2>1, BootQuiet
    <2> QED BY <1>7, <2>2, <2>3, <2>4, <2>5, BootProc DEF Next, Step, Rest
  <1>8. CASE ~NoOp({"rebuild", "unshelve"}) /\ setting' # setting
    BY <1>8, SettingStep
  <1> QED BY <1>3, <1>4, <1>5, <1>6, <1>7, <1>8

\* The row of an instance, its build, its requests and its server agree, in every
\* setting without rebuild and unshelve.
THEOREM InvCorrect == Spec => []IInv
  BY InvInit, InvStep, PTL DEF Spec

\* An instance that is shelved_offloaded has neither host nor server, whatever
\* fails and also after restarts.
THEOREM OffloadedCorrect == Spec => []OffloadedIsGone
  <1>1. IInv => OffloadedIsGone
    BY DEF IInv, RowInv, OffInv, Gone, OffloadedIsGone
  <1> QED BY <1>1, InvCorrect, PTL

\* A server belongs to an instance with a host, whatever fails and whenever the
\* manager dies.
THEOREM HostedCorrect == Spec => []HostedServer
  <1>1. IInv => HostedServer
    BY DEF IInv, ServerInv, HostInv, HostedServer
  <1> QED BY <1>1, InvCorrect, PTL

\* Without restarts, the provider has no server of an instance whose row is gone.
THEOREM NoOrphanCorrect == Spec => []NoOrphanServer
  <1>1. IInv => NoOrphanServer
    BY DEF IInv, ServerInv, CalmInv, NoOrphanServer
  <1> QED BY <1>1, InvCorrect, PTL
=============================================================================
