----------------------- MODULE InstanceWorker_proofs -----------------------
(***************************************************************************)
(* Proofs about InstanceTask: who works on the instance without restarts   *)
(* (OneWorker, TaskHasWorker) and what a finished work leaves behind       *)
(* (QuietAgrees), for any number of requests.                              *)
(* The argument: a request admitted by its compare-and-swap leaves a task  *)
(* that only its own saves expect, until it ends or a delete comes in; a   *)
(* delete that is not ignored as a second one destroys the row.            *)
(***************************************************************************)
EXTENDS InstanceTask_proofs

Orderly == /\ Calm /\ NoFault({"destroy"})
           /\ NoOp({"rebuild", "hard_reboot", "soft_delete", "restore", "unshelve"})

\* the operations but for the deletes, where their handlers stand
Users   == {"stop", "start", "pause", "unpause", "suspend", "rescue", "unrescue",
            "password", "snapshot", "backup", "shelve", "offload", "soft_reboot"}
UserPcs == {"cast", "off", "driver", "save", "error", "revert", "mark", "image", "upload",
            "o_destroy", "o_save", "started", "final"}
Serves(p) == op[p] \in Users /\ pc[p] \in UserPcs

\* and the deletes
DeletePcs   == {"check", "route", "local", "local_destroy", "cast", "deleted", "purge"}
Removing    == {"local", "local_destroy", "deleted", "purge"}
DeleteTasks == {"deleting", "soft-deleting"}

----------------------------------------------------------------------------
(* The invariant.                                                          *)

ShapeInv == \A p \in Procs :
    \/ op[p] = "none" /\ pc[p] = "idle"
    \/ op[p] \in Users /\ pc[p] \in UserPcs \cup {"check"}
    \/ op[p] \in Terminates /\ pc[p] \in DeletePcs
    \/ op[p] = "build"

\* what was asked for; a shelve may go on as an offload
OfferInv == \A p \in Procs : op[p] \in Users => op[p] \in Ops \cup {"offload"}

\* a delete that is about to destroy the row has seen its host
FinishInv == \A p \in Procs :
    pc[p] \in {"purge", "local_destroy"} => (host => seen[p].host)

\* until a delete finishes, one request at a time is served, and has a task
Live   == exists /\ \A d \in Procs : ~Finishing(d)
OneInv == Live => \A p, q \in Procs : Serves(p) => task # "none" /\ (Serves(q) => q = p)

\* a delete that destroys the row, whatever the others do
Committed(d) ==
    /\ op[d] \in Terminates
    /\ \/ pc[d] \in Removing \cup {"cast"}
       \/ pc[d] = "route" /\ seen[d].task \notin DeleteTasks
Doomed == \E d \in Procs : Committed(d)

\* a delete is ignored only beside one that is committed
DoomInv == exists =>
    /\ task \in DeleteTasks => Doomed
    /\ \A p \in Procs :
          op[p] \in Terminates /\ pc[p] \in {"check", "route"}
          /\ seen[p].task \in DeleteTasks => Doomed

\* the handler of o at s can save its outcome over the task t, or clears any task
Wants(o, s, t) ==
    \/ s \in {"error", "revert", "started", "final"} \/ o = "suspend"
    \/ o \in DOMAIN Simple /\ t \in Simple[o].from
    \/ o = "password" /\ t = "updating_password"
    \/ o = "soft_reboot" /\ t \in SoftReboots
    \/ o = "offload" /\ t \in {"shelving", "shelving_offloading"}
    \/ o = "snapshot" /\ s = "cast" /\ t = "image_snapshot_pending"
    \/ o = "shelve" /\ s = "upload" /\ t = "shelving"
    \/ /\ o \in DOMAIN ImageHandler
       /\ \/ s = "cast" /\ o # "snapshot" /\ t = ImageHandler[o].first
          \/ s = "mark" /\ t = ImageHandler[o].first
          \/ s = "image" /\ t = ImageHandler[o].pending
          \/ s = "upload" /\ t = ImageHandler[o].uploading
Expects(p) == Wants(op[p], pc[p], task)
Builds(p)  == op[p] = "build" /\ (pc[p] = "cast" => task = "scheduling")

\* a task is somebody's
OwnInv ==
    exists /\ task # "none" /\ vm # "error" =>
        Doomed \/ \E p \in Procs : (Serves(p) /\ Expects(p)) \/ Builds(p)

\* the server of an instance with the vm_state v when the handler of o is at s
Stands(o, s, v, n) ==
    /\ \/ s \in {"cast", "off", "revert"} \/ o \in {"snapshot", "backup"}
       \/ o = "stop" /\ s = "driver"
       => n \in ServersOf(v)
    /\ s = "save" => n \in ServersOf(Simple[o].vm)
    /\ \/ o = "rescue" /\ s = "driver"
       \/ s = "o_destroy"
       \/ o = "shelve" /\ s \in {"mark", "image", "upload"}
       => n = "shutoff"
    /\ s = "o_save" => n = "none"
Stage(p) == Stands(op[p], pc[p], vm, server)

\* nobody removes the instance
Intact == exists /\ \A d \in Procs : pc[d] \notin Removing

\* the row and the server agree, but for the work in progress and what is left
\* of one that a delete has preempted
AgreeInv == Intact =>
    /\ \A p \in Procs : Serves(p) => (task = "deleting" \/ Expects(p)) /\ Stage(p)
    /\ \A p \in Procs : pc[p] = "b_save" => server = "active"
    /\ (\A p \in Procs : ~Serves(p) /\ op[p] # "build") /\ task = "none"
       => server \in ServersOf(vm)

Guarded == NoOp({"suspend", "password"})
Driven  == NoOp({"suspend", "password", "soft_reboot"}) /\ NoFault({"driver", "image"})

WorkInv == Orderly =>
    /\ ShapeInv /\ OfferInv /\ FinishInv
    /\ Guarded => OneInv
    /\ NoFault({"cast"}) => DoomInv /\ OwnInv
    /\ Driven => AgreeInv

----------------------------------------------------------------------------
(* Tables.                                                                 *)

Special == DeleteTasks \cup {"none"}

\* the requests and the tasks their handlers expect
LEMMA UserTable ==
    /\ Users \subseteq DOMAIN Api /\ Users \cap Terminates = {}
    /\ "none" \notin Users \cup Terminates /\ "build" \notin Users \cup Terminates
    /\ \A o \in Users : Api[o].to \notin Special /\ Wants(o, "cast", Api[o].to)
    /\ \A o \in Users : Api[o].from = {"none"}
    /\ Wants("offload", "cast", Api["shelve"].to)
  <1>1. Users \subseteq DOMAIN Api /\ Users \cap Terminates = {}
    BY ApiTable DEF Users, Terminates
  <1>2. "none" \notin Users \cup Terminates /\ "build" \notin Users \cup Terminates
    BY DEF Users, Terminates
  <1> USE DEF Api, Check, StopApi, StartApi, PauseApi, UnpauseApi, SuspendApi, RescueApi,
      UnrescueApi, PasswordApi, SnapshotApi, BackupApi, ShelveApi, OffloadApi, RestoreApi,
      SoftRebootApi
  <1>3. \A o \in Users : Api[o].to \notin Special
    BY DEF Users, Special, DeleteTasks
  <1>4. \A o \in Users : Api[o].from = {"none"}
    BY DEF Users
  <1>5. \A o \in Users \cap DOMAIN Simple : Wants(o, "cast", Api[o].to)
    <2>1. \A o \in Users \cap DOMAIN Simple : Api[o].to \in Simple[o].from
      BY SimpleTable DEF Users, Simple, StopHandler, StartHandler, PauseHandler,
         UnpauseHandler, RescueHandler, UnrescueHandler, RestoreHandler, Final
    <2> QED BY <2>1 DEF Wants
  <1>6. \A o \in Users \ DOMAIN Simple : Wants(o, "cast", Api[o].to)
    <2>1. \A o \in Users \ DOMAIN Simple :
             o \in {"suspend", "password", "snapshot", "backup", "shelve", "offload",
                    "soft_reboot"}
      BY SimpleTable DEF Users
    <2>2. /\ Wants("suspend", "cast", Api["suspend"].to)
          /\ Wants("password", "cast", Api["password"].to)
          /\ Wants("snapshot", "cast", Api["snapshot"].to)
          /\ Wants("offload", "cast", Api["offload"].to)
          /\ Wants("soft_reboot", "cast", Api["soft_reboot"].to)
      BY DEF Wants, SoftReboots
    <2>3. /\ Wants("backup", "cast", Api["backup"].to)
          /\ Wants("shelve", "cast", Api["shelve"].to)
      BY OtherTables DEF Wants, ImageHandler
    <2> QED BY <2>1, <2>2, <2>3
  <1>7. Wants("offload", "cast", Api["shelve"].to)
    BY DEF Wants
  <1> QED BY <1>1, <1>2, <1>3, <1>4, <1>5, <1>6, <1>7

\* the tasks the handlers save on the way
LEMMA TaskTable ==
    /\ \A o \in DOMAIN ImageHandler :
          /\ ImageHandler[o].pending \notin Special /\ ImageHandler[o].uploading \notin Special
          /\ o # "snapshot" => Wants(o, "cast", ImageHandler[o].first)
          /\ Wants(o, "mark", ImageHandler[o].first)
          /\ Wants(o, "image", ImageHandler[o].pending)
          /\ Wants(o, "upload", ImageHandler[o].uploading)
    /\ ImageHandler["snapshot"].first = "image_snapshot"
    /\ Reboots = {"soft_reboot", "hard_reboot"}
    /\ RebootTask["soft_reboot"].family = SoftReboots
    /\ RebootTask["soft_reboot"].pending \notin Special
    /\ RebootTask["soft_reboot"].started \notin Special
  <1>1. \A o \in DOMAIN ImageHandler :
          ImageHandler[o].pending \notin Special /\ ImageHandler[o].uploading \notin Special
    BY OtherTables DEF ImageHandler, Special, DeleteTasks
  <1>2. \A o \in DOMAIN ImageHandler :
          /\ o # "snapshot" => Wants(o, "cast", ImageHandler[o].first)
          /\ Wants(o, "mark", ImageHandler[o].first)
          /\ Wants(o, "image", ImageHandler[o].pending)
          /\ Wants(o, "upload", ImageHandler[o].uploading)
    BY DEF Wants
  <1>3. ImageHandler["snapshot"].first = "image_snapshot"
    BY DEF ImageHandler
  <1>4. /\ Reboots = {"soft_reboot", "hard_reboot"}
        /\ RebootTask["soft_reboot"].family = SoftReboots
        /\ RebootTask["soft_reboot"].pending \notin Special
        /\ RebootTask["soft_reboot"].started \notin Special
    BY DEF Reboots, RebootTask, Special, DeleteTasks
  <1> QED BY <1>1, <1>2, <1>3, <1>4

----------------------------------------------------------------------------
(* What a step does, by the kind of work.                                  *)

ServeEffect(p) ==
    /\ Alone(p) /\ Serves(p)
    /\ UNCHANGED <<exists, launched, setting>> /\ (host' => host)
    /\ Serves(p)' \/ (op'[p] = "none" /\ pc'[p] = "idle")
    /\ op'[p] \in {op[p], "offload", "none"}
    /\ exists =>
          \* it goes on
          \/ Serves(p)' /\ task' = task /\ vm' \in {vm, "error"} /\ (Expects(p) => Expects(p)')
          \* it saves a task of its own
          \/ Serves(p)' /\ Expects(p) /\ task' \notin Special /\ Expects(p)'
          \* it clears the task
          \/ task' = "none" /\ (pc'[p] = "idle" \/ op[p] \in {"suspend", "password"})
          \* it is preempted
          \/ pc'[p] = "idle" /\ ~Expects(p) /\ task' = task /\ vm' = vm
          \/ pc'[p] = "idle" /\ task' \notin Special /\ vm' = "error"

\* the handlers of the requests
LEMMA ServeStep ==
  ASSUME TypeOK, NEW p \in Procs, Serves(p), Step(p)
  PROVE  ServeEffect(p)
  <1>a. RowType /\ ControlType
    BY TypeParts
  <1>b. op[p] \in Users /\ pc[p] \in UserPcs
    BY DEF Serves
  <1>c. op[p] \notin {"rebuild", "rebuild_stop", "hard_reboot", "build", "none", "delete",
                      "force_delete", "soft_delete", "unshelve"}
    BY <1>b DEF Users
  <1> USE DEF Users, UserPcs, Serves, Special, DeleteTasks, Expects
  <1>StopBegin. CASE StopBegin(p)
    <2>1. op[p] = "stop" /\ pc[p] = "cast"
      BY <1>StopBegin, <1>c DEF StopBegin, Handle, AtWork, At
    <2>2. op'[p] = "stop" /\ pc'[p] \in {"revert", "driver"} /\ Alone(p)
      BY <1>StopBegin, <2>1, <1>a, Moves DEF StopBegin, ControlType, Seen, Alone
    <2>3. UNCHANGED <<row, server, env>>
      BY <1>StopBegin DEF StopBegin, Handle
    <2>4. "stop" \notin DOMAIN ImageHandler
      BY OtherTables
    <2> QED BY <2>1, <2>2, <2>3, <2>4 DEF row, env, ServeEffect, Wants
  <1>PowerOffStep. CASE PowerOffStep(p)
    <2>1. op[p] \in {"rescue", "shelve", "offload"} /\ pc[p] \in {"cast", "off"}
      BY <1>PowerOffStep, <1>c DEF PowerOffStep, HandleAny, AtWork, At
    <2>2. /\ op'[p] = op[p] /\ Alone(p)
          /\ pc'[p] \in {"error", "revert"} \/ (op[p] = "rescue" /\ pc'[p] = "driver")
             \/ (op[p] = "shelve" /\ pc[p] = "cast" /\ pc'[p] = "mark")
             \/ (op[p] = "offload" /\ pc'[p] = "o_destroy")
      BY <1>PowerOffStep, <2>1, <1>a, Moves DEF PowerOffStep, HandleAny, AtWork, At, CallDriver, Fail
    <2>3. UNCHANGED <<row, env>>
      BY <1>PowerOffStep DEF PowerOffStep, HandleAny
    <2>4. /\ "rescue" \notin DOMAIN ImageHandler /\ "offload" \notin DOMAIN ImageHandler
          /\ "shelve" \notin DOMAIN Simple /\ "offload" \notin DOMAIN Simple
      BY SimpleTable, OtherTables
    <2>5. Expects(p) => Expects(p)'
      BY <2>1, <2>2, <2>3, <2>4 DEF row, Wants
    <2> HIDE DEF Expects
    <2> QED BY <2>1, <2>2, <2>3, <2>5 DEF row, env, ServeEffect
  <1>DriverStep. CASE DriverStep(p)
    <2>1. op[p] \in DOMAIN Simple
      BY <1>DriverStep, <1>c, SimpleTable DEF DriverStep, HandleAny, OneCall
    <2>2. op'[p] = op[p] /\ Alone(p) /\ pc'[p] \in {"error", "revert", "save"}
      BY <1>DriverStep, <1>a, Moves DEF DriverStep, CallDriver, Fail
    <2>3. UNCHANGED <<row, env>> /\ pc[p] \in {"cast", "driver"}
      BY <1>DriverStep DEF DriverStep, HandleAny, AtWork, At
    <2>4. op[p] \notin DOMAIN ImageHandler \cup {"snapshot"}
      BY <2>1, SimpleTable, OtherTables
    <2>5. Expects(p) => Expects(p)'
      BY <2>1, <2>2, <2>3, <2>4 DEF row, Wants
    <2> HIDE DEF Expects
    <2> QED BY <1>b, <1>c, <2>2, <2>3, <2>5 DEF row, env, ServeEffect
  <1>SimpleSave. CASE SimpleSave(p)
    <2>1. op[p] \in DOMAIN Simple /\ op[p] \notin DOMAIN ImageHandler /\ pc[p] = "save"
      BY <1>SimpleSave, SimpleTable, OtherTables DEF SimpleSave, HandleAny, AtWork, At
    <2>2. op[p] \notin {"suspend", "password", "soft_reboot", "offload", "snapshot"}
      BY <2>1, SimpleTable
    <2>3. Expects(p) <=> task \in Simple[op[p]].from
      BY <2>1, <2>2 DEF Wants
    <2>4. setting' = setting
      BY <1>SimpleSave DEF SimpleSave, HandleAny, env
    <2>5. \A t : Wants(op[p], "revert", t)
      BY DEF Wants
    <2>6. CASE Go(p, "revert") /\ UNCHANGED row
      BY <2>4, <2>5, <2>6, <1>a, <1>b, Moves DEF row, ServeEffect
    <2>7. CASE EndRaised(p) /\ \E v : Write(v, "none")
      BY <2>4, <2>7, <1>a, <1>b, Ends DEF Write, ServeEffect
    <2>8. CASE \E v, from : Simple[op[p]].from \subseteq from /\ FinalCAS(p, from, v, "none")
      <3> HIDE DEF Expects
      <3>1. EndRaised(p) \/ End(p)
        BY <2>8 DEF FinalCAS, Preempted
      <3>2. (\E v : Write(v, "none")) \/ (UNCHANGED row /\ (exists => ~Expects(p)))
        BY <2>3, <2>8, <1>c DEF FinalCAS, Preempted, Rebuilds, Matches
      <3> QED BY <2>4, <3>1, <3>2, <1>a, <1>b, Ends DEF Write, row, ServeEffect
    <2> QED BY <1>SimpleSave, <1>c, <2>6, <2>7, <2>8 DEF SimpleSave
  <1>Error. CASE Error(p)
    BY <1>Error, <1>a, <1>b, Moves DEF Error, AtWork, At, Write, env, ServeEffect, Wants
  <1>Revert. CASE Revert(p)
    BY <1>Revert, <1>a, <1>b, <1>c, Ends DEF Revert, AtWork, At, Write, env, ServeEffect
  <1>Suspend. CASE Suspend(p)
    BY <1>Suspend, <1>a, <1>b, Moves DEF Suspend, Handle, AtWork, At, env, Write, ServeEffect
  <1>Password. CASE Password(p)
    <2>1. "password" \notin DOMAIN Simple \cup DOMAIN ImageHandler
      BY SimpleTable, OtherTables
    <2> QED BY <1>Password, <2>1, <1>a, <1>b, <1>c, Moves, Ends
        DEF Password, Handle, AtWork, At, env, row, Running, CAS, Matches, Write, Preempted,
            Rebuilds, ServeEffect, Wants
  <1>PasswordSave. CASE PasswordSave(p)
    <2>1. "password" \notin DOMAIN Simple \cup DOMAIN ImageHandler
      BY SimpleTable, OtherTables
    <2> QED BY <1>PasswordSave, <2>1, <1>a, <1>b, <1>c, Moves, Ends
        DEF PasswordSave, Handle, AtWork, At, env, FinalCAS, Matches, Write, Preempted,
            Rebuilds, row, ServeEffect, Wants
  <1>SnapshotBegin. CASE SnapshotBegin(p)
    <2>1. "snapshot" \notin DOMAIN Simple
      BY SimpleTable
    <2>2. Wants("snapshot", "mark", "image_snapshot")
      BY TaskTable, OtherTables
    <2>3. \A t : Wants("snapshot", "cast", t) <=> t = "image_snapshot_pending"
      BY <2>1 DEF Wants
    <2> QED BY <1>SnapshotBegin, <2>2, <2>3, <1>a, <1>b, <1>c, Moves, Ends
        DEF SnapshotBegin, Handle, AtWork, At, env, CAS, Matches, Write, Preempted,
            Rebuilds, row, ServeEffect
  <1>ImageMark. CASE ImageMark(p)
    <2>1. /\ op[p] \in DOMAIN ImageHandler
          /\ pc[p] = "mark" \/ (pc[p] = "cast" /\ op[p] = "backup")
      BY <1>ImageMark, OtherTables DEF ImageMark, HandleAny, Handle, AtWork, At
    <2>2. Expects(p) <=> task = ImageHandler[op[p]].first
      BY <2>1, SimpleTable, OtherTables DEF Wants
    <2>3. Wants(op[p], "image", ImageHandler[op[p]].pending)
          /\ ImageHandler[op[p]].pending \notin Special
      BY <2>1, TaskTable
    <2>4. setting' = setting
      BY <1>ImageMark DEF ImageMark, HandleAny, Handle, env
    <2>5. \A t : Wants(op[p], "revert", t)
      BY DEF Wants
    <2> QED BY <1>ImageMark, <2>1, <2>2, <2>3, <2>4, <2>5, <1>a, <1>b, <1>c, Moves, Ends
        DEF ImageMark, row, CAS, Matches, Write, Preempted, Rebuilds, ServeEffect
  <1>ImageCreate. CASE ImageCreate(p)
    <2>1. op[p] \in DOMAIN ImageHandler /\ pc[p] = "image"
      BY <1>ImageCreate, OtherTables DEF ImageCreate, HandleAny, AtWork, At
    <2>2. Expects(p) <=> task = ImageHandler[op[p]].pending
      BY <2>1, SimpleTable, OtherTables DEF Wants
    <2>3. Wants(op[p], "upload", ImageHandler[op[p]].uploading)
          /\ ImageHandler[op[p]].uploading \notin Special
      BY <2>1, TaskTable
    <2>4. setting' = setting
      BY <1>ImageCreate DEF ImageCreate, HandleAny, env
    <2>5. \A t : Wants(op[p], "revert", t)
      BY DEF Wants
    <2> QED BY <1>ImageCreate, <2>1, <2>2, <2>3, <2>4, <2>5, <1>a, <1>b, <1>c, Moves, Ends
        DEF ImageCreate, row, CAS, Matches, Write, Preempted, Rebuilds, ServeEffect
  <1>ImageUpload. CASE ImageUpload(p)
    <2>1. op[p] \in {"snapshot", "backup"} /\ pc[p] = "upload"
      BY <1>ImageUpload DEF ImageUpload, HandleAny, AtWork, At
    <2>2. Expects(p) <=> task = "image_uploading"
      <3>1. op[p] \in DOMAIN ImageHandler
        BY <2>1, OtherTables
      <3>2. ImageHandler[op[p]].uploading = "image_uploading"
        BY <2>1 DEF ImageHandler
      <3> QED BY <2>1, <3>1, <3>2, SimpleTable DEF Wants
    <2>3. setting' = setting
      BY <1>ImageUpload DEF ImageUpload, HandleAny, env
    <2>4. \A t : Wants(op[p], "revert", t)
      BY DEF Wants
    <2> QED BY <1>ImageUpload, <2>1, <2>2, <2>3, <2>4, <1>a, <1>b, <1>c, Moves, Ends
        DEF ImageUpload, row, FinalCAS, Matches, Write, Preempted, Rebuilds, ServeEffect
  <1>ShelveUpload. CASE ShelveUpload(p)
    <2>1. op[p] = "shelve" /\ pc[p] = "upload"
      BY <1>ShelveUpload DEF ShelveUpload, Handle, AtWork, At
    <2>2. Expects(p) <=> task \in {"shelving", "shelving_image_uploading"}
      <3>1. op[p] \in DOMAIN ImageHandler
        BY <2>1, OtherTables
      <3>2. ImageHandler[op[p]].uploading = "shelving_image_uploading"
        BY <2>1 DEF ImageHandler
      <3> QED BY <2>1, <3>1, <3>2, SimpleTable DEF Wants
    <2>3. setting' = setting
      BY <1>ShelveUpload DEF ShelveUpload, Handle, env
    <2>4. \A t : Wants("shelve", "revert", t)
      BY DEF Wants
    <2>5. Wants("offload", "off", "shelving_offloading")
      BY DEF Wants
    <2> HIDE DEF Expects
    <2>6. CASE Become(p, "offload", "off") /\ Matches({"shelving", "shelving_image_uploading"})
               /\ Write("shelved", "shelving_offloading")
      <3>1. op'[p] = "offload" /\ pc'[p] = "off" /\ Alone(p)
        BY <2>6, <1>a, Moves
      <3>2. UNCHANGED <<exists, launched, host>> /\ (exists => task' = "shelving_offloading")
        BY <2>6 DEF Write
      <3>3. exists => Expects(p)'
        BY <3>1, <3>2, <2>5 DEF Expects
      <3>4. Expects(p)
        BY <2>2, <2>6 DEF Matches
      <3> QED BY <2>1, <2>3, <3>1, <3>2, <3>3, <3>4 DEF ServeEffect
    <2>7. CASE Go(p, "revert") /\ UNCHANGED row
      BY <2>1, <2>3, <2>4, <2>7, <1>a, <1>b, Moves DEF row, ServeEffect, Expects
    <2>8. CASE (End(p) \/ EndRaised(p)) /\ Write("shelved", "none")
      BY <2>3, <2>8, <1>a, <1>b, Ends DEF Write, ServeEffect
    <2>9. CASE /\ EndRaised(p) /\ UNCHANGED row
               /\ ~Matches({"shelving", "shelving_image_uploading"})
      BY <2>2, <2>3, <2>9, <1>a, <1>b, Ends DEF row, Matches, ServeEffect
    <2> QED BY <1>ShelveUpload, <2>6, <2>7, <2>8, <2>9 DEF ShelveUpload
  <1>OffloadDestroy. CASE OffloadDestroy(p)
    <2>1. op[p] = "offload" /\ pc[p] = "o_destroy"
      BY <1>OffloadDestroy DEF OffloadDestroy, Handle, AtWork, At
    <2>2. op'[p] = op[p] /\ Alone(p) /\ pc'[p] \in {"o_save", "revert"}
      BY <1>OffloadDestroy, <1>a, Moves DEF OffloadDestroy, DestroyServer
    <2>3. UNCHANGED <<row, env>>
      BY <1>OffloadDestroy DEF OffloadDestroy, Handle
    <2> QED BY <2>1, <2>2, <2>3 DEF row, env, ServeEffect, Wants
  <1>OffloadSave. CASE OffloadSave(p)
    <2>1. op[p] = "offload" /\ pc[p] = "o_save" /\ setting' = setting
      BY <1>OffloadSave DEF OffloadSave, Handle, AtWork, At, env
    <2>2. Expects(p) <=> task \in {"shelving", "shelving_offloading"}
      BY <2>1, SimpleTable, OtherTables DEF Wants
    <2> QED BY <1>OffloadSave, <2>1, <2>2, <1>a, <1>b, Ends
        DEF OffloadSave, Matches, row, ServeEffect
  <1>RebootBegin. CASE RebootBegin(p)
    <2>1. op[p] = "soft_reboot" /\ pc[p] = "cast" /\ setting' = setting
      BY <1>RebootBegin, <1>c, TaskTable DEF RebootBegin, HandleAny, AtWork, At, env
    <2>2. Expects(p) <=> task \in SoftReboots
      BY <2>1, SimpleTable, OtherTables DEF Wants
    <2>3. \A t : Wants("soft_reboot", "revert", t) /\ Wants("soft_reboot", "started", t)
      BY DEF Wants
    <2> QED BY <1>RebootBegin, <2>1, <2>2, <2>3, <1>a, <1>b, Moves, Ends, TaskTable
        DEF RebootBegin, row, Matches, Write, ServeEffect
  <1>RebootStart. CASE RebootStart(p)
    <2>1. op[p] = "soft_reboot" /\ pc[p] = "started" /\ setting' = setting
      BY <1>RebootStart, <1>c, TaskTable DEF RebootStart, HandleAny, AtWork, At, env
    <2>2. \A t : /\ Wants("soft_reboot", "revert", t) /\ Wants("soft_reboot", "started", t)
                 /\ Wants("soft_reboot", "final", t)
      BY DEF Wants
    <2> QED BY <1>RebootStart, <2>1, <2>2, <1>a, <1>b, Moves, Ends, TaskTable
        DEF RebootStart, row, Matches, Write, ServeEffect
  <1>RebootFinal. CASE RebootFinal(p)
    <2>1. op[p] = "soft_reboot" /\ pc[p] = "final" /\ setting' = setting
      BY <1>RebootFinal, <1>c, TaskTable DEF RebootFinal, HandleAny, AtWork, At, env
    <2>2. \A t : Wants("soft_reboot", "revert", t)
      BY DEF Wants
    <2> QED BY <1>RebootFinal, <2>1, <2>2, <1>a, <1>b, Moves, Ends
        DEF RebootFinal, row, Write, ServeEffect
  <1>Api. ~ApiStep(p)
    BY <1>b, <1>c
    DEF ApiStep, Request, DeleteMark, DestroyUnhosted, DeleteCast, DeleteLocal, LocalSave,
        LocalDestroy, UnshelveShelved, UnshelveOffloaded, Conduct, At
  <1>Build. ~BuildStep(p)
    BY <1>b, <1>c
    DEF BuildStep, BuildStart, BuildClaim, BuildNetwork, BuildBlockDevices, BuildSpawning,
        BuildSpawn, BuildClean, BuildUnclaim, BuildError, BuildSave, Build, AtWork, At
  <1>Other. ~(\/ UnshelveBegin(p) \/ UnshelveClaim(p) \/ UnshelveSpawn(p)
              \/ UnshelveUnclaim(p) \/ UnshelveSave(p) \/ RebuildBegin(p)
              \/ RebuildDestroy(p) \/ RebuildBlockDevices(p) \/ RebuildSpawning(p)
              \/ RebuildSpawn(p) \/ RebuildSave(p) \/ RebuildMark(p) \/ RebuildHost(p)
              \/ TerminateBegin(p) \/ TerminateSave(p) \/ TerminatePurge(p)
              \/ TerminateFailed(p))
    BY <1>b, <1>c
    DEF UnshelveBegin, UnshelveClaim, UnshelveSpawn, UnshelveUnclaim, UnshelveSave,
        RebuildBegin, RebuildDestroy, RebuildBlockDevices, RebuildSpawning, RebuildSpawn,
        RebuildSave, RebuildMark, RebuildHost, TerminateBegin, TerminateSave, TerminatePurge,
        TerminateFailed, Unshelve, Rebuild, Rebuilds, Terminates, Handle, HandleAny, AtWork, At
  <1> HIDE DEF Users, UserPcs, Serves, Special, DeleteTasks, Expects
  <1> QED
    BY <1>StopBegin, <1>PowerOffStep, <1>DriverStep, <1>SimpleSave, <1>Error, <1>Revert,
       <1>Suspend, <1>Password, <1>PasswordSave, <1>SnapshotBegin, <1>ImageMark,
       <1>ImageCreate, <1>ImageUpload, <1>ShelveUpload, <1>OffloadDestroy, <1>OffloadSave,
       <1>RebootBegin, <1>RebootStart, <1>RebootFinal, <1>Api, <1>Build, <1>Other
    DEF Step, HandlerStep

BuildEffect(p) ==
    /\ Alone(p) /\ op[p] = "build" /\ pc[p] \in BuildPcs \cup {"cast"}
    /\ UNCHANGED <<exists, setting>>
    /\ host' /\ ~host => pc[p] = "b_claim"
    /\ \/ op'[p] = "build" /\ pc'[p] \in BuildPcs
       \/ op'[p] = "none" /\ pc'[p] = "idle"
    /\ exists /\ task' \in DeleteTasks => task' = task
    /\ exists /\ pc'[p] = "idle" =>
          \* it ends in error, or with the server
          \/ task' = "none" /\ vm' = "error"
          \/ task' = "none" /\ vm' = "active" /\ server' = server /\ pc[p] = "b_save"
          \* it gives up to a delete
          \/ task' # "none" /\ task = "deleting"
          \* the row has another task
          \/ task' # "none" /\ task' = task /\ vm' = vm /\ ~Builds(p)
    /\ pc'[p] = "b_save" => server' = "active"

\* the steps of the build, and what they leave
LEMMA BuildWork ==
  ASSUME TypeOK, RowInv, NEW p \in Procs, BuildStep(p)
  PROVE  BuildEffect(p)
  <1>a. RowType /\ ControlType
    BY TypeParts
  <1>b. /\ Alone(p) /\ op[p] = "build" /\ pc[p] \in BuildPcs \cup {"cast"}
        /\ \/ op'[p] = "build" /\ pc'[p] \in BuildPcs
           \/ op'[p] = "none" /\ pc'[p] = "idle"
        /\ UNCHANGED <<exists, setting>>
        /\ host' /\ ~host => pc[p] = "b_claim"
    BY BuildMakes DEF Making
  <1> USE DEF DeleteTasks
  <1>BuildStart. CASE BuildStart(p)
    <2>1. pc[p] = "cast" /\ pc'[p] # "b_save"
      BY <1>BuildStart, <1>a, Moves, Ends DEF BuildStart, Build, AtWork, At
    <2>2. CASE Matches({"scheduling", "none"}) /\ Write("building", "none") /\ Go(p, "b_claim")
      BY <1>b, <2>1, <2>2, <1>a, Moves DEF Write, BuildEffect
    <2>3. CASE ~Matches({"scheduling", "none"}) /\ End(p) /\ UNCHANGED row
      BY <1>b, <2>1, <2>3 DEF Matches, row, BuildEffect, Builds
    <2> QED BY <1>BuildStart, <2>2, <2>3 DEF BuildStart
  <1>BuildClaim. CASE BuildClaim(p)
    <2>1. UNCHANGED <<vm, task>> /\ pc'[p] \in {"b_net", "idle", "b_error"}
          /\ (exists => pc'[p] # "idle")
      <3>1. UNCHANGED <<vm, task>>
        BY <1>BuildClaim DEF BuildClaim, SetHost, row
      <3>2. (exists /\ Go(p, "b_net")) \/ (~exists /\ End(p)) \/ Go(p, "b_error")
        BY <1>BuildClaim DEF BuildClaim
      <3> QED BY <3>1, <3>2, <1>a, Moves, Ends
    <2> QED BY <1>b, <2>1 DEF BuildEffect
  <1>GiveUp. ASSUME NEW t, t \notin Special, GiveUp(p, t) PROVE BuildEffect(p)
    <2>1. CASE (~exists \/ task = "deleting") /\ End(p) /\ task' = (IF exists THEN t ELSE task)
      BY <1>GiveUp, <2>1, <1>a, <1>b, Ends DEF Special, BuildEffect
    <2>2. CASE UNCHANGED row /\ Go(p, "b_unclaim")
      BY <2>2, <1>a, <1>b, Moves DEF row, BuildEffect
    <2> QED BY <1>GiveUp, <2>1, <2>2 DEF GiveUp
  <1>BuildNetwork. CASE BuildNetwork(p)
    <2>1. CASE Write("building", "networking") /\ Go(p, "b_bdm")
      BY <2>1, <1>a, <1>b, Moves DEF Write, BuildEffect
    <2>2. "networking" \notin Special
      BY DEF Special
    <2> QED BY <1>BuildNetwork, <1>GiveUp, <2>1, <2>2 DEF BuildNetwork
  <1>BuildBlockDevices. CASE BuildBlockDevices(p)
    <2>1. pc'[p] \in {"b_spawning", "b_unclaim", "idle"} /\ (exists => pc'[p] # "idle")
      BY <1>BuildBlockDevices, <1>a, Moves, Ends DEF BuildBlockDevices
    <2>2. exists => task' = "block_device_mapping"
      BY <1>BuildBlockDevices DEF BuildBlockDevices, Write
    <2> QED BY <1>b, <2>1, <2>2 DEF BuildEffect
  <1>BuildSpawning. CASE BuildSpawning(p)
    <2>1. CASE Write("building", "spawning") /\ Go(p, "b_spawn")
      BY <2>1, <1>a, <1>b, Moves DEF Write, BuildEffect
    <2>2. "spawning" \notin Special
      BY DEF Special
    <2> QED BY <1>BuildSpawning, <1>GiveUp, <2>1, <2>2 DEF BuildSpawning
  <1>BuildSpawn. CASE BuildSpawn(p)
    <2>1. UNCHANGED row /\ pc'[p] \in {"b_save", "b_clean"}
          /\ (pc'[p] = "b_save" => server' = "active")
      BY <1>BuildSpawn, <1>a, Moves DEF BuildSpawn, Spawn
    <2> QED BY <1>b, <2>1 DEF row, BuildEffect
  <1>BuildClean. CASE BuildClean(p)
    <2>1. UNCHANGED row /\ pc'[p] = "b_unclaim"
      BY <1>BuildClean, <1>a, Moves DEF BuildClean, DestroyServer
    <2> QED BY <1>b, <2>1 DEF row, BuildEffect
  <1>BuildUnclaim. CASE BuildUnclaim(p)
    <2>1. UNCHANGED <<vm, task>> /\ pc'[p] = "b_error"
      BY <1>BuildUnclaim, <1>a, Moves DEF BuildUnclaim, SetHost
    <2> QED BY <1>b, <2>1 DEF BuildEffect
  <1>BuildError. CASE BuildError(p)
    <2>1. pc'[p] = "idle" /\ (exists => vm' = "error" /\ task' = "none")
      BY <1>BuildError, <1>a, Ends DEF BuildError
    <2> QED BY <1>b, <2>1 DEF BuildEffect
  <1>BuildSave. CASE BuildSave(p)
    <2>1. server' = server /\ pc[p] = "b_save" /\ pc'[p] \in {"idle", "b_error"}
      BY <1>BuildSave, <1>a, Moves, Ends DEF BuildSave, Build, AtWork, At
    <2>2. exists => \/ vm' = "active" /\ task' = "none"
                    \/ pc'[p] = "b_error" /\ UNCHANGED row
      BY <1>BuildSave, <1>a, Moves DEF BuildSave, Launch
    <2> QED BY <1>b, <2>1, <2>2 DEF row, BuildEffect
  <1> QED
    BY <1>BuildStart, <1>BuildClaim, <1>BuildNetwork, <1>BuildBlockDevices, <1>BuildSpawning,
       <1>BuildSpawn, <1>BuildClean, <1>BuildUnclaim, <1>BuildError, <1>BuildSave
    DEF BuildStep

DeleteEffect(p) ==
    /\ Alone(p) /\ op[p] \in Terminates /\ pc[p] \in DeletePcs
    /\ UNCHANGED <<host, launched, setting>> /\ (exists' => exists)
    /\ \/ op'[p] = op[p] /\ pc'[p] \in DeletePcs
       \/ op'[p] = "none" /\ pc'[p] = "idle"
    /\ pc'[p] \in {"purge", "local_destroy"} => (host' => seen'[p].host)
    /\ exists' =>
          \* it marks the row
          \/ /\ pc[p] = "check" /\ pc'[p] = "route" /\ UNCHANGED <<vm, server>>
             /\ task' = "deleting" /\ seen'[p].task = seen[p].task
          \* it sees the host, goes on or is ignored
          \/ /\ pc[p] = "route" /\ UNCHANGED <<vm, task, server>>
             /\ \/ pc'[p] = "route" /\ seen'[p].task = seen[p].task
                \/ pc'[p] \in {"cast", "local"}
                \/ pc'[p] = "idle" /\ (seen[p].task \in DeleteTasks \/ "cast" \in Faults)
          \* it goes on to destroy the row
          \/ /\ pc[p] \in {"cast", "deleted", "local"} /\ pc'[p] \in Removing
             /\ task' = task \/ (task' = "none" /\ pc'[p] \in {"purge", "local_destroy"})

\* the deletes
LEMMA DeleteWork ==
  ASSUME TypeOK, Orderly, FinishInv, NEW p \in Procs, Step(p),
         op[p] \in Terminates, pc[p] \in DeletePcs
  PROVE  DeleteEffect(p)
  <1>a. RowType /\ ControlType
    BY TypeParts
  <1>b. op[p] \in {"delete", "force_delete"} /\ "destroy" \notin Faults
    BY DEF Terminates, Orderly, NoFault
  <1>c. DeleteTask[op[p]] = "deleting"
    BY <1>b, DeleteTable
  <1>d. pc[p] \in {"purge", "local_destroy"} /\ host => seen[p].host
    BY DEF FinishInv
  <1> USE DEF DeletePcs, Removing, DeleteTasks, Terminates
  <1>DeleteMark. CASE DeleteMark(p)
    <2>1. CASE exists
      <3>1. GoFresh(p, "route") /\ UNCHANGED <<exists, vm, host, launched, server, setting>>
            /\ task' = "deleting" /\ pc[p] = "check"
        BY <1>DeleteMark, <2>1, <1>c DEF DeleteMark, Write, env, At
      <3>2. seen'[p].task = seen[p].task
        BY <3>1, <1>a DEF GoFresh, Fresh, ControlType, Seen
      <3> QED BY <3>1, <3>2, <1>a, <1>b, Moves DEF DeleteEffect
    <2>2. CASE ~exists
      BY <1>DeleteMark, <2>2, <1>a, <1>b, Ends DEF DeleteMark, Write, env, At, DeleteEffect
    <2> QED BY <2>1, <2>2
  <1>DestroyUnhosted. CASE DestroyUnhosted(p)
    <2>1. CASE End(p)
      BY <1>DestroyUnhosted, <2>1, <1>a, <1>b, Ends
      DEF DestroyUnhosted, At, env, row, DeleteEffect, ControlType
    <2>2. CASE ~End(p)
      <3>1. /\ seen' = [seen EXCEPT ![p].vm = vm, ![p].host = TRUE]
            /\ UNCHANGED <<row, op, pc, server, setting>> /\ pc[p] = "route"
        BY <1>DestroyUnhosted, <2>2 DEF DestroyUnhosted, env, At
      <3>2. seen'[p].task = seen[p].task /\ Alone(p)
        BY <3>1, <1>a DEF ControlType, Seen, Alone
      <3> QED BY <3>1, <3>2, <1>b DEF row, DeleteEffect
    <2> QED BY <2>1, <2>2
  <1>DeleteCast. CASE DeleteCast(p)
    <2>1. \/ op'[p] = op[p] /\ pc'[p] = "cast" /\ Alone(p)
          \/ /\ op'[p] = "none" /\ pc'[p] = "idle" /\ Alone(p)
             /\ seen[p].task \in DeleteTasks \/ "cast" \in Faults
      <3>1. \/ seen[p].task \in DeleteTasks /\ End(p)
            \/ Cast(p, op[p], NotSeen)
        BY <1>DeleteCast DEF DeleteCast
      <3>2. ASSUME Cast(p, op[p], NotSeen)
            PROVE  \/ op'[p] = op[p] /\ pc'[p] = "cast" /\ Alone(p)
                   \/ End(p) /\ "cast" \in Faults
        BY <3>2, <1>a DEF Cast, ControlType, Alone
      <3> QED BY <3>1, <3>2, <1>a, Ends
    <2> QED BY <1>DeleteCast, <2>1, <1>b DEF DeleteCast, At, row, env, DeleteEffect
  <1>DeleteLocal. CASE DeleteLocal(p)
    BY <1>DeleteLocal, <1>a, <1>b, Moves DEF DeleteLocal, At, row, env, DeleteEffect
  <1>LocalSave. CASE LocalSave(p)
    <2>1. CASE exists
      BY <1>LocalSave, <2>1, <1>a, <1>b, Moves DEF LocalSave, At, Write, env, DeleteEffect
    <2>2. CASE ~exists
      BY <1>LocalSave, <2>2, <1>a, <1>b, Ends DEF LocalSave, At, Write, env, DeleteEffect
    <2> QED BY <2>1, <2>2
  <1>LocalDestroy. CASE LocalDestroy(p)
    BY <1>LocalDestroy, <1>a, <1>b, <1>d, Ends DEF LocalDestroy, At, Destroy, env, DeleteEffect
  <1>TerminateBegin. CASE TerminateBegin(p)
    BY <1>TerminateBegin, <1>a, <1>b, Moves
    DEF TerminateBegin, HandleAny, AtWork, At, DestroyServer, row, env, DeleteEffect
  <1>TerminateSave. CASE TerminateSave(p)
    <2>1. CASE exists
      BY <1>TerminateSave, <2>1, <1>a, <1>b, Moves
      DEF TerminateSave, AtWork, At, Write, env, DeleteEffect
    <2>2. CASE ~exists
      BY <1>TerminateSave, <2>2, <1>a, <1>b, Ends
      DEF TerminateSave, AtWork, At, Write, env, DeleteEffect
    <2> QED BY <2>1, <2>2
  <1>TerminatePurge. CASE TerminatePurge(p)
    <2>1. ~exists' /\ End(p) /\ UNCHANGED <<host, launched, setting>> /\ pc[p] = "purge"
      BY <1>TerminatePurge, <1>d DEF TerminatePurge, AtWork, At, Destroy, env
    <2> QED BY <2>1, <1>a, <1>b, Ends DEF DeleteEffect
  <1>Request. ~Request(p)
    BY <1>b, ApiTable DEF Request
  <1>Unshelve. ~UnshelveShelved(p) /\ ~UnshelveOffloaded(p)
    BY <1>b DEF UnshelveShelved, UnshelveOffloaded, Conduct
  <1>Build. ~BuildStep(p)
    BY <1>b
    DEF BuildStep, BuildStart, BuildClaim, BuildNetwork, BuildBlockDevices, BuildSpawning,
        BuildSpawn, BuildClean, BuildUnclaim, BuildError, BuildSave, Build, AtWork, At
  <1>Other. HandlerStep(p) =>
               TerminateBegin(p) \/ TerminateSave(p) \/ TerminatePurge(p)
    <2>1. ~(\/ StopBegin(p) \/ PowerOffStep(p) \/ DriverStep(p) \/ SimpleSave(p)
            \/ Error(p) \/ Revert(p) \/ Suspend(p) \/ Password(p) \/ PasswordSave(p)
            \/ SnapshotBegin(p) \/ ImageMark(p) \/ ImageCreate(p) \/ ImageUpload(p)
            \/ ShelveUpload(p) \/ OffloadDestroy(p) \/ OffloadSave(p))
      BY <1>b, SimpleTable, OtherTables
      DEF StopBegin, PowerOffStep, DriverStep, SimpleSave, Error, Revert, Suspend, Password,
          PasswordSave, SnapshotBegin, ImageMark, ImageCreate, ImageUpload, ShelveUpload,
          OffloadDestroy, OffloadSave, OneCall, Handle, HandleAny, AtWork, At
    <2>2. ~(\/ UnshelveBegin(p) \/ UnshelveClaim(p) \/ UnshelveSpawn(p)
            \/ UnshelveUnclaim(p) \/ UnshelveSave(p) \/ RebootBegin(p) \/ RebootStart(p)
            \/ RebootFinal(p) \/ RebuildBegin(p) \/ RebuildDestroy(p)
            \/ RebuildBlockDevices(p) \/ RebuildSpawning(p) \/ RebuildSpawn(p)
            \/ RebuildSave(p) \/ RebuildMark(p) \/ RebuildHost(p) \/ TerminateFailed(p))
      BY <1>b
      DEF UnshelveBegin, UnshelveClaim, UnshelveSpawn, UnshelveUnclaim, UnshelveSave,
          RebootBegin, RebootStart, RebootFinal, RebuildBegin, RebuildDestroy,
          RebuildBlockDevices, RebuildSpawning, RebuildSpawn, RebuildSave, RebuildMark,
          RebuildHost, TerminateFailed, Unshelve, Rebuild, Rebuilds, Reboots, Handle,
          HandleAny, AtWork, At
    <2> QED BY <2>1, <2>2 DEF HandlerStep
  <1> HIDE DEF DeletePcs, Removing, DeleteTasks, Terminates
  <1> QED
    BY <1>DeleteMark, <1>DestroyUnhosted, <1>DeleteCast, <1>DeleteLocal, <1>LocalSave,
       <1>LocalDestroy, <1>TerminateBegin, <1>TerminateSave, <1>TerminatePurge, <1>Request,
       <1>Unshelve, <1>Build, <1>Other
    DEF Step, ApiStep

LoadEffect(p) ==
    /\ Alone(p) /\ exists /\ UNCHANGED <<row, server, setting>>
    /\ pc[p] = "idle" /\ pc'[p] = "check" /\ op'[p] \in (Users \cup Terminates) \cap Ops
    /\ op'[p] \in Terminates => seen'[p].task = task

\* a new request
LEMMA LoadWork ==
  ASSUME TypeOK, Orderly, NEW p \in Procs, NEW o \in Ops, Load(p, o)
  PROVE  LoadEffect(p)
  <1>a. RowType /\ ControlType
    BY TypeParts
  <1>b. /\ o \in AllOps
        /\ o \notin {"rebuild", "hard_reboot", "soft_delete", "restore", "unshelve"}
    BY ConstantsAssumption DEF Orderly, NoOp, Ops, TypeOK
  <1>c. o \in Users \cup Terminates
    BY <1>b, ApiTable, OpNames DEF AllOps, Users, Terminates
  <1>d. /\ exists /\ UNCHANGED <<row, server, setting>> /\ pc[p] = "idle"
        /\ pc'[p] = "check" /\ op'[p] = o /\ Alone(p)
    BY <1>a, OpNames, PcNames DEF Load, At, env, ControlType, Alone
  <1>e. o \in Terminates => seen'[p].task = task
    <2>1. o \in Terminates => o \in Deletes
      BY OpNames DEF Terminates
    <2> QED BY <2>1, <1>a DEF Load, ControlType, Seen
  <1> QED BY <1>c, <1>d, <1>e DEF LoadEffect

AskEffect(p) ==
    /\ Alone(p) /\ op[p] \in Users /\ pc[p] = "check" /\ launched
    /\ UNCHANGED <<exists, vm, host, launched, server, setting>>
    /\ \/ /\ exists /\ task = "none" /\ task' \notin Special
          /\ \/ /\ op'[p] \in Users \cap {op[p], "offload"} /\ pc'[p] = "cast"
                /\ Expects(p)'
             \/ op'[p] = "none" /\ pc'[p] = "idle" /\ "cast" \in Faults
       \/ task' = task /\ op'[p] = "none" /\ pc'[p] = "idle"

\* the compare-and-swap of a request
LEMMA AskWork ==
  ASSUME TypeOK, RowInv, NEW p \in Procs, Step(p), op[p] \in Users, pc[p] = "check"
  PROVE  AskEffect(p)
  <1>a. RowType /\ ControlType
    BY TypeParts
  <1>b. op[p] \notin {"none", "build", "delete", "force_delete", "soft_delete", "unshelve",
                      "rebuild"}
    BY DEF Users
  <1>c. launched
    BY <1>b DEF RowInv, YoungInv
  <1>d. Request(p)
    <2>1. ~(\/ DeleteMark(p) \/ DestroyUnhosted(p) \/ DeleteCast(p) \/ DeleteLocal(p)
            \/ LocalSave(p) \/ LocalDestroy(p) \/ UnshelveShelved(p) \/ UnshelveOffloaded(p))
      BY <1>b, OpNames
      DEF DeleteMark, DestroyUnhosted, DeleteCast, DeleteLocal, LocalSave, LocalDestroy,
          UnshelveShelved, UnshelveOffloaded, Conduct, At
    <2>2. ~BuildStep(p)
      BY <1>b
      DEF BuildStep, BuildStart, BuildClaim, BuildNetwork, BuildBlockDevices, BuildSpawning,
          BuildSpawn, BuildClean, BuildUnclaim, BuildError, BuildSave, Build, AtWork, At
    <2>3. ~HandlerStep(p)
      BY <1>b
      DEF HandlerStep, StopBegin, PowerOffStep, DriverStep, SimpleSave, Error, Revert,
          Suspend, Password, PasswordSave, SnapshotBegin, ImageMark, ImageCreate,
          ImageUpload, ShelveUpload, OffloadDestroy, OffloadSave, UnshelveBegin,
          UnshelveClaim, UnshelveSpawn, UnshelveUnclaim, UnshelveSave, RebootBegin,
          RebootStart, RebootFinal, RebuildBegin, RebuildDestroy, RebuildBlockDevices,
          RebuildSpawning, RebuildSpawn, RebuildSave, RebuildMark, RebuildHost,
          TerminateBegin, TerminateSave, TerminatePurge, TerminateFailed, Handle,
          HandleAny, Rebuild, Unshelve, AtWork, At
    <2> QED BY <2>1, <2>2, <2>3 DEF Step, ApiStep
  <1>e. UNCHANGED <<server, setting>>
    BY <1>d DEF Request, env
  <1>f. CASE ~Matches(Api[op[p]].from) /\ End(p) /\ UNCHANGED row
    BY <1>c, <1>e, <1>f, <1>a, Ends DEF row, AskEffect
  <1>h. ~AtOnce(p)
    BY DEF AtOnce, Users
  <1>g. CASE /\ Matches(Api[op[p]].from) /\ Write(vm, Api[op[p]].to)
             /\ Cast(p, Handler(op[p]), IF op[p] \in NeedVm THEN Fresh(p) ELSE NotSeen)
    <2>1. exists /\ task = "none" /\ UNCHANGED <<exists, vm, host, launched>>
      BY <1>g, UserTable DEF Matches, Write
    <2>2. task' = Api[op[p]].to /\ task' \notin Special
      BY <1>g, <2>1, UserTable DEF Write
    <2>3. CASE "cast" \in Faults /\ End(p)
      BY <1>c, <1>e, <2>1, <2>2, <2>3, <1>a, Ends DEF AskEffect
    <2>4. CASE ~("cast" \in Faults /\ End(p))
      <3>1. op'[p] = Handler(op[p]) /\ pc'[p] = "cast" /\ Alone(p)
        BY <1>g, <2>4, <1>a DEF Cast, ControlType, Alone
      <3>2. Handler(op[p]) = op[p] \/ (op[p] = "shelve" /\ Handler(op[p]) = "offload")
        BY DEF Handler
      <3>3. Handler(op[p]) \in Users
        BY <3>2 DEF Users
      <3>4. Wants(op'[p], "cast", task')
        BY <3>1, <3>2, <2>2, UserTable
      <3> QED BY <1>c, <1>e, <2>1, <2>2, <3>1, <3>2, <3>3, <3>4 DEF AskEffect, Expects
    <2> QED BY <2>3, <2>4
  <1> QED BY <1>d, <1>f, <1>g, <1>h DEF Request

\* what is assumed of a state
Ordered == /\ TypeOK /\ RowInv /\ CalmInv /\ Orderly
           /\ ShapeInv /\ OfferInv /\ FinishInv

\* every step is one of these
LEMMA NextWork ==
  ASSUME Ordered, [Next]_vars
  PROVE  \/ UNCHANGED vars
         \/ \E p \in Procs : /\ \/ LoadEffect(p) \/ AskEffect(p) \/ ServeEffect(p)
                                \/ BuildEffect(p) \/ DeleteEffect(p)
                             /\ Serves(p) => Step(p)
  <1> USE DEF Ordered
  <1>1. ASSUME NEW p \in Slots, NEW o \in Ops, Load(p, o) PROVE p \in Procs /\ LoadEffect(p)
    <2>1. p \in Procs
      BY ConstantsAssumption DEF Slots, Procs, TypeOK
    <2> QED BY <1>1, <2>1, LoadWork
  <1>2. ASSUME NEW p \in Procs, Step(p)
        PROVE  \/ AskEffect(p) \/ ServeEffect(p) \/ BuildEffect(p) \/ DeleteEffect(p)
    <2>1. CASE op[p] = "none" /\ pc[p] = "idle"
      <3>1. ~ApiStep(p)
        BY <2>1, ApiTable, OpNames
        DEF ApiStep, Request, DeleteMark, DestroyUnhosted, DeleteCast, DeleteLocal,
            LocalSave, LocalDestroy, UnshelveShelved, UnshelveOffloaded, Conduct, At
      <3>2. ~BuildStep(p)
        BY <2>1
        DEF BuildStep, BuildStart, BuildClaim, BuildNetwork, BuildBlockDevices,
            BuildSpawning, BuildSpawn, BuildClean, BuildUnclaim, BuildError, BuildSave,
            Build, AtWork, At
      <3>3. ~HandlerStep(p)
        BY <2>1
        DEF HandlerStep, StopBegin, PowerOffStep, DriverStep, SimpleSave, Error, Revert,
            Suspend, Password, PasswordSave, SnapshotBegin, ImageMark, ImageCreate,
            ImageUpload, ShelveUpload, OffloadDestroy, OffloadSave, UnshelveBegin,
            UnshelveClaim, UnshelveSpawn, UnshelveUnclaim, UnshelveSave, RebootBegin,
            RebootStart, RebootFinal, RebuildBegin, RebuildDestroy, RebuildBlockDevices,
            RebuildSpawning, RebuildSpawn, RebuildSave, RebuildMark, RebuildHost,
            TerminateBegin, TerminateSave, TerminatePurge, TerminateFailed, Handle,
            HandleAny, Rebuild, Unshelve, AtWork, At
      <3> QED BY <1>2, <3>1, <3>2, <3>3 DEF Step
    <2>2. CASE op[p] \in Users /\ pc[p] \in UserPcs \cup {"check"}
      BY <1>2, <2>2, AskWork, ServeStep DEF Serves
    <2>3. CASE op[p] \in Terminates /\ pc[p] \in DeletePcs
      BY <1>2, <2>3, DeleteWork
    <2>4. CASE op[p] = "build"
      <3>1. pc[p] \in BuildPcs \cup {"cast"}
        BY <2>4 DEF RowInv, BuildInv
      <3>2. ~ApiStep(p)
        BY <2>4, <3>1, ApiTable, OpNames
        DEF ApiStep, Request, DeleteMark, DestroyUnhosted, DeleteCast, DeleteLocal,
            LocalSave, LocalDestroy, UnshelveShelved, UnshelveOffloaded, Conduct, At, BuildPcs
      <3>3. ~HandlerStep(p)
        BY <2>4, <3>1, SimpleTable, OtherTables
        DEF HandlerStep, StopBegin, PowerOffStep, DriverStep, SimpleSave, Error, Revert,
            Suspend, Password, PasswordSave, SnapshotBegin, ImageMark, ImageCreate,
            ImageUpload, ShelveUpload, OffloadDestroy, OffloadSave, UnshelveBegin,
            UnshelveClaim, UnshelveSpawn, UnshelveUnclaim, UnshelveSave, RebootBegin,
            RebootStart, RebootFinal, RebuildBegin, RebuildDestroy, RebuildBlockDevices,
            RebuildSpawning, RebuildSpawn, RebuildSave, RebuildMark, RebuildHost,
            TerminateBegin, TerminateSave, TerminatePurge, TerminateFailed, Handle,
            HandleAny, Rebuild, Rebuilds, Reboots, Terminates, OneCall, Unshelve, AtWork,
            At, BuildPcs
      <3>4. BuildStep(p)
        BY <1>2, <3>2, <3>3 DEF Step
      <3> QED BY <3>4, BuildWork
    <2> QED BY <2>1, <2>2, <2>3, <2>4 DEF ShapeInv
  <1>3. ~Crash /\ ~Restart /\ ~InitHost
    <2>1. mgr = "up" /\ crashes = 0 /\ MaxCrashes = 0
      BY DEF CalmInv, Orderly, Calm
    <2>2. ~Crash /\ ~Restart
      BY <2>1 DEF Crash, Restart
    <2>3. ~InitHost
      BY <2>1
      DEF InitHost, BootSkip, BootPurge, BootUnfinished, BootImage, BootDelete,
          BootNoServer, BootReboot, BootClear, BootResume, BootLeave, PowerRead, Booting
    <2> QED BY <2>2, <2>3
  <1>4. ASSUME NEW p \in Procs, LoadEffect(p) PROVE ~Serves(p)
    BY <1>4 DEF LoadEffect, Serves, UserPcs
  <1> QED BY <1>1, <1>2, <1>3, <1>4 DEF Next, Rest

----------------------------------------------------------------------------
(* The invariant is kept.                                                  *)

Effect(p) == \/ LoadEffect(p) \/ AskEffect(p) \/ ServeEffect(p)
             \/ BuildEffect(p) \/ DeleteEffect(p)

\* the places of the different kinds of work are different
LEMMA Places ==
    /\ UserPcs \cap ({"idle", "check", "route"} \cup Removing) = {}
    /\ (BuildPcs \cup {"cast"}) \cap ({"idle", "check", "route"} \cup Removing \cup {"failed"}) = {}
    /\ (UserPcs \ {"cast"}) \cap BuildPcs = {}
    /\ Deletes = Terminates \cup {"soft_delete"}
    /\ Users \cap Deletes = {} /\ "build" \notin Deletes /\ "none" \notin Deletes
    /\ "build" \notin Users /\ "none" \notin Users
  BY OpNames DEF UserPcs, BuildPcs, Removing, Users, Terminates

\* while the build is under way, only deletes come in
LEMMA BuildAlone ==
  ASSUME Ordered, NEW p \in Procs, op[p] = "build", NEW q \in Procs
  PROVE  /\ op[q] \notin Users
         /\ pc[p] \in BuildPcs /\ q # p => pc[q] \in ApiOnly \cup {"cast"}
         /\ pc[p] = "b_claim" /\ q # p => pc[q] \in ApiOnly
  <1> USE DEF Ordered, RowInv
  <1>1. op[q] \notin Users
    BY DEF BuildInv, YoungInv, Users
  <1>2. pc[p] \in BuildPcs /\ q # p => pc[q] \in ApiOnly \cup {"cast"}
    BY DEF AloneInv
  <1>3. pc[p] = "b_claim" /\ q # p => pc[q] \in ApiOnly
    BY DEF QueuedInv
  <1> QED BY <1>1, <1>2, <1>3

\* a request or a delete is where its operation can be
LEMMA ShapeStep ==
  ASSUME Ordered, NEW p \in Procs, Effect(p)
  PROVE  ShapeInv'
  <1>1. ASSUME NEW q \in Procs \ {p} PROVE UNCHANGED <<op[q], pc[q]>>
    BY <1>1 DEF Effect, LoadEffect, AskEffect, ServeEffect, BuildEffect, DeleteEffect, Alone
  <1>2. \/ op'[p] = "none" /\ pc'[p] = "idle"
        \/ op'[p] \in Users /\ pc'[p] \in UserPcs \cup {"check"}
        \/ op'[p] \in Terminates /\ pc'[p] \in DeletePcs
        \/ op'[p] = "build"
    <2>1. "cast" \in UserPcs /\ "check" \in DeletePcs
      BY DEF UserPcs, DeletePcs
    <2> QED BY <2>1 DEF Effect, LoadEffect, AskEffect, ServeEffect, BuildEffect, DeleteEffect, Serves
  <1> QED BY <1>1, <1>2 DEF Ordered, ShapeInv

\* and was asked for
LEMMA OfferStep ==
  ASSUME Ordered, NEW p \in Procs, Effect(p)
  PROVE  OfferInv'
  <1>1. ASSUME NEW q \in Procs \ {p} PROVE op'[q] = op[q]
    BY <1>1 DEF Effect, LoadEffect, AskEffect, ServeEffect, BuildEffect, DeleteEffect, Alone
  <1>2. setting' = setting
    BY DEF Effect, LoadEffect, AskEffect, ServeEffect, BuildEffect, DeleteEffect
  <1>3. op'[p] \in Users => op'[p] \in Ops \cup {op[p], "offload"}
    BY Places DEF Effect, LoadEffect, AskEffect, ServeEffect, BuildEffect, DeleteEffect
  <1>4. op'[p] \in Users /\ op'[p] = op[p] => op[p] \in Ops \cup {"offload"}
    BY DEF Ordered, OfferInv
  <1> QED BY <1>1, <1>2, <1>3, <1>4 DEF Ordered, OfferInv, Ops

\* a delete that destroys the row has seen its host: it gets one from a build
\* that is alone with requests which the API still checks
LEMMA FinishStep ==
  ASSUME Ordered, NEW p \in Procs, Effect(p)
  PROVE  FinishInv'
  <1> SUFFICES ASSUME NEW q \in Procs, pc'[q] \in {"purge", "local_destroy"}, host'
               PROVE  seen'[q].host
    BY DEF FinishInv
  <1>1. CASE q = p
    <2>1. DeleteEffect(p)
      BY <1>1, Places
      DEF Effect, LoadEffect, AskEffect, ServeEffect, BuildEffect, Removing, Serves
    <2> QED BY <1>1, <2>1 DEF DeleteEffect
  <1>2. CASE q # p
    <2>1. pc'[q] = pc[q] /\ seen'[q] = seen[q]
      BY <1>2 DEF Effect, LoadEffect, AskEffect, ServeEffect, BuildEffect, DeleteEffect, Alone
    <2>2. CASE host
      BY <2>1, <2>2 DEF Ordered, FinishInv
    <2>3. CASE ~host
      <3>1. op[p] = "build" /\ pc[p] = "b_claim"
        BY <2>3
        DEF Effect, LoadEffect, AskEffect, ServeEffect, BuildEffect, DeleteEffect, row
      <3> QED BY <1>2, <2>1, <3>1, BuildAlone DEF ApiOnly
    <2> QED BY <2>2, <2>3
  <1> QED BY <1>1, <1>2

\* a delete that removes the instance ends with its row
LEMMA RemovalStep ==
  ASSUME Ordered, NEW p \in Procs, Effect(p), exists'
  PROVE  /\ exists
         /\ pc[p] \in Removing => op[p] \in Terminates /\ pc'[p] \in Removing
         /\ pc[p] \notin {"purge", "local_destroy"}
         /\ Live' => Live
         /\ Intact' => Intact
  <1>1. exists
    BY DEF Effect, LoadEffect, AskEffect, ServeEffect, BuildEffect, DeleteEffect, row
  <1>2. CASE ~DeleteEffect(p)
    <2>1. pc[p] \notin Removing
      BY <1>2, Places
      DEF Effect, LoadEffect, AskEffect, ServeEffect, BuildEffect, Removing, Serves
    <2> QED BY <1>2, <2>1, <1>1
        DEF Effect, LoadEffect, AskEffect, ServeEffect, BuildEffect, Alone, Live, Intact,
            Finishing, Removing
  <1>3. CASE DeleteEffect(p)
    <2>1. pc[p] \notin {"purge", "local_destroy"}
      BY <1>3 DEF DeleteEffect
    <2>2. pc[p] \in Removing => op[p] \in Terminates /\ pc'[p] \in Removing
      BY <1>3, <2>1 DEF DeleteEffect, Removing
    <2>3. Live' => Live
      BY <1>1, <1>3, <2>1 DEF DeleteEffect, Alone, Live, Finishing
    <2>4. Intact' => Intact
      BY <1>1, <1>3, <2>2 DEF DeleteEffect, Alone, Intact
    <2> QED BY <1>1, <2>1, <2>2, <2>3, <2>4
  <1> QED BY <1>2, <1>3

\* one request at a time is served
LEMMA OneStep ==
  ASSUME Ordered, Guarded, OneInv, NEW p \in Procs, Effect(p)
  PROVE  OneInv'
  <1> SUFFICES ASSUME Live' PROVE (\A q, r \in Procs : Serves(q) => task # "none" /\ (Serves(r) => r = q))'
    BY DEF OneInv
  <1>1. exists' /\ exists /\ Live
    BY RemovalStep DEF Live
  <1>2. \A q, r \in Procs : Serves(q) => task # "none" /\ (Serves(r) => r = q)
    BY <1>1 DEF OneInv
  <1>3. ASSUME NEW q \in Procs \ {p} PROVE Serves(q)' <=> Serves(q)
    BY <1>3
    DEF Effect, LoadEffect, AskEffect, ServeEffect, BuildEffect, DeleteEffect, Alone, Serves
  <1>4. CASE LoadEffect(p)
    <2>1. ~Serves(p)' /\ task' = task
      BY <1>4, Places DEF LoadEffect, Serves, row
    <2> QED BY <1>2, <1>3, <2>1
  <1>5. CASE AskEffect(p)
    <2>1. CASE task = "none"
      <3>1. \A q \in Procs \ {p} : ~Serves(q)'
        BY <1>2, <1>3, <2>1
      <3>2. Serves(p)' => task' # "none"
        BY <1>5, Places DEF AskEffect, Serves, Special
      <3> QED BY <3>1, <3>2
    <2>2. CASE task # "none"
      <3>1. ~Serves(p)' /\ task' = task
        BY <1>5, <2>2, Places DEF AskEffect, Serves
      <3> QED BY <1>2, <1>3, <3>1
    <2> QED BY <2>1, <2>2
  <1>6. CASE ServeEffect(p)
    <2>1. Serves(p) /\ task # "none" /\ \A q \in Procs \ {p} : ~Serves(q)'
      BY <1>2, <1>3, <1>6 DEF ServeEffect
    <2>2. op[p] \notin {"suspend", "password"}
      BY <1>6 DEF ServeEffect, Serves, Ordered, OfferInv, Guarded, NoOp
    <2>3. Serves(p)' => task' # "none"
      BY <1>1, <1>6, <2>1, <2>2, Places DEF ServeEffect, Serves, Special
    <2> QED BY <2>1, <2>3
  <1>7. CASE BuildEffect(p)
    <2>1. \A q \in Procs \ {p} : ~Serves(q)'
      BY <1>3, <1>7, BuildAlone DEF BuildEffect, Serves
    <2>2. ~Serves(p)'
      BY <1>7, Places DEF BuildEffect, Serves
    <2> QED BY <2>1, <2>2
  <1>8. CASE DeleteEffect(p)
    <2>1. ~Serves(p)'
      BY <1>8, Places DEF DeleteEffect, Serves
    <2>2. task' \in {task, "deleting"}
      <3>1. ~Finishing(p)'
        BY DEF Live
      <3>2. pc'[p] \in {"purge", "local_destroy"} => Finishing(p)'
        BY <1>8, Places DEF DeleteEffect, Finishing
      <3> QED BY <1>1, <1>8, <3>1, <3>2 DEF DeleteEffect
    <2> QED BY <1>2, <1>3, <2>1, <2>2
  <1> QED BY <1>4, <1>5, <1>6, <1>7, <1>8 DEF Effect

\* a committed delete stays so until the row is destroyed
LEMMA DoomedStep ==
  ASSUME Ordered, NoFault({"cast"}), NEW p \in Procs, Effect(p), exists', Doomed
  PROVE  Doomed'
  <1>1. PICK d \in Procs : Committed(d)
    BY DEF Doomed
  <1>2. CASE d # p
    <2>1. UNCHANGED <<op[d], pc[d], seen[d]>>
      BY <1>2 DEF Effect, LoadEffect, AskEffect, ServeEffect, BuildEffect, DeleteEffect, Alone
    <2> QED BY <1>1, <2>1 DEF Committed, Doomed
  <1>3. CASE d = p
    <2>1. op[p] \in Terminates /\ pc[p] \in Removing \cup {"cast", "route"}
      BY <1>1, <1>3 DEF Committed
    <2>2. DeleteEffect(p)
      BY <2>1, Places
      DEF Effect, LoadEffect, AskEffect, ServeEffect, BuildEffect, Serves, Removing
    <2>3. pc'[p] # "idle"
      BY <1>1, <1>3, <2>2 DEF DeleteEffect, Committed, NoFault, Removing
    <2>4. op'[p] \in Terminates
      BY <2>1, <2>2, <2>3 DEF DeleteEffect
    <2>5. \/ pc'[p] \in Removing \cup {"cast"}
          \/ pc'[p] = "route" /\ seen'[p].task \notin DeleteTasks
      BY <1>1, <1>3, <2>2, <2>3 DEF DeleteEffect, Committed, Removing
    <2>6. Committed(p)'
      BY <2>4, <2>5 DEF Committed
    <2> QED BY <2>6 DEF Doomed
  <1> QED BY <1>2, <1>3

\* a delete is ignored only beside one that is committed
LEMMA DoomStep ==
  ASSUME Ordered, NoFault({"cast"}), DoomInv, NEW p \in Procs, Effect(p)
  PROVE  DoomInv'
  <1> SUFFICES ASSUME exists', ~Doomed'
               PROVE  /\ task' \notin DeleteTasks
                      /\ \A q \in Procs :
                            op'[q] \in Terminates /\ pc'[q] \in {"check", "route"}
                            => seen'[q].task \notin DeleteTasks
    BY DEF DoomInv
  <1>1. exists /\ ~Doomed
    BY RemovalStep, DoomedStep
  <1>2. /\ task \notin DeleteTasks
        /\ \A q \in Procs :
              op[q] \in Terminates /\ pc[q] \in {"check", "route"}
              => seen[q].task \notin DeleteTasks
    BY <1>1 DEF DoomInv
  <1>3. ~Committed(p)'
    BY DEF Doomed
  <1>4. ASSUME NEW q \in Procs \ {p}
        PROVE  op'[q] = op[q] /\ pc'[q] = pc[q] /\ seen'[q] = seen[q]
    BY <1>4
    DEF Effect, LoadEffect, AskEffect, ServeEffect, BuildEffect, DeleteEffect, Alone
  <1>5. task' \notin DeleteTasks
    <2>1. CASE LoadEffect(p) \/ AskEffect(p)
      BY <1>2, <2>1 DEF LoadEffect, AskEffect, row, Special
    <2>2. CASE ServeEffect(p)
      BY <1>1, <1>2, <2>2 DEF ServeEffect, Special, DeleteTasks
    <2>3. CASE BuildEffect(p)
      BY <1>1, <1>2, <2>3 DEF BuildEffect
    <2>4. CASE DeleteEffect(p)
      <3>1. CASE pc[p] = "check" /\ pc'[p] = "route"
        <4>1. op'[p] \in Terminates
          BY <2>4, <3>1 DEF DeleteEffect
        <4>2. seen'[p].task = seen[p].task /\ op[p] \in Terminates
          BY <2>4, <3>1 DEF DeleteEffect
        <4> QED BY <1>2, <1>3, <3>1, <4>1, <4>2 DEF Committed
      <3> QED BY <1>2, <2>4, <3>1 DEF DeleteEffect, DeleteTasks
    <2> QED BY <2>1, <2>2, <2>3, <2>4 DEF Effect
  <1>6. op'[p] \in Terminates /\ pc'[p] \in {"check", "route"} => seen'[p].task \notin DeleteTasks
    <2>1. CASE LoadEffect(p)
      BY <1>2, <2>1 DEF LoadEffect
    <2>2. CASE AskEffect(p) \/ ServeEffect(p) \/ BuildEffect(p)
      <3>1. pc'[p] \notin {"check", "route"}
        BY <2>2, Places DEF AskEffect, ServeEffect, BuildEffect, Serves
      <3> QED BY <3>1
    <2>3. CASE DeleteEffect(p)
      <3>1. pc'[p] \in {"check", "route"} => pc[p] \in {"check", "route"} /\ seen'[p].task = seen[p].task
        BY <2>3 DEF DeleteEffect, Removing
      <3> QED BY <1>2, <2>3, <3>1 DEF DeleteEffect
    <2> QED BY <2>1, <2>2, <2>3 DEF Effect
  <1> QED BY <1>2, <1>4, <1>5, <1>6

\* a task is somebody's
LEMMA OwnStep ==
  ASSUME Ordered, NoFault({"cast"}), DoomInv, OwnInv, NEW p \in Procs, Effect(p)
  PROVE  OwnInv'
  <1> DEFINE Owns(q) == (Serves(q) /\ Expects(q)) \/ Builds(q)
  <1> SUFFICES ASSUME exists', task' # "none", vm' # "error", ~Doomed'
               PROVE  \E q \in Procs : Owns(q)'
    BY DEF OwnInv
  <1>1. exists /\ ~Doomed
    BY RemovalStep, DoomedStep
  <1>2. task \notin DeleteTasks
    BY <1>1 DEF DoomInv
  <1>3. task # "none" /\ vm # "error" => \E q \in Procs : Owns(q)
    BY <1>1 DEF OwnInv
  \* the owner is another one
  <1>4. ASSUME NEW q \in Procs, Owns(q), q # p, task' = task PROVE Owns(q)'
    <2>1. op'[q] = op[q] /\ pc'[q] = pc[q]
      BY <1>4
      DEF Effect, LoadEffect, AskEffect, ServeEffect, BuildEffect, DeleteEffect, Alone
    <2> QED BY <1>4, <2>1 DEF Serves, Expects, Builds
  <1>5. CASE LoadEffect(p)
    <2>1. task' = task /\ vm' = vm /\ ~Owns(p)
      BY <1>5, <1>1, Places DEF LoadEffect, row, Serves, Builds, Ordered, ShapeInv, RowInv, BuildInv, BuildPcs
    <2> QED BY <1>3, <1>4, <2>1
  <1>6. CASE AskEffect(p)
    <2>1. ~Owns(p) /\ vm' = vm
      BY <1>6, Places DEF AskEffect, Serves, Builds
    <2>2. CASE task' = task
      BY <1>3, <1>4, <2>1, <2>2
    <2>3. CASE task' # task
      <3>1. op'[p] \in Users /\ pc'[p] = "cast" /\ Expects(p)'
        BY <1>6, <2>3 DEF AskEffect, NoFault
      <3>2. "cast" \in UserPcs
        BY DEF UserPcs
      <3> QED BY <3>1, <3>2 DEF Serves
    <2> QED BY <2>2, <2>3
  <1>7. CASE ServeEffect(p)
    <2>1. CASE Serves(p)' /\ Expects(p)'
      BY <2>1
    <2>2. CASE ~(Serves(p)' /\ Expects(p)')
      <3>1. task' = task /\ vm' \in {vm, "error"} /\ ~Expects(p) /\ Serves(p)
        BY <1>1, <1>7, <2>2 DEF ServeEffect
      <3>2. ~Owns(p)
        BY <3>1, Places DEF Serves, Builds
      <3> QED BY <1>3, <1>4, <3>1, <3>2
    <2> QED BY <2>1, <2>2
  <1>8. CASE BuildEffect(p)
    <2>1. CASE op'[p] = "build"
      <3>1. Builds(p)'
        BY <1>8, <2>1 DEF BuildEffect, Builds, BuildPcs
      <3> QED BY <3>1
    <2>2. CASE op'[p] # "build"
      <3>1. task' = task /\ vm' = vm /\ ~Builds(p)
        BY <1>1, <1>2, <1>8, <2>2 DEF BuildEffect, DeleteTasks
      <3>2. ~Owns(p)
        BY <1>8, <3>1, Places DEF BuildEffect, Serves
      <3> QED BY <1>3, <1>4, <3>1, <3>2
    <2> QED BY <2>1, <2>2
  <1>9. CASE DeleteEffect(p)
    <2>1. task' \notin DeleteTasks
      BY DoomStep DEF DoomInv
    <2>2. pc'[p] \notin Removing
      <3>1. ~Committed(p)'
        BY DEF Doomed
      <3> QED BY <1>9, <3>1 DEF DeleteEffect, Committed, Removing
    <2>3. task' = task /\ vm' = vm
      BY <1>9, <2>1, <2>2 DEF DeleteEffect, DeleteTasks
    <2>4. ~Owns(p)
      BY <1>9, Places DEF DeleteEffect, Serves, Builds
    <2> QED BY <1>3, <1>4, <2>3, <2>4
  <1> QED BY <1>5, <1>6, <1>7, <1>8, <1>9 DEF Effect

\* what the calls of the driver make of the server
LEMMA DriverTable ==
    /\ \A o \in DOMAIN Simple :
          /\ "none" \notin ServersOf(Simple[o].vm)
          /\ \A s \in DOMAIN Simple[o].does : Simple[o].does[s] \in ServersOf(Simple[o].vm)
    /\ \A s \in DOMAIN PowerOff : PowerOff[s] = "shutoff"
    /\ ServersOf("shelved") = {"shutoff"} /\ ServersOf("shelved_offloaded") = {"none"}
    /\ ServersOf("error") = Servers /\ ServersOf("active") = {"active"}
  <1> DEFINE Good(h) == /\ "none" \notin ServersOf(h.vm)
                        /\ \A s \in DOMAIN h.does : h.does[s] \in ServersOf(h.vm)
  <1> USE DEF ServersOf
  <1>1. Good(StopHandler) /\ Good(StartHandler) /\ Good(PauseHandler)
    BY DEF StopHandler, StartHandler, PauseHandler, Final, PowerOn, PowerOff
  <1>2. Good(UnpauseHandler) /\ Good(RescueHandler) /\ Good(UnrescueHandler)
    BY DEF UnpauseHandler, RescueHandler, UnrescueHandler, Final
  <1>3. Good(SoftDeleteHandler) /\ Good(RestoreHandler)
    BY DEF SoftDeleteHandler, RestoreHandler, Final, PowerOn, PowerOff
  <1>4. /\ \A s \in DOMAIN PowerOff : PowerOff[s] = "shutoff"
        /\ ServersOf("shelved") = {"shutoff"} /\ ServersOf("shelved_offloaded") = {"none"}
        /\ ServersOf("error") = Servers /\ ServersOf("active") = {"active"}
    BY DEF PowerOff
  <1> HIDE DEF Good, ServersOf
  <1>5. \A o \in DOMAIN Simple : Good(Simple[o])
    BY <1>1, <1>2, <1>3, SimpleTable DEF Simple
  <1> QED BY <1>4, <1>5 DEF Good

\* the server of a request that is served
LEMMA StageStep ==
  ASSUME TypeOK, exists, NEW p \in Procs, Serves(p), Step(p), Stage(p),
         op[p] \notin {"suspend", "password", "soft_reboot"},
         Faults \cap {"driver", "image", "destroy"} = {}
  PROVE  /\ Serves(p)' => Stage(p)'
         /\ task # "none" /\ task' = "none" => server' \in ServersOf(vm')
  <1>a. ControlType /\ server \in Servers
    BY TypeParts DEF ServerType
  <1>b. op[p] \in Users /\ pc[p] \in UserPcs
    BY DEF Serves
  <1>c. op[p] \notin {"rebuild", "rebuild_stop", "hard_reboot", "build", "none", "delete",
                      "force_delete", "soft_delete", "unshelve"}
    BY <1>b DEF Users
  <1>d. ASSUME op'[p] = "none" PROVE ~Serves(p)'
    BY <1>d, Places DEF Serves
  <1>e. /\ \A o, v, n : Stands(o, "revert", v, n) <=> n \in ServersOf(v)
        /\ \A o, v, n : o \notin {"snapshot", "backup"} => Stands(o, "error", v, n)
    BY DEF Stands
  <1>StopBegin. CASE StopBegin(p)
    <2>1. op[p] = "stop" /\ pc[p] = "cast"
      BY <1>StopBegin, <1>c DEF StopBegin, Handle, AtWork, At
    <2>2. op'[p] = "stop" /\ pc'[p] \in {"revert", "driver"} /\ UNCHANGED <<row, server>>
      BY <1>StopBegin, <2>1, <1>a, Moves DEF StopBegin, ControlType
    <2> QED BY <2>1, <2>2 DEF row, Stage, Stands
  <1>PowerOffStep. CASE PowerOffStep(p)
    <2>1. op[p] \in {"rescue", "shelve", "offload"} /\ pc[p] \in {"cast", "off"}
      BY <1>PowerOffStep, <1>c DEF PowerOffStep, HandleAny, AtWork, At
    <2>2. server \in ServersOf(vm)
      BY <2>1 DEF Stage, Stands
    <2>3. UNCHANGED row /\ op'[p] = op[p]
      BY <1>PowerOffStep, <1>a, Moves DEF PowerOffStep, CallDriver, Fail
    <2>4. \/ /\ server' = "shutoff"
             /\ \/ op[p] = "rescue" /\ pc'[p] = "driver"
                \/ op[p] = "shelve" /\ pc'[p] = "mark"
                \/ op[p] = "offload" /\ pc'[p] = "o_destroy"
          \/ server' = server /\ pc'[p] \in {"error", "revert"}
      BY <1>PowerOffStep, <2>1, <1>a, Moves, DriverTable
      DEF PowerOffStep, HandleAny, AtWork, At, CallDriver, Fail
    <2> QED BY <2>1, <2>2, <2>3, <2>4 DEF row, Stage, Stands
  <1>DriverStep. CASE DriverStep(p)
    <2>1. /\ op[p] \in DOMAIN Simple
          /\ pc[p] = "cast" \/ (pc[p] = "driver" /\ op[p] \in {"stop", "rescue"})
      BY <1>DriverStep, <1>c, SimpleTable DEF DriverStep, HandleAny, OneCall, AtWork, At
    <2>2. op[p] # "rescue" => server \in ServersOf(vm)
      BY <2>1 DEF Stage, Stands
    <2>3. UNCHANGED row /\ op'[p] = op[p]
      BY <1>DriverStep, <1>a, Moves DEF DriverStep, CallDriver, Fail
    <2>4. \/ pc'[p] = "save" /\ server' \in ServersOf(Simple[op[p]].vm)
          \/ server' = server /\ Fail(p)
      BY <1>DriverStep, <2>1, <1>a, Moves, DriverTable DEF DriverStep, CallDriver
    <2>5. CASE Fail(p) /\ server' = server
      <3>1. pc'[p] = "error" \/ (pc'[p] = "revert" /\ op[p] # "rescue")
        BY <2>5, <1>a, Moves DEF Fail, ErrorsOut
      <3> QED BY <1>e, <2>1, <2>2, <2>3, <2>5, <3>1, SimpleTable DEF row, Stage
    <2>6. CASE pc'[p] = "save" /\ server' \in ServersOf(Simple[op[p]].vm)
      <3>1. op[p] \notin {"snapshot", "backup"}
        BY <2>1, SimpleTable
      <3> QED BY <2>3, <2>6, <3>1 DEF row, Stage, Stands
    <2> QED BY <2>4, <2>5, <2>6
  <1>SimpleSave. CASE SimpleSave(p)
    <2>1. op[p] \in DOMAIN Simple /\ pc[p] = "save" /\ server' = server
      BY <1>SimpleSave DEF SimpleSave, HandleAny, AtWork, At
    <2>2. server \in ServersOf(Simple[op[p]].vm) /\ server # "none"
      BY <2>1, DriverTable DEF Stage, Stands
    <2>3. PICK from : FinalCAS(p, from, Simple[op[p]].vm, "none")
      BY <1>SimpleSave, <1>c, <2>2 DEF SimpleSave
    <2>4. (End(p) \/ EndRaised(p)) /\ (Write(Simple[op[p]].vm, "none") \/ UNCHANGED row)
      BY <2>3, <1>c DEF FinalCAS, Preempted, Rebuilds
    <2> QED BY <1>a, <1>d, <2>1, <2>2, <2>4, Ends DEF Write, row
  <1>Error. CASE Error(p)
    <2>1. pc'[p] = "revert" /\ vm' = "error" /\ UNCHANGED <<task, server>>
      BY <1>Error, <1>a, Moves DEF Error, Write
    <2> QED BY <1>a, <1>e, <2>1, DriverTable DEF Stage
  <1>Revert. CASE Revert(p)
    <2>1. pc[p] = "revert" /\ op'[p] = "none" /\ UNCHANGED <<vm, server>>
      BY <1>Revert, <1>a, <1>c, Ends DEF Revert, Write, AtWork, At
    <2> QED BY <1>d, <1>e, <2>1 DEF Stage
  <1>SnapshotBegin. CASE SnapshotBegin(p)
    <2>1. op[p] = "snapshot" /\ UNCHANGED <<vm, server>>
          /\ task' \in {task, "image_snapshot"}
      BY <1>SnapshotBegin
      DEF SnapshotBegin, Handle, CAS, Write, Preempted, Rebuilds, row
    <2>2. (op'[p] = "snapshot" /\ pc'[p] = "mark") \/ op'[p] = "none"
      BY <1>SnapshotBegin, <2>1, <1>a, Moves, Ends DEF SnapshotBegin, CAS, Preempted
    <2> QED BY <1>d, <2>1, <2>2 DEF Stage, Stands
  <1>ImageMark. CASE ImageMark(p)
    <2>1. /\ \/ op[p] \in {"snapshot", "shelve"} /\ pc[p] = "mark"
             \/ op[p] = "backup" /\ pc[p] = "cast"
          /\ server' = server
      BY <1>ImageMark DEF ImageMark, HandleAny, Handle, AtWork, At
    <2>2. op[p] \in DOMAIN ImageHandler /\ ImageHandler[op[p]].pending # "none"
      BY <2>1, OtherTables, TaskTable DEF Special
    <2>3. vm' = vm /\ (task' = "none" => task = "none")
      BY <1>ImageMark, <1>c, <2>2 DEF ImageMark, CAS, Write, Preempted, Rebuilds, row
    <2>4. \/ op'[p] = op[p] /\ (pc'[p] = "image" \/ (pc'[p] = "revert" /\ op[p] # "shelve"))
          \/ op'[p] = "none"
      BY <1>ImageMark, <1>a, Moves, Ends DEF ImageMark, CAS, Preempted
    <2> QED BY <1>d, <2>1, <2>3, <2>4 DEF Stage, Stands
  <1>ImageCreate. CASE ImageCreate(p)
    <2>1. op[p] \in {"snapshot", "backup", "shelve"} /\ pc[p] = "image" /\ server' = server
      BY <1>ImageCreate, OtherTables DEF ImageCreate, HandleAny, AtWork, At
    <2>2. op[p] \in DOMAIN ImageHandler /\ ImageHandler[op[p]].uploading # "none"
      BY <2>1, OtherTables, TaskTable DEF Special
    <2>3. vm' = vm /\ (task' = "none" => task = "none")
      BY <1>ImageCreate, <1>c, <2>2 DEF ImageCreate, CAS, Write, Preempted, Rebuilds, row
    <2>4. op[p] = "shelve" => server = "shutoff"
      BY <2>1 DEF Stage, Stands
    <2>5. \/ op'[p] = op[p] /\ (pc'[p] = "upload" \/ (pc'[p] = "revert" /\ op[p] # "shelve"))
          \/ op'[p] = "none"
      BY <1>ImageCreate, <2>4, <1>a, Moves, Ends DEF ImageCreate, CAS, Preempted
    <2> QED BY <1>d, <2>1, <2>3, <2>5 DEF Stage, Stands
  <1>ImageUpload. CASE ImageUpload(p)
    <2>1. op[p] \in {"snapshot", "backup"} /\ UNCHANGED <<vm, server>> /\ op'[p] = "none"
      BY <1>ImageUpload, <1>a, <1>c, Ends
      DEF ImageUpload, HandleAny, FinalCAS, Write, Preempted, Rebuilds, row
    <2> QED BY <1>d, <2>1 DEF Stage, Stands
  <1>ShelveUpload. CASE ShelveUpload(p)
    <2>1. op[p] = "shelve" /\ pc[p] = "upload" /\ server' = server
      BY <1>ShelveUpload DEF ShelveUpload, Handle, AtWork, At
    <2>2. server = "shutoff"
      BY <2>1 DEF Stage, Stands
    <2>3. \/ vm' = "shelved" /\ (op'[p] = "none" \/ (op'[p] = "offload" /\ pc'[p] = "off"))
          \/ op'[p] = "none" /\ UNCHANGED row
      <3>1. \/ Write("shelved", "shelving_offloading") /\ Become(p, "offload", "off")
            \/ Write("shelved", "none") /\ (End(p) \/ EndRaised(p))
            \/ UNCHANGED row /\ EndRaised(p)
        BY <1>ShelveUpload, <2>2 DEF ShelveUpload
      <3>2. \A t : Write("shelved", t) => vm' = "shelved"
        BY DEF Write
      <3>3. Become(p, "offload", "off") => op'[p] = "offload" /\ pc'[p] = "off"
        BY <1>a, Moves
      <3>4. End(p) \/ EndRaised(p) => op'[p] = "none"
        BY <1>a, Ends
      <3> QED BY <3>1, <3>2, <3>3, <3>4
    <2> QED BY <1>d, <2>1, <2>2, <2>3, DriverTable DEF row, Stage, Stands
  <1>OffloadDestroy. CASE OffloadDestroy(p)
    <2>1. op[p] = "offload" /\ pc[p] = "o_destroy" /\ UNCHANGED row
      BY <1>OffloadDestroy DEF OffloadDestroy, Handle, AtWork, At
    <2>2. server = "shutoff"
      BY <2>1 DEF Stage, Stands
    <2>3. op'[p] = "offload" /\ pc'[p] = "o_save" /\ server' = "none"
      BY <1>OffloadDestroy, <2>1, <2>2, <1>a, Moves DEF OffloadDestroy, DestroyServer
    <2> QED BY <2>1, <2>3 DEF row, Stage, Stands
  <1>OffloadSave. CASE OffloadSave(p)
    <2>1. pc[p] = "o_save" /\ server' = server /\ op'[p] = "none"
      BY <1>OffloadSave, <1>a, Ends DEF OffloadSave, Handle, AtWork, At
    <2>2. vm' = "shelved_offloaded" \/ UNCHANGED row
      BY <1>OffloadSave DEF OffloadSave
    <2> QED BY <1>d, <2>1, <2>2, DriverTable DEF row, Stage, Stands
  <1>Api. ~ApiStep(p)
    BY <1>b, <1>c
    DEF ApiStep, Request, DeleteMark, DestroyUnhosted, DeleteCast, DeleteLocal, LocalSave,
        LocalDestroy, UnshelveShelved, UnshelveOffloaded, Conduct, At, UserPcs
  <1>Build. ~BuildStep(p)
    BY <1>b, <1>c
    DEF BuildStep, BuildStart, BuildClaim, BuildNetwork, BuildBlockDevices, BuildSpawning,
        BuildSpawn, BuildClean, BuildUnclaim, BuildError, BuildSave, Build, AtWork, At, UserPcs
  <1>Other. ~(\/ Suspend(p) \/ Password(p) \/ PasswordSave(p) \/ RebootBegin(p)
              \/ RebootStart(p) \/ RebootFinal(p) \/ UnshelveBegin(p) \/ UnshelveClaim(p)
              \/ UnshelveSpawn(p) \/ UnshelveUnclaim(p) \/ UnshelveSave(p) \/ RebuildBegin(p)
              \/ RebuildDestroy(p) \/ RebuildBlockDevices(p) \/ RebuildSpawning(p)
              \/ RebuildSpawn(p) \/ RebuildSave(p) \/ RebuildMark(p) \/ RebuildHost(p)
              \/ TerminateBegin(p) \/ TerminateSave(p) \/ TerminatePurge(p)
              \/ TerminateFailed(p))
    BY <1>b, <1>c
    DEF Suspend, Password, PasswordSave, RebootBegin, RebootStart, RebootFinal, Reboots,
        UnshelveBegin, UnshelveClaim, UnshelveSpawn, UnshelveUnclaim, UnshelveSave,
        RebuildBegin, RebuildDestroy, RebuildBlockDevices, RebuildSpawning, RebuildSpawn,
        RebuildSave, RebuildMark, RebuildHost, TerminateBegin, TerminateSave, TerminatePurge,
        TerminateFailed, Unshelve, Rebuild, Rebuilds, Terminates, Handle, HandleAny, AtWork,
        At, UserPcs
  <1> QED
    BY <1>StopBegin, <1>PowerOffStep, <1>DriverStep, <1>SimpleSave, <1>Error, <1>Revert,
       <1>SnapshotBegin, <1>ImageMark, <1>ImageCreate, <1>ImageUpload, <1>ShelveUpload,
       <1>OffloadDestroy, <1>OffloadSave, <1>Api, <1>Build, <1>Other
    DEF Step, HandlerStep

\* the row and the server agree, but for the work in progress
LEMMA AgreeStep ==
  ASSUME Ordered, TypeOK', Driven, OneInv, AgreeInv, NEW p \in Procs, Effect(p),
         Serves(p) => Step(p)
  PROVE  AgreeInv'
  <1> SUFFICES ASSUME Intact'
               PROVE  /\ \A q \in Procs : Serves(q)' =>
                            (task' = "deleting" \/ Expects(q)') /\ Stage(q)'
                      /\ \A q \in Procs : pc'[q] = "b_save" => server' = "active"
                      /\ (\A q \in Procs : ~Serves(q)' /\ op'[q] # "build") /\ task' = "none"
                         => server' \in ServersOf(vm')
    BY DEF AgreeInv
  <1>1. exists' /\ exists /\ Intact
    BY RemovalStep DEF Intact
  <1>2. /\ \A q \in Procs : Serves(q) => (task = "deleting" \/ Expects(q)) /\ Stage(q)
        /\ \A q \in Procs : pc[q] = "b_save" => server = "active"
        /\ (\A q \in Procs : ~Serves(q) /\ op[q] # "build") /\ task = "none"
           => server \in ServersOf(vm)
    BY <1>1 DEF AgreeInv
  <1>3. \A q, r \in Procs : Serves(q) => task # "none" /\ (Serves(r) => r = q)
    BY <1>1 DEF OneInv, Live, Intact, Finishing, Removing
  <1>4. ASSUME NEW q \in Procs \ {p} PROVE op'[q] = op[q] /\ pc'[q] = pc[q]
    BY <1>4
    DEF Effect, LoadEffect, AskEffect, ServeEffect, BuildEffect, DeleteEffect, Alone
  \* nothing changes for the others
  <1>5. ASSUME NEW q \in Procs \ {p}, Serves(q)', UNCHANGED <<vm, server>>,
               task' \in {task, "deleting"}
        PROVE  Serves(q) /\ (task' = "deleting" \/ Expects(q)') /\ Stage(q)'
    <2>1. op'[q] = op[q] /\ pc'[q] = pc[q]
      BY <1>4
    <2> QED BY <1>2, <1>5, <2>1 DEF Serves, Expects, Stage
  <1>6. \A q \in Procs : pc[q] \in BuildPcs => op[q] = "build"
    BY DEF Ordered, RowInv, BuildInv
  <1>7. CASE LoadEffect(p) \/ (AskEffect(p) /\ task' = task) \/ DeleteEffect(p)
    <2>1. /\ UNCHANGED <<vm, server>> /\ task' \in {task, "deleting"}
          /\ op'[p] # "build" /\ pc'[p] # "b_save" /\ ~Serves(p)' /\ ~Serves(p)
      <3>1. CASE LoadEffect(p)
        BY <3>1, Places DEF LoadEffect, row, Serves
      <3>2. CASE AskEffect(p) /\ task' = task
        BY <3>2, Places DEF AskEffect, Serves, Special
      <3>3. CASE DeleteEffect(p)
        <4>1. pc'[p] \notin Removing
          BY DEF Intact
        <4> QED BY <1>1, <3>3, <4>1, Places DEF DeleteEffect, Serves, DeletePcs, Terminates
      <3> QED BY <1>7, <3>1, <3>2, <3>3
    <2>2. op[p] # "build"
      <3>1. pc[p] \notin BuildPcs \cup {"cast"} \/ op[p] \in Users \cup Terminates
        BY <1>7 DEF LoadEffect, AskEffect, DeleteEffect, BuildPcs
      <3> QED BY <3>1, Places DEF Ordered, RowInv, BuildInv
    <2> QED BY <1>2, <1>4, <1>5, <2>1, <2>2 DEF Serves
  <1>8. CASE AskEffect(p) /\ task' # task
    <2>1. /\ task = "none" /\ task' # "none" /\ UNCHANGED <<vm, server>> /\ launched
          /\ \/ op'[p] \in Users /\ pc'[p] = "cast" /\ Expects(p)'
             \/ op'[p] = "none" /\ pc'[p] = "idle"
      BY <1>8 DEF AskEffect, Special
    <2>2. \A q \in Procs : ~Serves(q) /\ op[q] # "build"
      BY <1>3, <2>1 DEF Ordered, RowInv, BuildInv
    <2>3. server' \in ServersOf(vm')
      BY <1>2, <2>1, <2>2
    <2>4. \A q \in Procs \ {p} : ~Serves(q)'
      BY <1>4, <2>2 DEF Serves
    <2>5. Serves(p)' => Expects(p)' /\ Stage(p)'
      BY <2>1, <2>3, Places DEF Serves, Stage, Stands
    <2>6. \A q \in Procs : pc'[q] # "b_save"
      BY <1>4, <1>6, <2>1, <2>2 DEF BuildPcs
    <2> QED BY <2>1, <2>4, <2>5, <2>6
  <1>9. CASE ServeEffect(p)
    <2>1. Serves(p) /\ task # "none" /\ Stage(p) /\ (task = "deleting" \/ Expects(p)) /\ Step(p)
      BY <1>2, <1>3, <1>9 DEF ServeEffect
    <2>2. \A q \in Procs \ {p} : ~Serves(q)'
      BY <1>3, <1>4, <2>1 DEF Serves
    <2>3. op[p] \notin {"suspend", "password", "soft_reboot"}
          /\ Faults \cap {"driver", "image", "destroy"} = {}
      BY <2>1 DEF Serves, Ordered, OfferInv, Driven, NoOp, NoFault, Orderly
    <2>4. /\ Serves(p)' => Stage(p)'
          /\ task' = "none" => server' \in ServersOf(vm')
      BY <1>1, <2>1, <2>3, StageStep DEF Ordered
    <2>5. Serves(p)' => task' = "deleting" \/ Expects(p)'
      BY <1>1, <1>9, <2>1, <2>3, Places DEF ServeEffect, Serves
    <2>6. \A q \in Procs : op[q] # "build"
      BY <2>1, BuildAlone DEF Serves
    <2>7. \A q \in Procs : pc'[q] # "b_save"
      <3>1. pc'[p] # "b_save"
        BY <1>9 DEF ServeEffect, Serves, UserPcs
      <3> QED BY <1>4, <1>6, <2>6, <3>1 DEF BuildPcs
    <2> QED BY <2>2, <2>4, <2>5, <2>7
  <1>10. CASE BuildEffect(p)
    <2>1. op[p] = "build" /\ \A q \in Procs : ~Serves(q)
      BY <1>10, BuildAlone DEF BuildEffect, Serves
    <2>2. \A q \in Procs : ~Serves(q)'
      BY <1>4, <1>10, <2>1, Places DEF BuildEffect, Serves
    <2>3. \A q \in Procs : pc'[q] = "b_save" => server' = "active"
      <3>1. \A q \in Procs \ {p} : op[q] # "build"
        BY <2>1 DEF Ordered, RowInv, BuildInv
      <3>2. \A q \in Procs \ {p} : pc[q] # "b_save"
        BY <1>6, <3>1 DEF BuildPcs
      <3> QED BY <1>4, <1>10, <3>2 DEF BuildEffect
    <2>4. ASSUME op'[p] # "build", task' = "none" PROVE server' \in ServersOf(vm')
      <3>1. vm' = "error" \/ (vm' = "active" /\ server' = server /\ pc[p] = "b_save")
        BY <1>1, <1>10, <2>4 DEF BuildEffect
      <3>2. server' \in Servers
        BY TypePartsNext DEF ServerType
      <3> QED BY <1>2, <3>1, <3>2, DriverTable
    <2> QED BY <2>2, <2>3, <2>4
  <1> QED BY <1>7, <1>8, <1>9, <1>10 DEF Effect

----------------------------------------------------------------------------
(* The theorems.                                                           *)

\* the invariant holds at first: the build waits, alone
LEMMA WorkInit == Init => WorkInv
  <1> SUFFICES ASSUME Init PROVE WorkInv
    OBVIOUS
  <1>1. Builder \in Procs
    BY ConstantsAssumption DEF Init, Builder, Procs
  <1>2. /\ \A p \in Procs : \/ op[p] = "none" /\ pc[p] = "idle"
                            \/ op[p] = "build" /\ pc[p] = "cast"
        /\ op[Builder] = "build" /\ task = "scheduling"
    BY <1>1 DEF Init
  <1>3. \A p \in Procs : op[p] \notin Users \cup Terminates /\ ~Serves(p)
    BY <1>2, UserTable DEF Serves
  <1>4. ShapeInv /\ OfferInv
    BY <1>2, <1>3 DEF ShapeInv, OfferInv
  <1>5. FinishInv /\ OneInv
    BY <1>2, <1>3 DEF FinishInv, OneInv
  <1>6. DoomInv
    BY <1>2, <1>3 DEF DoomInv, DeleteTasks
  <1>7. OwnInv
    BY <1>1, <1>2 DEF OwnInv, Builds
  <1>8. AgreeInv
    BY <1>2, <1>3 DEF AgreeInv
  <1> QED BY <1>4, <1>5, <1>6, <1>7, <1>8 DEF WorkInv

\* and is kept by every step
LEMMA WorkStep == IInv /\ IInv' /\ WorkInv /\ [Next]_vars => WorkInv'
  <1> SUFFICES ASSUME IInv, IInv', WorkInv, [Next]_vars, Orderly' PROVE
           (/\ ShapeInv /\ OfferInv /\ FinishInv
            /\ Guarded => OneInv
            /\ NoFault({"cast"}) => DoomInv /\ OwnInv
            /\ Driven => AgreeInv)'
    BY DEF WorkInv
  <1>1. /\ Orderly /\ (Guarded' => Guarded) /\ (Driven' => Driven)
        /\ (NoFault({"cast"})' => NoFault({"cast"}))
    <2>1. setting' = setting
      BY SettingStep
    <2> QED BY <2>1 DEF Orderly, Guarded, Driven, Calm, NoFault, NoOp, Ops, Faults, MaxCrashes
  <1>2. NoOp({"rebuild", "unshelve"}) /\ NeverForgets /\ Calm
    BY <1>1 DEF Orderly, NoOp, NoFault, NeverForgets
  <1>3. Ordered /\ TypeOK'
    BY <1>1, <1>2 DEF IInv, ServerInv, WorkInv, Ordered
  <1>4. /\ Guarded => OneInv
        /\ NoFault({"cast"}) => DoomInv /\ OwnInv
        /\ Driven => AgreeInv
        /\ Driven => Guarded
    BY <1>1 DEF WorkInv, Driven, Guarded, NoOp
  <1>5. CASE UNCHANGED vars
    <2>1. /\ ShapeInv' /\ OfferInv' /\ FinishInv'
      BY <1>3, <1>5 DEF Ordered, vars, row, env, ShapeInv, OfferInv, FinishInv, Ops
    <2>2. OneInv => OneInv'
      BY <1>5 DEF vars, row, env, OneInv, Live, Finishing, Serves
    <2>3. Doomed' <=> Doomed
      BY <1>5 DEF vars, row, env, Doomed, Committed
    <2>4. DoomInv => DoomInv'
      BY <1>5, <2>3 DEF vars, row, env, DoomInv
    <2>5. \A p \in Procs : /\ Serves(p)' <=> Serves(p)
                           /\ Expects(p)' <=> Expects(p)
                           /\ Builds(p)' <=> Builds(p)
                           /\ Stage(p)' <=> Stage(p)
      BY <1>5 DEF vars, row, env, Serves, Expects, Builds, Stage
    <2>6. OwnInv => OwnInv'
      BY <1>5, <2>3, <2>5 DEF vars, row, env, OwnInv
    <2>7. AgreeInv => AgreeInv'
      BY <1>5, <2>5 DEF vars, row, env, AgreeInv, Intact
    <2> QED BY <1>1, <1>4, <2>1, <2>2, <2>4, <2>6, <2>7
  <1>6. CASE \E p \in Procs : Effect(p) /\ (Serves(p) => Step(p))
    <2>1. PICK p \in Procs : Effect(p) /\ (Serves(p) => Step(p))
      BY <1>6
    <2>2. ShapeInv' /\ OfferInv' /\ FinishInv'
      BY <1>3, <2>1, ShapeStep, OfferStep, FinishStep
    <2>3. Guarded /\ OneInv => OneInv'
      BY <1>3, <2>1, OneStep
    <2>4. NoFault({"cast"}) /\ DoomInv /\ OwnInv => DoomInv' /\ OwnInv'
      BY <1>3, <2>1, DoomStep, OwnStep
    <2>5. Driven /\ OneInv /\ AgreeInv => AgreeInv'
      BY <1>3, <2>1, AgreeStep
    <2> QED BY <1>1, <1>4, <2>2, <2>3, <2>4, <2>5
  <1> QED BY <1>3, <1>5, <1>6, NextWork DEF Effect

\* Without restarts and unconditional saves: a request that is served has a task
\* no other request is served under, a task is somebody's, and the server is
\* where the vm_state and the work in progress say.
THEOREM WorkCorrect == Spec => [](IInv /\ WorkInv)
  BY InvInit, InvStep, WorkInit, WorkStep, PTL DEF Spec

\* The compare-and-swap of the task state lets one operation at a time work on
\* the instance, for any number of concurrent requests; only a delete comes in
\* beside it.
THEOREM OneWorkerCorrect == Spec => []OneWorker
  <1>1. IInv /\ WorkInv => OneWorker
    <2> SUFFICES ASSUME IInv, WorkInv, Calm, NoFault({"destroy"}),
                        NoOp(Unguarded \cup {"restore", "unshelve"}), Live,
                        NEW p \in Procs, NEW q \in Procs, p # q, Busy(p), Busy(q),
                        {op[p], op[q]} \cap Deletes = {}
                 PROVE  FALSE
      BY DEF OneWorker, Live
    <2>1. Orderly /\ Guarded /\ NeverForgets /\ NoOp({"rebuild", "unshelve"})
      BY DEF Orderly, Guarded, NeverForgets, NoOp, NoFault, Unguarded
    <2>2. Ordered /\ OneInv
      BY <2>1 DEF IInv, ServerInv, WorkInv, Ordered
    <2>3. \A r \in {p, q} : Serves(r) \/ op[r] = "build"
      <3>1. \A r \in {p, q} : pc[r] \notin {"idle", "check"} /\ op[r] \notin Terminates
        BY Places DEF Busy, ApiPcs
      <3> QED BY <2>2, <3>1 DEF Ordered, ShapeInv, Serves
    <2>4. CASE Serves(p) /\ Serves(q)
      BY <2>2, <2>4 DEF OneInv
    <2>5. CASE op[p] = "build" \/ op[q] = "build"
      <3>1. op[p] \notin Users /\ op[q] \notin Users
        BY <2>2, <2>5, BuildAlone
      <3>2. op[p] = "build" /\ op[q] = "build"
        BY <2>3, <3>1 DEF Serves
      <3> QED BY <2>2, <3>2 DEF Ordered, RowInv, BuildInv
    <2> QED BY <2>3, <2>4, <2>5
  <1> QED BY <1>1, WorkCorrect, PTL

\* A task state means that somebody works on the instance: whichever save a
\* handler gives up on, no task is left behind, except in 'error'.
THEOREM TaskHasWorkerCorrect == Spec => []TaskHasWorker
  <1>1. IInv /\ WorkInv => TaskHasWorker
    <2> SUFFICES ASSUME IInv, WorkInv, Calm, NoFault({"destroy", "cast"}),
                        NoOp({"rebuild", "hard_reboot", "soft_delete", "restore", "unshelve"}),
                        exists, task # "none", vm # "error"
                 PROVE  \E p \in Procs : pc[p] \notin {"idle", "check"}
      BY DEF TaskHasWorker
    <2>1. Orderly /\ NoFault({"cast"}) /\ NoOp({"rebuild", "unshelve"})
      BY DEF Orderly, NoOp, NoFault
    <2>2. Doomed \/ \E p \in Procs : Serves(p) \/ Builds(p)
      BY <2>1 DEF WorkInv, OwnInv
    <2>3. ASSUME NEW p \in Procs, Committed(p) PROVE pc[p] \notin {"idle", "check"}
      BY <2>3 DEF Committed, Removing
    <2>4. ASSUME NEW p \in Procs, Serves(p) PROVE pc[p] \notin {"idle", "check"}
      BY <2>4, Places DEF Serves
    <2>5. ASSUME NEW p \in Procs, Builds(p) PROVE pc[p] \notin {"idle", "check"}
      BY <2>1, <2>5, Places DEF Builds, IInv, RowInv, BuildInv
    <2> QED BY <2>2, <2>3, <2>4, <2>5 DEF Doomed
  <1> QED BY <1>1, WorkCorrect, PTL

\* Once nobody works on the instance, its vm_state says where its server is,
\* after any race of requests, deletes and the build.
THEOREM QuietAgreesCorrect == Spec => []QuietAgrees
  <1>1. IInv /\ WorkInv => QuietAgrees
    <2> SUFFICES ASSUME IInv, WorkInv, Calm, NoFault({"driver", "image", "destroy"}),
                        NoOp(Unguarded \cup {"restore", "soft_reboot", "unshelve"}),
                        exists, task = "none", \A p \in Procs : pc[p] \in {"idle", "check"}
                 PROVE  server \in ServersOf(vm)
      BY DEF QuietAgrees
    <2>1. Orderly /\ Driven /\ NoOp({"rebuild", "unshelve"})
      BY DEF Orderly, Driven, NoOp, NoFault, Unguarded
    <2>2. AgreeInv
      BY <2>1 DEF WorkInv
    <2>3. Intact
      BY DEF Intact, Removing
    <2>4. ASSUME NEW p \in Procs PROVE ~Serves(p) /\ op[p] # "build"
      <3>1. pc[p] \notin BuildPcs \cup {"cast"} /\ pc[p] \notin UserPcs
        BY Places
      <3> QED BY <2>1, <3>1 DEF Serves, IInv, RowInv, BuildInv
    <2> QED BY <2>2, <2>3, <2>4 DEF AgreeInv
  <1> QED BY <1>1, WorkCorrect, PTL
=============================================================================
