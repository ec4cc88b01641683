---------------------------- MODULE VolumeAttach ----------------------------
(***************************************************************************)
(* One single-attach volume of the storage service, the instances that     *)
(* want it, and everything that writes its status: the attach and detach   *)
(* protocol the compute service runs against the storage API, the storage  *)
(* manager's handlers, delete, extend, upload-to-image, and a restart of   *)
(* the manager.  A database transaction and a compare-and-swap             *)
(* (conditional_update) are one step; every remote call, lock acquisition  *)
(* and driver call separates two steps.                                    *)
(***************************************************************************)
EXTENDS Naturals, FiniteSets

CONSTANTS
    Instances,   \* compute instances that attach and detach the volume
    Local,       \* those whose compute manager runs in the volume's worker
    AttIds,      \* attachment ids (uuids): bounds the attach attempts
    CallIds,     \* attach and detach calls in flight at the same time
    Ops,         \* status-changing operations offered besides attach, detach
    Faults,      \* what may go wrong
    MaxCrashes,  \* bound on restarts of the storage manager
    NoInst, NoAtt, NoCall, Nobody, Gone

AllOps == {"delete", "force_delete", "extend", "upload", "upload_force"}
AllFaults == {"connect", "virt_attach", "virt_detach", "attach", "mode",
              "terminate", "detach", "delete", "busy", "extend", "timeout",
              "cast"}

ASSUME ConstantsAssumption ==
    /\ Local \subseteq Instances
    /\ Ops \subseteq AllOps /\ Faults \subseteq AllFaults
    /\ MaxCrashes \in Nat
    /\ NoInst \notin Instances /\ NoAtt \notin AttIds /\ NoCall \notin CallIds
    /\ {Nobody, Gone} \cap Instances = {} /\ Nobody # Gone

VARIABLES
    status,        \* volumes.status; "deleted" once the row is soft-deleted
    attachStatus,  \* volumes.attach_status
    rows,          \* volume_attachment, by attachment id
    plugged,       \* provider volume: who has it, Nobody, or Gone (removed, or
                   \* accepted for removal: no server gets it any more)
    client,        \* per instance: where its compute-side attach/detach stands
    seen,          \* per instance: attach_status read by bdm.attach
    cAtt,          \* per instance: attachment id the client is detaching
    waits,         \* per instance: the call whose answer the client awaits
    calls,         \* attach_volume and detach_volume calls, queued or running
    del,           \* delete_volume handlers: the user's cast, init_host's resume
    ext, upl,      \* an extend request and an upload request
    mgr,           \* the manager: up, down, or where init_host stands
    crashes

record == <<status, attachStatus, rows>>
compute == <<client, seen, cAtt, waits>>
jobs   == <<del, ext, upl>>
vars   == <<record, plugged, compute, calls, jobs, mgr, crashes>>

Statuses == {"available", "attaching", "in-use", "detaching", "deleting",
             "error_deleting", "error_attaching", "extending",
             "error_extending", "uploading", "deleted"}
RowStates == {"absent", "attaching", "attached", "error_attaching",
              "error_detaching", "detached"}
ClientPcs == {"idle", "checked", "reserved", "connecting", "plugged", "calling",
              "fail_term", "undo_unplug", "undo_term", "undo_detach",
              "undo_wait", "undo_unreserve", "attached", "det_begin",
              "detaching", "det_term", "det_send", "det_wait"}
CallPcs == {"queued", "clear", "driver", "save", "ok", "err"}
DelPcs  == {"none", "queued", "driver", "destroy"}
JobPcs  == {"none", "checked", "queued"}
Deleters == {"user", "init"}
MgrPcs  == {"up", "down", "boot_deleting", "boot_uploading", "boot_other", "init"}

RowRecords  == [st: RowStates, inst: Instances \cup {NoInst}]
Idle == [op |-> "none", pc |-> "ok", inst |-> NoInst, att |-> NoAtt]
CallRecords == {Idle} \cup [op: {"attach", "detach"}, pc: CallPcs,
                            inst: Instances, att: AttIds \cup {NoAtt}]
Request(o, i, a) == [op |-> o, pc |-> "queued", inst |-> i, att |-> a]

TypeOK ==
    /\ status \in Statuses
    /\ attachStatus \in {"attached", "detached"}
    /\ rows \in [AttIds -> RowRecords]
    /\ plugged \in Instances \cup {Nobody, Gone}
    /\ client \in [Instances -> ClientPcs]
    /\ seen \in [Instances -> {"attached", "detached"}]
    /\ cAtt \in [Instances -> AttIds \cup {NoAtt}]
    /\ waits \in [Instances -> CallIds \cup {NoCall}]
    /\ calls \in [CallIds -> CallRecords]
    /\ del \in [Deleters -> DelPcs]
    /\ ext \in JobPcs /\ upl \in JobPcs
    /\ mgr \in MgrPcs
    /\ crashes \in 0..MaxCrashes

Init ==
    /\ status = "available" /\ attachStatus = "detached"
    /\ rows = [a \in AttIds |-> [st |-> "absent", inst |-> NoInst]]
    /\ plugged = Nobody
    /\ client = [i \in Instances |-> "idle"]
    /\ seen = [i \in Instances |-> "detached"]
    /\ cAtt = [i \in Instances |-> NoAtt]
    /\ waits = [i \in Instances |-> NoCall]
    /\ calls = [c \in CallIds |-> Idle]
    /\ del = [d \in Deleters |-> "none"]
    /\ ext = "none" /\ upl = "none"
    /\ mgr = "up" /\ crashes = 0

----------------------------------------------------------------------------
(* The attachment rows the queries see.                                    *)

\* rows that are neither soft-deleted nor 'detached'
LiveRows == {a \in AttIds : rows[a].st \notin {"absent", "detached"}}

\* volume_attachment_get_by_instance_uuid: a row carries its instance only
\* once volume_attached has run, so failed attempts are never found
RowsOf(i) == {a \in LiveRows : rows[a].inst = i}

\* volume_has_attachments_filter / the volume_attachment relation
StatusByAttachment == IF LiveRows = {} THEN "available" ELSE "in-use"

----------------------------------------------------------------------------
(* Compare-and-swap operations of the storage API.                         *)

\* unreserve_volume: attaching -> in-use or available; anything else stays
UnreserveVolume ==
    status' = IF status = "attaching" THEN StatusByAttachment ELSE status

\* roll_detaching: detaching -> in-use
RollDetaching ==
    status' = IF status = "detaching" THEN "in-use" ELSE status

\* volume_attachment_update of a row that is still there
MarkRow(a, st) ==
    rows' = IF a \in LiveRows THEN [rows EXCEPT ![a].st = st] ELSE rows

\* mutant: the remaining rows are counted before the row is dropped
VolumeDetachedEarlyCount(a) ==
    /\ MarkRow(a, "detached")
    /\ attachStatus' = IF LiveRows = {} THEN "detached" ELSE "attached"
    /\ status' = IF LiveRows # {} THEN "in-use"
                 ELSE IF status = "uploading" THEN status ELSE "available"

\* volume_detached: drop the row (if there is one), then set the status from
\* the rows that remain, leaving 'uploading' for the upload to clear
VolumeDetached(a) ==
    LET remain == LiveRows \ {a} IN
    /\ MarkRow(a, "detached")
    /\ attachStatus' = IF remain = {} THEN "detached" ELSE "attached"
    /\ status' = IF remain # {} THEN "in-use"
                 ELSE IF status = "uploading" THEN status ELSE "available"

FreeCalls == {c \in CallIds : calls[c] = Idle /\ \A i \in Instances : waits[i] # c}

Move(i, from, to) == client[i] = from /\ client' = [client EXCEPT ![i] = to]

Elsewhere == UNCHANGED <<seen, cAtt, waits, calls, jobs, mgr, crashes>>

----------------------------------------------------------------------------
(* The compute side of an attach.                                          *)

\* bound: an attempt starts only while an attachment id is left for it
IdsLeft ==
    Cardinality({a \in AttIds : rows[a].st = "absent"})
      > Cardinality({i \in Instances :
                       client[i] \in {"checked", "reserved", "connecting", "plugged"}})
        + Cardinality({c \in CallIds : calls[c].op = "attach" /\ calls[c].pc = "queued"})

\* API: the volume is read, check_attach
CheckAttach(i) ==
    /\ Move(i, "idle", "checked") /\ IdsLeft
    /\ status = "available" /\ attachStatus = "detached"
    /\ UNCHANGED <<record, plugged>> /\ Elsewhere

\* mutant: the compare-and-swap forgets the status it expects
ReserveAnyStatus(i) ==
    /\ Move(i, "checked", "reserved")
    /\ status # "deleted"
    /\ status' = "attaching"
    /\ UNCHANGED <<attachStatus, rows, plugged>> /\ Elsewhere

\* API: reserve_volume, conditional on the status alone
Reserve(i) ==
    /\ Move(i, "checked", "reserved")
    /\ status = "available" /\ status' = "attaching"
    /\ UNCHANGED <<attachStatus, rows, plugged>> /\ Elsewhere

ReserveFails(i) ==
    /\ Move(i, "checked", "idle")
    /\ status # "available"
    /\ UNCHANGED <<record, plugged>> /\ Elsewhere

\* API: the rpc to the compute manager fails, only the bdm is destroyed
LoseAttachRequest(i) ==
    /\ "cast" \in Faults
    /\ Move(i, "reserved", "idle")
    /\ UNCHANGED <<record, plugged>> /\ Elsewhere

\* bdm.attach: volume_api.get, then initialize_connection
ReadVolume(i) ==
    /\ Move(i, "reserved", "connecting")
    /\ status # "deleted"
    /\ seen' = [seen EXCEPT ![i] = attachStatus]
    /\ UNCHANGED <<record, plugged, cAtt, waits, calls, jobs, mgr, crashes>>

\* the volume cannot be read; or initialize_connection fails, and the client
\* library terminates the connection on its way out
ReadFails(i) ==
    /\ \/ status = "deleted" /\ Move(i, "reserved", "undo_unreserve")
       \/ "connect" \in Faults /\ Move(i, "reserved", "fail_term")
    /\ UNCHANGED <<record, plugged>> /\ Elsewhere

\* bdm.attach: virt_driver.attach_volume; the provider gives the volume to
\* one server only
VirtAttach(i) ==
    /\ Move(i, "connecting", "plugged")
    /\ plugged \in {Nobody, i} /\ plugged' = i
    /\ UNCHANGED record /\ Elsewhere

VirtAttachFails(i) ==
    /\ Move(i, "connecting", "fail_term")
    /\ "virt_attach" \in Faults \/ plugged \notin {Nobody, i}
    /\ seen' = [seen EXCEPT ![i] = "detached"]
    /\ UNCHANGED <<record, plugged, cAtt, waits, calls, jobs, mgr, crashes>>

\* terminate_connection ends in unreserve_volume; when the manager or the
\* driver fails it raises before that
Terminate(i, from, to, onError) ==
    /\ \/ Move(i, from, to) /\ UnreserveVolume
       \/ /\ "terminate" \in Faults \/ status = "deleted"
          /\ Move(i, from, onError) /\ UNCHANGED status
    /\ UNCHANGED <<attachStatus, rows, plugged>> /\ Elsewhere

FailTerminate(i) == Terminate(i, "fail_term", "undo_unreserve", "undo_unreserve")

\* an rpc call to the storage manager; the caller then waits for its answer
SendCall(i, from, to, request) ==
    /\ Move(i, from, to)
    /\ \E c \in FreeCalls :
         /\ calls' = [calls EXCEPT ![c] = request]
         /\ waits' = [waits EXCEPT ![i] = c]
    /\ cAtt' = [cAtt EXCEPT ![i] = NoAtt]
    /\ UNCHANGED <<record, plugged, seen, jobs, mgr, crashes>>

\* bdm.attach: volume_api.attach, skipped when the volume read earlier was
\* already attached
SendAttach(i) ==
    /\ seen[i] = "detached"
    /\ SendCall(i, "plugged", "calling", Request("attach", i, NoAtt))

SkipAttach(i) ==
    /\ Move(i, "plugged", "attached")
    /\ seen[i] = "attached"
    /\ seen' = [seen EXCEPT ![i] = "detached"]
    /\ UNCHANGED <<record, plugged, cAtt, waits, calls, jobs, mgr, crashes>>

\* the answer, or giving up on it: a message timeout, or the manager died
\* under the call
Answered(i, pc) ==
    /\ waits[i] # NoCall /\ calls[waits[i]].op # "none" /\ calls[waits[i]].pc = pc
    /\ calls' = [calls EXCEPT ![waits[i]] = Idle]

NoAnswer(i) ==
    /\ waits[i] # NoCall
    /\ "timeout" \in Faults \/ calls[waits[i]] = Idle
    /\ UNCHANGED calls

StopWaiting(i) ==
    /\ waits' = [waits EXCEPT ![i] = NoCall]
    /\ UNCHANGED <<record, plugged, seen, cAtt, jobs, mgr, crashes>>

AttachReturns(i) ==
    /\ Move(i, "calling", "attached")
    /\ Answered(i, "ok") /\ StopWaiting(i)

AttachRaises(i) ==
    /\ Move(i, "calling", "undo_unplug")
    /\ Answered(i, "err") \/ NoAnswer(i)
    /\ StopWaiting(i)

\* except branch of bdm.attach: virt_driver.detach_volume, errors ignored
UndoUnplug(i) ==
    /\ Move(i, "undo_unplug", "undo_term")
    /\ \/ plugged' = IF plugged = Gone THEN Gone ELSE Nobody
       \/ "virt_detach" \in Faults /\ plugged' = plugged
    /\ UNCHANGED record /\ Elsewhere

\* when it raises, the volume_api.detach below is skipped
UndoTerminate(i) == Terminate(i, "undo_term", "undo_detach", "undo_unreserve")

\* volume_api.detach(context, volume_id): no attachment id
UndoDetach(i) == SendCall(i, "undo_detach", "undo_wait", Request("detach", i, NoAtt))

UndoDetachReturns(i) ==
    /\ Move(i, "undo_wait", "undo_unreserve")
    /\ Answered(i, "ok") \/ Answered(i, "err") \/ NoAnswer(i)
    /\ StopWaiting(i)

\* mutant: the exception leaves _attach_volume without unreserve_volume
UndoWithoutUnreserve(i) ==
    /\ Move(i, "undo_unreserve", "idle")
    /\ UNCHANGED <<record, plugged>> /\ Elsewhere

\* _attach_volume: unreserve_volume before the exception goes on
UndoUnreserve(i) ==
    /\ Move(i, "undo_unreserve", "idle")
    /\ UnreserveVolume
    /\ UNCHANGED <<attachStatus, rows, plugged>> /\ Elsewhere

----------------------------------------------------------------------------
(* The compute side of a detach.                                           *)

\* mutant: remembers the instance's uuid where the attachment's id belongs
DetachReadInstance(i) ==
    /\ Move(i, "attached", "det_begin")
    /\ status # "available" /\ attachStatus = "attached"
    /\ cAtt' = [cAtt EXCEPT ![i] = i]
    /\ UNCHANGED <<record, plugged, seen, waits, calls, jobs, mgr, crashes>>

\* API: the volume is read, check_detach
DetachRead(i) ==
    /\ Move(i, "attached", "det_begin")
    /\ status # "available" /\ attachStatus = "attached"
    /\ \E a \in RowsOf(i) : cAtt' = [cAtt EXCEPT ![i] = a]
    /\ UNCHANGED <<record, plugged, seen, waits, calls, jobs, mgr, crashes>>

\* API: begin_detaching
BeginDetaching(i) ==
    /\ Move(i, "det_begin", "detaching")
    /\ status = "in-use" /\ attachStatus = "attached"
    /\ status' = "detaching"
    /\ UNCHANGED <<attachStatus, rows, plugged>> /\ Elsewhere

BeginDetachingFails(i) ==
    /\ Move(i, "det_begin", "attached")
    /\ ~(status = "in-use" /\ attachStatus = "attached")
    /\ cAtt' = [cAtt EXCEPT ![i] = NoAtt]
    /\ UNCHANGED <<record, plugged, seen, waits, calls, jobs, mgr, crashes>>

\* _driver_detach_volume: the provider detaches the volume from whoever has it
VirtDetach(i) ==
    /\ Move(i, "detaching", "det_term")
    /\ plugged # Gone /\ plugged' = Nobody
    /\ UNCHANGED record /\ Elsewhere

VirtDetachFails(i) ==
    /\ "virt_detach" \in Faults \/ plugged = Gone
    /\ Move(i, "detaching", "attached")
    /\ RollDetaching
    /\ cAtt' = [cAtt EXCEPT ![i] = NoAtt]
    /\ UNCHANGED <<attachStatus, rows, plugged, seen, waits, calls, jobs, mgr, crashes>>

\* when it raises, the block device mapping stays and the volume 'detaching'
DetachTerminate(i) == Terminate(i, "det_term", "det_send", "attached")

SendDetach(i) == SendCall(i, "det_send", "det_wait", Request("detach", i, cAtt[i]))

\* whatever the call answers, the compute manager has nothing to undo
DetachReturns(i) ==
    /\ Move(i, "det_wait", "idle")
    /\ Answered(i, "ok") \/ Answered(i, "err") \/ NoAnswer(i)
    /\ StopWaiting(i)

\* an answer nobody waits for any more is dropped
DropReply(c) ==
    /\ calls[c].op # "none" /\ calls[c].pc \in {"ok", "err"}
    /\ \A i \in Instances : waits[i] # c
    /\ calls' = [calls EXCEPT ![c] = Idle]
    /\ UNCHANGED <<record, plugged, compute, jobs, mgr, crashes>>

----------------------------------------------------------------------------
(* The storage manager's handlers of one call.                             *)

CallStep(c, op, from, to, a) ==
    /\ calls[c].op = op /\ calls[c].pc = from
    /\ calls' = [calls EXCEPT ![c] = [@ EXCEPT !.pc = to, !.att = a]]
    /\ UNCHANGED <<compute, jobs, mgr, crashes>>

\* a handler starts only in a serving manager and under its lock: attach
\* under the lock named volume_id, detach under volume_id-detach_volume
Running(op) == {c \in CallIds : calls[c].op = op
                                /\ calls[c].pc \in {"clear", "driver", "save"}}

\* mutant: the handlers take no lock
CallStartUnlocked(c, op, to, a) ==
    /\ mgr = "up"
    /\ CallStep(c, op, "queued", to, a)

CallStart(c, op, to, a) ==
    /\ mgr = "up" /\ Running(op) = {}
    /\ CallStep(c, op, "queued", to, a)

\* attach_volume: the volume is gone, or already attached
AttachRefused(c) ==
    /\ CallStart(c, "attach", "err", NoAtt)
    /\ status \in {"in-use", "deleted"}
    /\ UNCHANGED <<record, plugged>>

AttachAgain(c) ==
    /\ CallStart(c, "attach", "ok", NoAtt)
    /\ status \notin {"in-use", "deleted"} /\ RowsOf(calls[c].inst) # {}
    /\ status' = "in-use"
    /\ UNCHANGED <<attachStatus, rows, plugged>>

AttachStart(c) ==
    \E a \in AttIds :
      /\ CallStart(c, "attach", "driver", a)
      /\ status \notin {"in-use", "deleted"} /\ RowsOf(calls[c].inst) = {}
      /\ rows[a].st = "absent"
      /\ rows' = [rows EXCEPT ![a].st = "attaching"]
      /\ UNCHANGED <<status, attachStatus, plugged>>

\* readonly volume, mode not 'ro': the row is left 'attaching'
AttachBadMode(c) ==
    /\ CallStep(c, "attach", "driver", "err", NoAtt)
    /\ "mode" \in Faults
    /\ status' = IF status = "deleted" THEN status ELSE "error_attaching"
    /\ UNCHANGED <<attachStatus, rows, plugged>>

AttachDriver(c) ==
    /\ CallStep(c, "attach", "driver", "save", calls[c].att)
    /\ plugged \in {Nobody, calls[c].inst} /\ plugged' = calls[c].inst
    /\ UNCHANGED record

AttachDriverFails(c) ==
    /\ CallStep(c, "attach", "driver", "err", NoAtt)
    /\ "attach" \in Faults \/ plugged \notin {Nobody, calls[c].inst}
    /\ MarkRow(calls[c].att, "error_attaching")
    /\ UNCHANGED <<status, attachStatus, plugged>>

\* mutant: volume_attached forgets the instance
AttachSaveNoInstance(c) ==
    /\ CallStep(c, "attach", "save", "ok", NoAtt)
    /\ status # "deleted" /\ calls[c].att \in LiveRows
    /\ rows' = [rows EXCEPT ![calls[c].att].st = "attached"]
    /\ status' = "in-use" /\ attachStatus' = "attached"
    /\ UNCHANGED plugged

\* volume_attached: one transaction over the row and the volume, which fails
\* as a whole when either is gone
AttachSave(c) ==
    /\ CallStep(c, "attach", "save", "ok", NoAtt)
    /\ status # "deleted" /\ calls[c].att \in LiveRows
    /\ rows' = [rows EXCEPT ![calls[c].att] =
                  [st |-> "attached", inst |-> calls[c].inst]]
    /\ status' = "in-use" /\ attachStatus' = "attached"
    /\ UNCHANGED plugged

AttachSaveFails(c) ==
    /\ CallStep(c, "attach", "save", "err", NoAtt)
    /\ status = "deleted" \/ calls[c].att \notin LiveRows
    /\ UNCHANGED <<record, plugged>>

\* detach_volume: the volume is gone, or there are several rows and no id to
\* choose by
DetachRefused(c) ==
    /\ CallStart(c, "detach", "err", NoAtt)
    /\ \/ status = "deleted"
       \/ calls[c].att = NoAtt /\ Cardinality(LiveRows) > 1
    /\ UNCHANGED <<record, plugged>>

\* the attachment id is unknown or already detached
DetachUnknown(c) ==
    /\ CallStart(c, "detach", "ok", NoAtt)
    /\ status # "deleted"
    /\ calls[c].att \notin LiveRows \cup {NoAtt}
    /\ VolumeDetached(calls[c].att)
    /\ UNCHANGED plugged

\* by id, or without id the only row there is
DetachStart(c) ==
    \E a \in LiveRows :
      /\ CallStart(c, "detach", "driver", a)
      /\ status # "deleted"
      /\ calls[c].att = a \/ (calls[c].att = NoAtt /\ LiveRows = {a})
      /\ UNCHANGED <<record, plugged>>

\* without id and without rows the volume is marked detached, in a write of
\* its own
DetachNothing(c) ==
    /\ CallStart(c, "detach", "clear", NoAtt)
    /\ status # "deleted" /\ calls[c].att = NoAtt /\ LiveRows = {}
    /\ UNCHANGED <<record, plugged>>

DetachClear(c) ==
    /\ CallStep(c, "detach", "clear", "ok", NoAtt)
    /\ status # "deleted"
    /\ status' = "available" /\ attachStatus' = "detached"
    /\ UNCHANGED <<rows, plugged>>

DetachDriver(c) ==
    /\ CallStep(c, "detach", "driver", "save", calls[c].att)
    /\ plugged' = IF plugged = Gone THEN Gone ELSE Nobody
    /\ UNCHANGED record

DetachDriverFails(c) ==
    /\ CallStep(c, "detach", "driver", "err", NoAtt)
    /\ "detach" \in Faults
    /\ MarkRow(calls[c].att, "error_detaching")
    /\ UNCHANGED <<status, attachStatus, plugged>>

DetachSave(c) ==
    /\ CallStep(c, "detach", "save", "ok", NoAtt)
    /\ status # "deleted"
    /\ VolumeDetached(calls[c].att)
    /\ UNCHANGED plugged

\* the volume went away under the handler
DetachVolumeGone(c) ==
    /\ \E pc \in {"clear", "save"} : CallStep(c, "detach", pc, "err", NoAtt)
    /\ status = "deleted"
    /\ UNCHANGED <<record, plugged>>

----------------------------------------------------------------------------
(* Delete.                                                                 *)

DelStep(d, from, to) ==
    /\ del[d] = from /\ del' = [del EXCEPT ![d] = to]
    /\ UNCHANGED <<attachStatus, rows, compute, calls, ext, upl, crashes>>

DelLockFree == \A d \in Deleters : del[d] \notin {"driver", "destroy"}

\* mutant: a reserved volume may be deleted
DeleteRequestReserved ==
    /\ "delete" \in Ops
    /\ status \in {"available", "attaching", "error_extending"}
    /\ attachStatus # "attached"
    /\ status' = "deleting"
    /\ DelStep("user", "none", "queued")
    /\ UNCHANGED <<plugged, mgr>>

\* API.delete: one conditional_update, then the cast.  force=True drops the
\* condition on the status and leaves the one on attach_status.  Bound: one
\* delete of a user at a time
DeleteRequest ==
    /\ attachStatus # "attached"
    /\ \/ "delete" \in Ops /\ status \in {"available", "error_extending"}
       \/ "force_delete" \in Ops /\ status # "deleted"
    /\ status' = "deleting"
    /\ \/ DelStep("user", "none", "queued")
       \/ "cast" \in Faults /\ DelStep("user", "none", "none")
    /\ UNCHANGED <<plugged, mgr>>

\* what init_host does after the delete it resumed: serve, or, when it raised,
\* fail, so that the service starts again
AfterDelete(d, raised) ==
    mgr' = IF d = "init" /\ raised THEN "down" ELSE "up"

\* manager.delete_volume: refresh; a volume that is gone ends the handler, one
\* that is still attached makes it raise, the status stays as it is
DeleteStart(d) ==
    /\ mgr = IF d = "init" THEN "init" ELSE "up"
    /\ DelLockFree
    /\ IF status = "deleted" \/ attachStatus = "attached"
       THEN /\ DelStep(d, "queued", "none")
            /\ AfterDelete(d, status # "deleted")
       ELSE DelStep(d, "queued", "driver") /\ UNCHANGED mgr
    /\ UNCHANGED <<status, plugged>>

\* the provider refuses to delete a volume a server uses
DeleteDriver(d) ==
    /\ plugged \in {Nobody, Gone}
    /\ DelStep(d, "driver", "destroy")
    /\ plugged' = Gone
    /\ UNCHANGED <<status, mgr>>

DeleteDriverFails(d) ==
    /\ DelStep(d, "driver", "none")
    /\ \/ "busy" \in Faults /\ status' = "available" /\ AfterDelete(d, FALSE)
       \/ /\ "delete" \in Faults \/ plugged \in Instances
          /\ status' = "error_deleting" /\ AfterDelete(d, TRUE)
    /\ UNCHANGED plugged

DeleteDestroy(d) ==
    /\ DelStep(d, "destroy", "none")
    /\ status' = "deleted" /\ AfterDelete(d, FALSE)
    /\ UNCHANGED plugged

----------------------------------------------------------------------------
(* Extend and upload: the status is checked on a volume read earlier and   *)
(* written without a condition.                                            *)

JobFrame == UNCHANGED <<attachStatus, rows, plugged, compute, calls, del, mgr, crashes>>

ExtendCheck ==
    /\ "extend" \in Ops /\ ext = "none" /\ status = "available"
    /\ ext' = "checked"
    /\ UNCHANGED <<status, upl>> /\ JobFrame

\* volume.save() of a volume that is gone raises and ends the request
ExtendWrite ==
    /\ ext = "checked"
    /\ IF status = "deleted" THEN ext' = "none" /\ UNCHANGED status
       ELSE ext' = "queued" /\ status' = "extending"
    /\ UNCHANGED upl /\ JobFrame

ExtendVolume ==
    /\ mgr = "up" /\ ext = "queued" /\ ext' = "none"
    /\ IF status = "deleted" THEN UNCHANGED status
       ELSE \/ plugged # Gone /\ status' = "available"
            \/ /\ "extend" \in Faults \/ plugged = Gone
               /\ status' = "error_extending"
    /\ UNCHANGED upl /\ JobFrame

UploadCheck ==
    /\ upl = "none"
    /\ \/ "upload" \in Ops /\ status = "available"
       \/ "upload_force" \in Ops /\ status \in {"available", "in-use"}
    /\ upl' = "checked"
    /\ UNCHANGED <<status, ext>> /\ JobFrame

UploadWrite ==
    /\ upl = "checked"
    /\ IF status = "deleted" THEN upl' = "none" /\ UNCHANGED status
       ELSE upl' = "queued" /\ status' = "uploading"
    /\ UNCHANGED ext /\ JobFrame

\* copy_volume_to_image: whatever the driver did, the status is recomputed
CopyVolumeToImage ==
    /\ mgr = "up" /\ upl = "queued" /\ upl' = "none"
    /\ status' = IF status = "deleted" THEN status ELSE StatusByAttachment
    /\ UNCHANGED ext /\ JobFrame

----------------------------------------------------------------------------
(* The worker process dies: the storage manager's handlers and locks       *)
(* vanish, and so do the requests of the compute manager in the same       *)
(* worker; queued messages stay.  Before the rpc server starts, init_host reads the       *)
(* volumes once, then repairs 'uploading' and resumes 'deleting'.          *)


\* requests that run in the compute manager, and where they leave the instance
AttachPcs == {"connecting", "plugged", "calling", "fail_term", "undo_unplug",
                   "undo_term", "undo_detach", "undo_wait", "undo_unreserve"}
Queueable == {"reserved", "detaching"}

AfterKill(pc) ==
    IF pc \in AttachPcs \cup {"reserved", "det_send", "det_wait"} THEN "idle"
    ELSE IF pc \in {"detaching", "det_term"} THEN "attached"
    ELSE pc

\* Lost: the requests that had already been taken from the queue
KillClients(Lost) ==
    LET dead == {i \in Local : client[i] \notin {"idle", "checked", "attached", "det_begin"}
                              /\ (client[i] \in Queueable => i \in Lost)} IN
    /\ client' = [i \in Instances |-> IF i \in dead THEN AfterKill(client[i]) ELSE client[i]]
    /\ seen'   = [i \in Instances |-> IF i \in dead THEN "detached" ELSE seen[i]]
    /\ cAtt'   = [i \in Instances |-> IF i \in dead THEN NoAtt ELSE cAtt[i]]
    /\ waits'  = [i \in Instances |-> IF i \in dead THEN NoCall ELSE waits[i]]

Crash ==
    /\ mgr # "down" /\ crashes < MaxCrashes
    /\ mgr' = "down" /\ crashes' = crashes + 1
    /\ calls' = [c \in CallIds |->
                   IF c \in Running("attach") \cup Running("detach")
                   THEN Idle ELSE calls[c]]
    /\ del' = [user |-> IF del["user"] = "queued" THEN "queued" ELSE "none",
               init |-> "none"]
    /\ \E Lost \in SUBSET Local : KillClients(Lost)
    /\ UNCHANGED <<record, plugged, ext, upl>>

InitHostRead ==
    /\ mgr = "down"
    /\ mgr' = CASE status = "deleting" -> "boot_deleting"
                [] status = "uploading" -> "boot_uploading"
                [] OTHER -> "boot_other"
    /\ UNCHANGED <<record, plugged, compute, calls, jobs, crashes>>

InitHost ==
    /\ status' = IF mgr = "boot_uploading" THEN StatusByAttachment ELSE status
    /\ \/ /\ mgr = "boot_deleting" /\ mgr' = "init"
          /\ del' = [del EXCEPT !["init"] = "queued"]
       \/ /\ mgr \in {"boot_uploading", "boot_other"} /\ mgr' = "up"
          /\ UNCHANGED del
    /\ UNCHANGED <<attachStatus, rows, plugged, compute, calls, ext, upl, crashes>>

----------------------------------------------------------------------------
ClientStep(i) ==
    \/ Reserve(i) \/ ReserveFails(i) \/ ReadVolume(i) \/ ReadFails(i) \/ LoseAttachRequest(i)
    \/ VirtAttach(i) \/ VirtAttachFails(i) \/ FailTerminate(i)
    \/ SendAttach(i) \/ SkipAttach(i) \/ AttachReturns(i) \/ AttachRaises(i)
    \/ UndoUnplug(i) \/ UndoTerminate(i) \/ UndoDetach(i)
    \/ UndoDetachReturns(i) \/ UndoUnreserve(i)
    \/ BeginDetaching(i) \/ BeginDetachingFails(i)
    \/ VirtDetach(i) \/ VirtDetachFails(i)
    \/ DetachTerminate(i) \/ SendDetach(i) \/ DetachReturns(i)

AttachHandler(c) ==
    \/ AttachRefused(c) \/ AttachAgain(c) \/ AttachStart(c) \/ AttachBadMode(c)
    \/ AttachDriver(c) \/ AttachDriverFails(c) \/ AttachSave(c) \/ AttachSaveFails(c)

DetachHandler(c) ==
    \/ DetachRefused(c) \/ DetachUnknown(c) \/ DetachStart(c) \/ DetachNothing(c)
    \/ DetachClear(c) \/ DetachDriver(c) \/ DetachDriverFails(c) \/ DetachSave(c)
    \/ DetachVolumeGone(c)

DeleteHandler(d) ==
    \/ DeleteStart(d) \/ DeleteDriver(d) \/ DeleteDriverFails(d) \/ DeleteDestroy(d)

JobStep == \/ ExtendCheck \/ ExtendWrite \/ ExtendVolume
           \/ UploadCheck \/ UploadWrite \/ CopyVolumeToImage

Next ==
    \/ \E i \in Instances : CheckAttach(i) \/ DetachRead(i) \/ ClientStep(i)
    \/ \E c \in CallIds : AttachHandler(c) \/ DetachHandler(c) \/ DropReply(c)
    \/ DeleteRequest \/ \E d \in Deleters : DeleteHandler(d)
    \/ JobStep \/ Crash \/ InitHostRead \/ InitHost

Spec == Init /\ [][Next]_vars

\* a compute request, once accepted, runs to its end, and a serving manager
\* runs its handlers; nobody is obliged to start an operation
Fairness ==
    /\ \A i \in Instances : WF_vars(ClientStep(i))
    /\ \A c \in CallIds : WF_vars(AttachHandler(c)) /\ WF_vars(DetachHandler(c))
                          /\ WF_vars(DropReply(c))
    /\ \A d \in Deleters : WF_vars(DeleteHandler(d))
    /\ WF_vars(InitHostRead \/ InitHost)

FairSpec == Spec /\ Fairness

----------------------------------------------------------------------------
(* Properties.                                                             *)

\* When reserve_volume is a lock: the manager is not restarted, nothing but a
\* delete writes the status beside the protocol, no administrator forces that
\* delete, and no attach fails after its reservation.  A forced delete takes an
\* 'attaching' volume from its owner; each of the other exclusions alone breaks
\* OneOwner.  Requests that are lost and detaches and deletes that fail do not.
Smooth ==
    /\ MaxCrashes = 0 /\ Ops \subseteq {"delete"}
    /\ Faults \cap {"connect", "virt_attach", "attach", "mode", "timeout"} = {}

Owners == {i \in Instances :
             client[i] \in {"reserved", "connecting", "plugged", "calling"}}

\* reserve_volume is a mutual exclusion: from the reservation to the answer of
\* the attach call one instance at most works on the volume.
OneOwner == \A i, j \in Owners : i = j

\* A completed attach is true in three places: the instance that believes the
\* volume attached has an attachment row of its own and is the server the
\* provider gave the volume to.
ConnectedHasRow ==
    \A i \in Instances : client[i] = "attached" => RowsOf(i) # {} /\ plugged = i

\* An instance has at most one live attachment to the volume, whatever calls
\* were repeated after a timeout: the lock on volume_id plus the lookup by
\* instance under it.
RowsUnique ==
    \A a, b \in LiveRows :
        rows[a].inst # NoInst /\ rows[a].inst = rows[b].inst => a = b

\* What makes RowsUnique inductive: attach handlers exclude each other, the
\* one between lookup and save found no row of its instance, and a row is
\* written with an instance only by volume_attached.
AttachLocked == \A c, d \in Running("attach") : c = d

FreshAttach ==
    \A c \in Running("attach") :
        calls[c].pc # "clear" /\ RowsOf(calls[c].inst) = {}

BlankRows == \A a \in AttIds : rows[a].st = "absent" => rows[a].inst = NoInst

RowsInv == RowsUnique /\ AttachLocked /\ FreshAttach /\ BlankRows

\* A volume is never stuck in a state only a detach leaves (in-use, detaching,
\* attach_status attached) without an attachment row there is to detach.
NoPhantomUse ==
    status \in {"in-use", "detaching"} \/ attachStatus = "attached"
        => LiveRows # {}

\* A volume destroyed without force is nobody's: no completed attachment row,
\* no instance that holds a reservation or believes it attached.  (A forced
\* delete of an 'attaching' volume destroys it under its owner.)
DestroyedIsFree ==
    status = "deleted" =>
        /\ \A a \in AttIds : rows[a].st # "attached"
        /\ \A i \in Instances : client[i] # "attached" /\ i \notin Owners

\* Once API.delete, without force, has set 'deleting', only the delete handler
\* moves the volume on: no attach, detach or compensation takes it back to use.
\* (After a forced delete volume_attached does, over the attach's reservation.)
DeletingIsKept ==
    [][status = "deleting" =>
         status' = "deleting" \/ \E d \in Deleters : del'[d] # del[d]]_vars

\* A completed attachment is dropped only by a detach its own instance asked
\* for; the rollback of another instance's attach never detaches it
\* (block_device.py: "If the attach did not happen, the detach request will be
\* ignored").
OnlyOwnerDetaches ==
    [][\A a \in AttIds :
         rows[a].st = "attached" /\ rows'[a].st = "detached" =>
           \E c \in CallIds : calls[c].op = "detach" /\ calls[c].att = a
                              /\ calls[c].inst = rows[a].inst]_vars

\* A reservation ends: a volume does not stay 'attaching' for ever, whatever
\* fails in the attach and whoever deletes the volume meanwhile.  (With an extend
\* it may: one that frees a volume under its detach lets in an attach that finds
\* it attached, and leaves the reservation.)
AttachingEnds == status = "attaching" ~> status # "attaching"
=============================================================================
