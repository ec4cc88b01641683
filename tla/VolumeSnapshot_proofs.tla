----------------------- MODULE VolumeSnapshot_proofs -----------------------
(* Proofs about VolumeSnapshot for every set of snapshots and requests, all *)
(* faults and forced operations, and any number of restarts.                *)
EXTENDS VolumeSnapshot, TLAPS

----------------------------------------------------------------------------
(* Types.                                                                  *)

\* the initial state is typed
LEMMA TypeInit == Init => TypeOK
BY ConstantsAssumption
   DEF Init, TypeOK, VolStatuses, SnapStatuses, Copies, Pcs, MgrPcs, store, args

\* saving a snapshot keeps the statuses typed
LEMMA SaveType ==
    ASSUME TypeOK, NEW s, NEW st \in SnapStatuses, SaveSnap(s, st)
    PROVE  snap' \in [Snaps -> SnapStatuses]
BY DEF TypeOK, SaveSnap

\* a request that ends, or goes on, keeps its variables typed
LEMMA DoneType ==
    ASSUME TypeOK, NEW p \in Procs,
           Done(p) \/ \E to \in Pcs : Then(p, to)
    PROVE  /\ pc' \in [Procs -> Pcs] /\ sn' \in [Procs -> Snaps \cup {NoSnap}]
           /\ cascade' \in [Procs -> BOOLEAN]
           /\ todo' \in [Procs -> SUBSET Snaps] /\ odd' \in [Procs -> SUBSET Snaps]
BY DEF TypeOK, Done, Then, Goto, args, Pcs

\* what is left of the requests after a crash is typed
LEMMA KeptType ==
    ASSUME NEW T, NEW f \in [Procs -> T], NEW none \in T
    PROVE  Kept(f, none) \in [Procs -> T]
BY DEF Kept

\* a wait that ends well leaves no copy that nobody was asked to remove
LEMMA WaitedType == ASSUME NEW copy PROVE Waited(copy) \subseteq Copies \ {"there"}
BY DEF Waited, Copies

\* and so does one that raises
LEMMA RefusedType == ASSUME NEW copy \in Copies PROVE Refused(copy) \subseteq Copies
BY DEF Refused, Copies

\* every action keeps everything typed
LEMMA TypeStep ==
    ASSUME TypeOK, [Next]_vars
    PROVE  TypeOK'
<1> USE ConstantsAssumption DEF TypeOK, VolStatuses, SnapStatuses, Pcs, ApiPcs, Queued,
        SnapLocked, VolLocked, MgrPcs, store, args, At, Goto, Move, Done, End, Then,
        AfterHandler, Frame, SaveSnap, SaveVolume
<1>1. ASSUME NEW p \in Requests, NEW s \in Snaps, CreateCheck(p, s) \/ DeleteSnapshot(p, s)
      PROVE  TypeOK'
  BY <1>1 DEF CreateCheck, DeleteSnapshot, Procs
<1>2. ASSUME NEW p \in Requests, NEW c \in Cascades, DeleteVolume(p, c)
      PROVE  TypeOK'
  BY <1>2 DEF DeleteVolume, Procs
<1>3. ASSUME NEW p \in Procs, CreateStep(p) PROVE TypeOK'
  <2>1. CASE CreateInsert(p)
    BY <2>1 DEF CreateInsert
  <2>2. CASE CreateRead(p)
    <3>1. snap' = snap \/ SaveSnap(sn[p], "error")
      BY <2>2 DEF CreateRead
    <3>2. Done(p) \/ Then(p, "c_save")
      BY <2>2 DEF CreateRead
    <3>3. /\ snap' \in [Snaps -> SnapStatuses]
          /\ UNCHANGED <<status, pvol, psnap, mgr, crashes>>
      BY <2>2, <3>1, SaveType DEF CreateRead
    <3> HIDE DEF Done, Then
    <3> QED
      BY <3>2, <3>3, DoneType
  <2>3. CASE CreateSave(p)
    BY <2>3, SaveType, DoneType DEF CreateSave
  <2>4. CASE CreateDriver(p)
    BY <2>4 DEF CreateDriver, Copies
  <2>5. CASE CreateDriverFails(p)
    <3>1. psnap' \in [Snaps -> Copies]
      BY <2>5 DEF CreateDriverFails, Copies
    <3>2. snap' \in [Snaps -> SnapStatuses] /\ Done(p)
      BY <2>5, SaveType DEF CreateDriverFails
    <3>3. UNCHANGED <<status, pvol, mgr, crashes>>
      BY <2>5 DEF CreateDriverFails
    <3> HIDE DEF Done
    <3> QED
      BY <3>1, <3>2, <3>3, DoneType
  <2> QED
    BY <1>3, <2>1, <2>2, <2>3, <2>4, <2>5 DEF CreateStep
<1>4. ASSUME NEW p \in Procs, DeleteStep(p) PROVE TypeOK'
  <2>1. CASE DeleteSend(p) \/ DeleteStart(p)
    BY <2>1 DEF DeleteSend, DeleteStart
  <2>2. CASE DeleteDriver(p)
    <3>1. PICK copy \in Copies : psnap' = [psnap EXCEPT ![sn[p]] = copy]
      BY <2>2, WaitedType DEF DeleteDriver
    <3> QED
      BY <2>2, <3>1 DEF DeleteDriver
  <2>3. CASE DeleteDriverFails(p)
    <3>1. psnap' \in [Snaps -> Copies]
      <4>1. PICK copy \in Refused(psnap[sn[p]]) : psnap' = [psnap EXCEPT ![sn[p]] = copy]
        BY <2>3 DEF DeleteDriverFails
      <4>2. CASE sn[p] \in Snaps
        BY <4>1, <4>2, RefusedType
      <4>3. CASE sn[p] \notin Snaps
        BY <4>1, <4>3
      <4> QED
        BY <4>2, <4>3
    <3>2. snap' \in [Snaps -> SnapStatuses]
      BY <2>3, SaveType DEF DeleteDriverFails
    <3>3. Done(p) \/ Then(p, "v_fail")
      BY <2>3 DEF DeleteDriverFails
    <3>4. UNCHANGED <<status, pvol, mgr, crashes>>
      BY <2>3 DEF DeleteDriverFails
    <3> HIDE DEF Done, Then
    <3> QED
      BY <3>1, <3>2, <3>3, <3>4, DoneType
  <2>4. CASE DeleteDestroy(p)
    BY <2>4 DEF DeleteDestroy
  <2> QED
    BY <1>4, <2>1, <2>2, <2>3, <2>4 DEF DeleteStep
<1>5. ASSUME NEW p \in Procs, VolumeStep(p) PROVE TypeOK'
  <2>1. CASE ListSnapshots(p) \/ ScanSnapshots(p)
    <3>1. Live \in SUBSET Snaps /\ {s \in Live : snap[s] # "deleting"} \in SUBSET Snaps
      BY DEF Live
    <3> QED
      BY <2>1, <3>1 DEF ListSnapshots, ScanSnapshots
  <2>2. CASE DeleteVolumeSend(p) \/ VolumeStart(p)
    BY <2>2 DEF DeleteVolumeSend, VolumeStart
  <2>3. ASSUME NEW s \in Snaps, MarkSnapshot(p, s) PROVE TypeOK'
    BY <2>3 DEF MarkSnapshot
  <2>4. ASSUME NEW s \in Snaps, MarkSnapshotFails(p, s) PROVE TypeOK'
    BY <2>4 DEF MarkSnapshotFails
  <2>5. ASSUME NEW s \in Snaps, NextSnapshot(p, s) PROVE TypeOK'
    BY <2>5 DEF NextSnapshot
  <2>6. CASE VolumeDriver(p) \/ VolumeDriverFails(p)
    BY <2>6, WaitedType, RefusedType DEF VolumeDriver, VolumeDriverFails
  <2>7. CASE VolumeFails(p) \/ VolumeDestroy(p) \/ VolumeBusy(p)
    BY <2>7 DEF VolumeFails, VolumeDestroy, VolumeBusy
  <2> QED
    BY <1>5, <2>1, <2>2, <2>3, <2>4, <2>5, <2>6, <2>7 DEF VolumeStep
<1>6. CASE Crash
  <2>1. Kept(pc, "idle") \in [Procs -> Pcs]
    BY KeptType
  <2>2. Kept(sn, NoSnap) \in [Procs -> Snaps \cup {NoSnap}]
    BY KeptType
  <2>3. Kept(cascade, FALSE) \in [Procs -> BOOLEAN]
    BY KeptType
  <2>4. /\ Kept(todo, {}) \in [Procs -> SUBSET Snaps]
        /\ Kept(odd, {}) \in [Procs -> SUBSET Snaps]
    BY KeptType
  <2>5. mgr' \in MgrPcs /\ crashes' \in 0..MaxCrashes
    BY <1>6 DEF Crash
  <2> QED
    BY <1>6, <2>1, <2>2, <2>3, <2>4, <2>5 DEF Crash
<1>7. CASE InitHostRead \/ InitHost
  BY <1>7 DEF InitHostRead, InitHost, Procs
<1>8. CASE ProviderRemoves
  BY <1>8 DEF ProviderRemoves, Copies
<1>9. CASE UNCHANGED vars
  BY <1>9 DEF vars
<1> QED
  BY <1>1, <1>2, <1>3, <1>4, <1>5, <1>6, <1>7, <1>8, <1>9 DEF Next, Step

\* Every variable keeps its type, whatever fails, is forced or restarts.
THEOREM TypeCorrect == Spec => []TypeOK
<1>1. TypeOK /\ [Next]_vars => TypeOK'
  BY TypeStep
<1> QED
  BY <1>1, TypeInit, PTL DEF Spec

----------------------------------------------------------------------------
(* What a destroyed volume leaves at the provider.                         *)

\* the provider has no snapshot without its volume, and a handler about to
\* destroy the row has had the volume's removal accepted
SnapsNeedVolume  == pvol = "none" => \A s \in Snaps : psnap[s] = "none"
DestroyerRemoved == \A p \in Procs : pc[p] = "v_destroy" => pvol # "there"
DestroyedGone    == status = "deleted" => pvol # "there"

GoneInv == SnapsNeedVolume /\ DestroyerRemoved /\ DestroyedGone

\* no volume is destroyed at first
LEMMA GoneInit == Init => GoneInv
BY DEF Init, GoneInv, SnapsNeedVolume, DestroyerRemoved, DestroyedGone

\* A step that touches the provider's copies not at all, begins no destruction
\* and destroys no row.
LEMMA GoneQuiet ==
    ASSUME GoneInv, pvol' = pvol, psnap' = psnap,
           status' = "deleted" => status = "deleted",
           \A p \in Procs : pc'[p] = "v_destroy" => pc[p] = "v_destroy"
    PROVE  GoneInv'
BY DEF GoneInv, SnapsNeedVolume, DestroyerRemoved, DestroyedGone

\* every action keeps GoneInv
LEMMA GoneStep ==
    ASSUME TypeOK, GoneInv, [Next]_vars
    PROVE  GoneInv'
<1> USE DEF At, Goto, Move, Done, End, Then, Frame, store, args
<1>a. pc \in [Procs -> Pcs] /\ psnap \in [Snaps -> Copies] /\ pvol \in Copies
  BY DEF TypeOK
<1>b. Requests \subseteq Procs /\ Boot \in Procs
  BY DEF Procs
<1>1. ASSUME NEW p \in Requests, NEW s \in Snaps, CreateCheck(p, s) \/ DeleteSnapshot(p, s)
      PROVE  GoneInv'
  BY <1>1, <1>a, <1>b, GoneQuiet DEF CreateCheck, DeleteSnapshot
<1>2. ASSUME NEW p \in Requests, NEW c \in Cascades, DeleteVolume(p, c)
      PROVE  GoneInv'
  BY <1>2, <1>a, <1>b, GoneQuiet DEF DeleteVolume
<1>3. ASSUME NEW p \in Procs, CreateStep(p) PROVE GoneInv'
  <2>1. CASE CreateInsert(p) \/ CreateRead(p) \/ CreateSave(p)
    BY <2>1, <1>a, GoneQuiet DEF CreateInsert, CreateRead, CreateSave
  <2>2. CASE CreateDriver(p) \/ CreateDriverFails(p)
    BY <2>2, <1>a DEF CreateDriver, CreateDriverFails,
                      GoneInv, SnapsNeedVolume, DestroyerRemoved, DestroyedGone
  <2> QED
    BY <1>3, <2>1, <2>2 DEF CreateStep
<1>4. ASSUME NEW p \in Procs, DeleteStep(p) PROVE GoneInv'
  <2>1. CASE DeleteSend(p) \/ DeleteStart(p) \/ DeleteDestroy(p)
    BY <2>1, <1>a, GoneQuiet DEF DeleteSend, DeleteStart, DeleteDestroy
  <2>2. CASE DeleteDriver(p) \/ DeleteDriverFails(p)
    BY <2>2, <1>a DEF DeleteDriver, DeleteDriverFails, Waited, Refused,
                      GoneInv, SnapsNeedVolume, DestroyerRemoved, DestroyedGone
  <2> QED
    BY <1>4, <2>1, <2>2 DEF DeleteStep
<1>5. ASSUME NEW p \in Procs, VolumeStep(p) PROVE GoneInv'
  <2>1. CASE ListSnapshots(p) \/ ScanSnapshots(p) \/ DeleteVolumeSend(p) \/ VolumeStart(p)
    BY <2>1, <1>a, GoneQuiet DEF ListSnapshots, ScanSnapshots, DeleteVolumeSend, VolumeStart
  <2>2. ASSUME NEW s \in Snaps,
               MarkSnapshot(p, s) \/ MarkSnapshotFails(p, s) \/ NextSnapshot(p, s)
        PROVE  GoneInv'
    BY <2>2, <1>a, GoneQuiet DEF MarkSnapshot, MarkSnapshotFails, NextSnapshot, SaveVolume
  <2>3. CASE VolumeDriver(p)
    BY <2>3, <1>a DEF VolumeDriver, ProviderHasSnapshots, Waited,
                      GoneInv, SnapsNeedVolume, DestroyerRemoved, DestroyedGone
  <2>6. CASE VolumeDriverFails(p)
    <3>1. /\ status' = status /\ psnap' = psnap
          /\ \/ pvol' = pvol
             \/ pvol # "none" /\ pvol' \in {"none", "asked"} /\ ~ProviderHasSnapshots
          /\ \A q \in Procs : pc'[q] = "v_destroy" => pc[q] = "v_destroy"
      BY <2>6, <1>a DEF VolumeDriverFails, Refused
    <3> QED
      BY <3>1 DEF ProviderHasSnapshots,
                  GoneInv, SnapsNeedVolume, DestroyerRemoved, DestroyedGone
  <2>4. CASE VolumeFails(p) \/ VolumeBusy(p)
    BY <2>4, <1>a, GoneQuiet DEF VolumeFails, VolumeBusy, SaveVolume
  <2>5. CASE VolumeDestroy(p)
    BY <2>5, <1>a DEF VolumeDestroy,
                      GoneInv, SnapsNeedVolume, DestroyerRemoved, DestroyedGone
  <2> QED
    BY <1>5, <2>1, <2>2, <2>3, <2>4, <2>5, <2>6 DEF VolumeStep
<1>6. CASE Crash
  BY <1>6, GoneQuiet DEF Crash, Kept
<1>7. CASE InitHostRead \/ InitHost
  BY <1>7, <1>a, <1>b, GoneQuiet DEF InitHostRead, InitHost
<1>8. CASE ProviderRemoves
  BY <1>8, <1>a DEF ProviderRemoves, ProviderHasSnapshots,
                    GoneInv, SnapsNeedVolume, DestroyerRemoved, DestroyedGone
<1>9. CASE UNCHANGED vars
  BY <1>9, GoneQuiet DEF vars
<1> QED
  BY <1>1, <1>2, <1>3, <1>4, <1>5, <1>6, <1>7, <1>8, <1>9 DEF Next, Step

\* When the volume's row is gone the provider has accepted its removal, and has
\* no snapshot without the volume, through cascades, forced deletes, refusals,
\* waits that take 'error_deleting' for success, and restarts.
THEOREM RemovedCorrect == Spec => []DestroyedWasRemoved
<1>1. TypeOK /\ GoneInv /\ [Next]_vars => GoneInv'
  BY GoneStep
<1>2. GoneInv => DestroyedWasRemoved
  BY DEF GoneInv, SnapsNeedVolume, DestroyedGone, DestroyedWasRemoved
<1> QED
  BY <1>1, <1>2, GoneInit, TypeCorrect, PTL DEF Spec

----------------------------------------------------------------------------
(* Which snapshots have a copy at the provider.  A snapshot is created by   *)
(* one request, which finds it 'creating' until it ends; a handler deletes  *)
(* only what is on its way out, and what is on its way out never comes back.*)

Creators == {"c_queued", "c_read", "c_save"}
Removers == {"d_send", "d_queued", "d_driver", "d_destroy", "v_lock"}
Leaving(s) == snap[s] \in {"deleting", "error_deleting", "deleted"}

Serving == mgr = "up" /\ pc[Boot] = "idle"

CreatorsAlone ==
    /\ \A p \in Procs : pc[p] = "c_insert" => sn[p] \in Snaps /\ snap[sn[p]] = "none"
    /\ \A p \in Procs : pc[p] \in Creators => sn[p] \in Snaps /\ snap[sn[p]] = "creating"
    /\ \A p, q \in Procs :
          pc[p] \in {"c_insert"} \cup Creators /\ pc[q] \in {"c_insert"} \cup Creators
          /\ sn[p] = sn[q] => p = q

RemoversLeaving ==
    /\ \A p \in Procs : pc[p] \in Removers => sn[p] \in Snaps /\ Leaving(sn[p])
    /\ \A p \in Procs : pc[p] \in {"idle", "v_loop"} \cup Removers =>
          \A s \in todo[p] \ odd[p] : Leaving(s)

CopiesMade ==
    \A p \in Procs : /\ pc[p] \in {"c_read", "c_save"} => psnap[sn[p]] = "there"
                     /\ pc[p] = "d_destroy" => psnap[sn[p]] # "there"

CopyInv ==
    /\ Serving /\ CreatorsAlone /\ RemoversLeaving /\ CopiesMade
    /\ AvailableHasData /\ NoOrphanData

\* there is no copy at first
LEMMA CopyInit == Init => CopyInv
BY DEF Init, CopyInv, Serving, CreatorsAlone, Creators, RemoversLeaving, Removers,
       CopiesMade, AvailableHasData, NoOrphanData, Procs

\* every action keeps the copies where the rows say they are
LEMMA CopyStep ==
    ASSUME Undisturbed, TypeOK, CopyInv, [Next]_vars
    PROVE  CopyInv'
<1> USE ConstantsAssumption
    DEF At, Goto, Move, Done, End, Then, Frame, SaveSnap, Live, store, args,
        CopyInv, Serving, CreatorsAlone, Creators, RemoversLeaving, Removers, Leaving,
        CopiesMade, AvailableHasData, NoOrphanData
<1>a. /\ snap \in [Snaps -> SnapStatuses] /\ psnap \in [Snaps -> Copies]
      /\ pc \in [Procs -> Pcs] /\ sn \in [Procs -> Snaps \cup {NoSnap}]
      /\ todo \in [Procs -> SUBSET Snaps] /\ odd \in [Procs -> SUBSET Snaps]
  BY DEF TypeOK
<1>b. Requests \subseteq Procs /\ Boot \in Procs /\ Boot \notin Requests
  BY DEF Procs
<1>1. ASSUME NEW p \in Requests, NEW s \in Snaps, CreateCheck(p, s) PROVE CopyInv'
  BY <1>1, <1>a, <1>b DEF CreateCheck
<1>2. ASSUME NEW p \in Requests, NEW s \in Snaps, DeleteSnapshot(p, s) PROVE CopyInv'
  BY <1>2, <1>a, <1>b DEF DeleteSnapshot, Deletable, Undisturbed
<1>3. ASSUME NEW p \in Requests, NEW c \in Cascades, DeleteVolume(p, c) PROVE CopyInv'
  BY <1>3, <1>a, <1>b DEF DeleteVolume
<1>4. ASSUME NEW p \in Procs, CreateInsert(p) PROVE CopyInv'
  BY <1>4, <1>a, <1>b DEF CreateInsert
<1>5. ASSUME NEW p \in Procs, CreateDriver(p) PROVE CopyInv'
  BY <1>5, <1>a, <1>b DEF CreateDriver
<1>6. ASSUME NEW p \in Procs, CreateDriverFails(p) PROVE CopyInv'
  BY <1>6, <1>a, <1>b DEF CreateDriverFails
<1>7. ASSUME NEW p \in Procs, CreateRead(p) PROVE CopyInv'
  BY <1>7, <1>a, <1>b DEF CreateRead
<1>8. ASSUME NEW p \in Procs, CreateSave(p) PROVE CopyInv'
  BY <1>8, <1>a, <1>b DEF CreateSave
<1>9. ASSUME NEW p \in Procs, DeleteSend(p) PROVE CopyInv'
  BY <1>9, <1>a, <1>b DEF DeleteSend
<1>10. ASSUME NEW p \in Procs, DeleteStart(p) PROVE CopyInv'
  BY <1>10, <1>a, <1>b DEF DeleteStart
<1>11. ASSUME NEW p \in Procs, DeleteDriver(p) PROVE CopyInv'
  BY <1>11, <1>a, <1>b DEF DeleteDriver, Waited
<1>12. ASSUME NEW p \in Procs, DeleteDriverFails(p) PROVE CopyInv'
  BY <1>12, <1>a, <1>b DEF DeleteDriverFails, Refused
<1>13. ASSUME NEW p \in Procs, DeleteDestroy(p) PROVE CopyInv'
  BY <1>13, <1>a, <1>b DEF DeleteDestroy
<1>14. ASSUME NEW p \in Procs, ListSnapshots(p) \/ DeleteVolumeSend(p) PROVE CopyInv'
  BY <1>14, <1>a, <1>b DEF ListSnapshots, DeleteVolumeSend
<1>15. ASSUME NEW p \in Procs, VolumeStart(p) PROVE CopyInv'
  BY <1>15, <1>a, <1>b DEF VolumeStart, AfterHandler
<1>16. ASSUME NEW p \in Procs, NEW s \in Snaps, MarkSnapshot(p, s) PROVE CopyInv'
  BY <1>16, <1>a, <1>b DEF MarkSnapshot, Deletable
<1>17. ASSUME NEW p \in Procs, NEW s \in Snaps, MarkSnapshotFails(p, s) PROVE CopyInv'
  BY <1>17, <1>a, <1>b DEF MarkSnapshotFails
<1>18. ASSUME NEW p \in Procs, NEW s \in Snaps, NextSnapshot(p, s) PROVE CopyInv'
  BY <1>18, <1>a, <1>b DEF NextSnapshot
<1>19. ASSUME NEW p \in Procs, ScanSnapshots(p) PROVE CopyInv'
  BY <1>19, <1>a, <1>b DEF ScanSnapshots
<1>20. ASSUME NEW p \in Procs, VolumeDriver(p) \/ VolumeDriverFails(p) PROVE CopyInv'
  <2>1. CASE VolumeDriver(p)
    BY <2>1, <1>a, <1>b DEF VolumeDriver, AtVolumeDriver
  <2>2. CASE VolumeDriverFails(p)
    <3>1. pc' = [pc EXCEPT ![p] = "v_fail"]
          /\ UNCHANGED <<sn, todo, odd, snap, psnap, mgr>> /\ pc[p] # "idle"
      BY <2>2, <1>a DEF VolumeDriverFails, AtVolumeDriver
    <3> QED
      BY <3>1, <1>a, <1>b
  <2> QED
    BY <1>20, <2>1, <2>2
<1>21. ASSUME NEW p \in Procs, VolumeFails(p) \/ VolumeDestroy(p) \/ VolumeBusy(p)
       PROVE CopyInv'
  BY <1>21, <1>a, <1>b DEF VolumeFails, VolumeDestroy, VolumeBusy, AtVolumeDriver,
                           AfterHandler
<1>22. CASE Crash \/ InitHostRead \/ InitHost
  BY <1>22 DEF Crash, InitHostRead, InitHost, Undisturbed, TypeOK
<1>23. CASE ProviderRemoves
  BY <1>23, <1>a DEF ProviderRemoves
<1>24. CASE UNCHANGED vars
  BY <1>24 DEF vars
<1> QED
  BY <1>1, <1>2, <1>3, <1>4, <1>5, <1>6, <1>7, <1>8, <1>9, <1>10, <1>11, <1>12,
     <1>13, <1>14, <1>15, <1>16, <1>17, <1>18, <1>19, <1>20, <1>21, <1>22, <1>23, <1>24
     DEF Next, Step, CreateStep, DeleteStep, VolumeStep

\* A snapshot that is offered has its copy at the provider, as long as no
\* administrator deletes one that is being created and the manager stays up:
\* whatever cascades, failing drivers and lost messages do meanwhile.
THEOREM AvailableCorrect ==
    ASSUME Undisturbed PROVE Spec => []AvailableHasData
<1>1. TypeOK /\ CopyInv /\ [Next]_vars => CopyInv'
  BY CopyStep
<1>2. CopyInv => AvailableHasData
  BY DEF CopyInv
<1> QED
  BY <1>1, <1>2, CopyInit, TypeCorrect, PTL DEF Spec

\* Under the same conditions a copy that the provider was never asked to remove
\* has a row.
THEOREM NoOrphanCorrect ==
    ASSUME Undisturbed PROVE Spec => []NoOrphanData
<1>1. TypeOK /\ CopyInv /\ [Next]_vars => CopyInv'
  BY CopyStep
<1>2. CopyInv => NoOrphanData
  BY DEF CopyInv
<1> QED
  BY <1>1, <1>2, CopyInit, TypeCorrect, PTL DEF Spec

----------------------------------------------------------------------------
(* Who deletes a snapshot that is 'deleting'.                              *)

VolumePcs == VolLocked \cup {"v_list", "v_mark", "v_queued"}

\* as long as nobody has asked for the volume's delete, nothing works on one
VolumeUntouched ==
    status = "available" =>
        \A p \in Procs : pc[p] \notin VolumePcs /\ ~cascade[p]

DeletingHasRemover ==
    \A s \in Snaps : snap[s] = "deleting" /\ status = "available" =>
        \E p \in Procs : sn[p] = s /\ pc[p] \in Removers

WorkerInv == Serving /\ VolumeUntouched /\ DeletingHasRemover

\* nothing is being deleted at first
LEMMA WorkerInit == Init => WorkerInv
BY DEF Init, WorkerInv, Serving, VolumeUntouched, VolumePcs, VolLocked,
       DeletingHasRemover, Procs

\* every action keeps the remover of a snapshot that is being deleted
LEMMA WorkerStep ==
    ASSUME Attended, TypeOK, WorkerInv, [Next]_vars
    PROVE  WorkerInv'
<1> USE ConstantsAssumption
    DEF At, Goto, Move, Done, End, Then, Frame, SaveSnap, SaveVolume, Live, store, args,
        WorkerInv, Serving, VolumeUntouched, VolumePcs, VolLocked, DeletingHasRemover,
        Removers
<1>a. /\ snap \in [Snaps -> SnapStatuses] /\ pc \in [Procs -> Pcs]
      /\ sn \in [Procs -> Snaps \cup {NoSnap}] /\ cascade \in [Procs -> BOOLEAN]
  BY DEF TypeOK
<1>b. Requests \subseteq Procs /\ Boot \in Procs /\ Boot \notin Requests
  BY DEF Procs
<1>1. ASSUME NEW p \in Requests, NEW s \in Snaps, CreateCheck(p, s) PROVE WorkerInv'
  BY <1>1, <1>a, <1>b DEF CreateCheck
<1>2. ASSUME NEW p \in Requests, NEW s \in Snaps, DeleteSnapshot(p, s) PROVE WorkerInv'
  BY <1>2, <1>a, <1>b DEF DeleteSnapshot
<1>3. ASSUME NEW p \in Requests, NEW c \in Cascades, DeleteVolume(p, c) PROVE WorkerInv'
  BY <1>3, <1>a, <1>b DEF DeleteVolume
<1>4. ASSUME NEW p \in Procs, CreateInsert(p) PROVE WorkerInv'
  BY <1>4, <1>a, <1>b DEF CreateInsert
<1>5. ASSUME NEW p \in Procs, CreateDriver(p) PROVE WorkerInv'
  BY <1>5, <1>a, <1>b DEF CreateDriver
<1>6. ASSUME NEW p \in Procs, CreateDriverFails(p) PROVE WorkerInv'
  BY <1>6, <1>a, <1>b DEF CreateDriverFails
<1>7. ASSUME NEW p \in Procs, CreateRead(p) PROVE WorkerInv'
  BY <1>7, <1>a, <1>b DEF CreateRead
<1>8. ASSUME NEW p \in Procs, CreateSave(p) PROVE WorkerInv'
  BY <1>8, <1>a, <1>b DEF CreateSave
<1>9. ASSUME NEW p \in Procs, DeleteSend(p) PROVE WorkerInv'
  BY <1>9, <1>a, <1>b DEF DeleteSend, Attended
<1>10. ASSUME NEW p \in Procs, DeleteStart(p) PROVE WorkerInv'
  BY <1>10, <1>a, <1>b DEF DeleteStart
<1>11. ASSUME NEW p \in Procs, DeleteDriver(p) PROVE WorkerInv'
  BY <1>11, <1>a, <1>b DEF DeleteDriver
<1>12. ASSUME NEW p \in Procs, DeleteDriverFails(p) PROVE WorkerInv'
  BY <1>12, <1>a, <1>b DEF DeleteDriverFails
<1>13. ASSUME NEW p \in Procs, DeleteDestroy(p) PROVE WorkerInv'
  BY <1>13, <1>a, <1>b DEF DeleteDestroy
<1>14. ASSUME NEW p \in Procs, ListSnapshots(p) \/ DeleteVolumeSend(p) PROVE WorkerInv'
  BY <1>14, <1>a, <1>b DEF ListSnapshots, DeleteVolumeSend
<1>15. ASSUME NEW p \in Procs, VolumeStart(p) PROVE WorkerInv'
  BY <1>15, <1>a, <1>b DEF VolumeStart, AfterHandler
<1>16. ASSUME NEW p \in Procs, NEW s \in Snaps,
              MarkSnapshot(p, s) \/ MarkSnapshotFails(p, s) \/ NextSnapshot(p, s)
       PROVE WorkerInv'
  BY <1>16, <1>a, <1>b DEF MarkSnapshot, MarkSnapshotFails, NextSnapshot
<1>17. ASSUME NEW p \in Procs, ScanSnapshots(p) PROVE WorkerInv'
  BY <1>17, <1>a, <1>b DEF ScanSnapshots
<1>18. ASSUME NEW p \in Procs, VolumeDriver(p) \/ VolumeDriverFails(p) PROVE WorkerInv'
  BY <1>18, <1>a, <1>b DEF VolumeDriver, VolumeDriverFails, AtVolumeDriver
<1>19. ASSUME NEW p \in Procs, VolumeFails(p) \/ VolumeDestroy(p) PROVE WorkerInv'
  BY <1>19, <1>a, <1>b DEF VolumeFails, VolumeDestroy, AfterHandler
<1>20. CASE Crash \/ InitHostRead \/ InitHost
  BY <1>20 DEF Crash, InitHostRead, InitHost, Attended, TypeOK
<1>21. ASSUME ProviderRemoves \/ \E p \in Procs : VolumeBusy(p) PROVE WorkerInv'
  <2>1. CASE ProviderRemoves
    BY <2>1 DEF ProviderRemoves
  <2>2. "busy" \notin Faults
    BY DEF Attended
  <2> QED
    BY <1>21, <2>1, <2>2 DEF VolumeBusy
<1>22. CASE UNCHANGED vars
  BY <1>22 DEF vars
<1> QED
  BY <1>1, <1>2, <1>3, <1>4, <1>5, <1>6, <1>7, <1>8, <1>9, <1>10, <1>11, <1>12,
     <1>13, <1>14, <1>15, <1>16, <1>17, <1>18, <1>19, <1>20, <1>21, <1>22
     DEF Next, Step, CreateStep, DeleteStep, VolumeStep

\* Every message delivered and no restart: while the volume is available, a
\* snapshot that is 'deleting' is somebody's work, also when it is deleted by
\* force, twice, or in the middle of its creation.
THEOREM DeletingCorrect ==
    ASSUME Attended PROVE Spec => []DeletingHasWorker
<1>1. TypeOK /\ WorkerInv /\ [Next]_vars => WorkerInv'
  BY WorkerStep
<1>2. WorkerInv => DeletingHasWorker
  BY DEF WorkerInv, DeletingHasRemover, DeletingHasWorker, Working
<1> QED
  BY <1>1, <1>2, WorkerInit, TypeCorrect, PTL DEF Spec
=============================================================================
