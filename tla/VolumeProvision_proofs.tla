----------------------- MODULE VolumeProvision_proofs -----------------------
(* Proofs about VolumeProvision for every set of provider volumes, delete   *)
(* requests, faults and number of retries: what a destroyed volume leaves   *)
(* behind, what a mapping row names, and that the life cycle promised by    *)
(* VolumeLifecycle is kept.  They take it that no restart finds a creation  *)
(* unserved, and that nobody force-deletes a volume that is being created.  *)
EXTENDS VolumeProvision, FiniteSetTheorems, TLAPS

InCreation == {"creating", "downloading"}
Guarded == "backlog" \notin Faults /\ ForceFrom \cap InCreation = {}

----------------------------------------------------------------------------
(* The inductive invariant.                                                *)

\* volumes the provider has been asked to remove, and volumes it ever made
Asked == {p \in PVols : prov[p] \in {"removing", "stuck", "gone"}}
Made  == {p \in PVols : prov[p] # "absent"}

\* nothing happens beside the create flow, and it saves the status once
CreatorAlone ==
    create # "done" => /\ status \in InCreation /\ mgr = "up"
                       /\ \A d \in Deleters : del[d] = "idle"
                       /\ create \in {"queued", "download"} => status = "creating"

\* what runs, and what the status is, while the manager starts
ManagerStarts ==
    /\ mgr # "up" => \A r \in Requests : del[r] \in {"idle", "queued"}
    /\ del[Boot] # "idle" => mgr = "init"
    /\ mgr = "boot_error" => status \in InCreation
    /\ mgr = "boot_resume" => status = "deleting"

\* the volume's lock
OneDeleter ==
    \A d, e \in Deleters :
        del[d] \notin {"idle", "queued"} /\ del[e] \notin {"idle", "queued"} => d = e

\* a delete request holds the status until its handler destroys the row
DeletersLeave ==
    \A d \in Deleters :
        /\ del[d] # "idle" => status \in {"deleting", "error_deleting", "deleted"}
        /\ del[d] \notin {"idle", "queued"} => status # "deleted"

Targets ==
    \A d \in Deleters :
        /\ del[d] \in {"submit", "wait"} => target[d] \in PVols
        /\ del[d] = "wait" => target[d] \in Asked

\* what the create flow knows of the copy it asked for
CopyKnown ==
    /\ create \in {"wait", "map", "undo"} => cvol \in Kept
    /\ create = "map" => prov[cvol] = "ready"
    /\ create \in {"queued", "download", "sync", "submit", "wait", "map", "undo"}
         => mapper = NoVol
    /\ create \in {"meta", "finish"} => mapper # NoVol

\* at most one copy is made beside those of the requests sent again
FewMade ==
    /\ Cardinality(Made) <= resent + 1
    /\ create \in {"queued", "download", "sync", "submit"} => Cardinality(Made) <= resent

\* a handler that goes on to destroy the row leaves no copy of its own
Covered ==
    status = "deleted" \/ (\E d \in Deleters : del[d] \in {"unmap", "destroy"})
        => Cardinality(Kept) <= resent

Control   == CreatorAlone /\ ManagerStarts /\ OneDeleter /\ DeletersLeave
Knowledge == Targets /\ CopyKnown /\ MappedIsThere
Counted   == FewMade /\ Covered

IInv == TypeOK /\ Control /\ Knowledge /\ Counted

----------------------------------------------------------------------------
(* Counting the provider's volumes.                                        *)

\* The copies in the provider's hands are finitely many, and those it keeps
\* are fewer than those it made when it was asked to remove one.
LEMMA CountsType ==
    ASSUME TypeOK
    PROVE  /\ IsFiniteSet(Kept) /\ IsFiniteSet(Made)
           /\ Cardinality(Kept) \in Nat /\ Cardinality(Made) \in Nat
           /\ Asked # {} => Cardinality(Kept) + 1 <= Cardinality(Made)
           /\ Kept # {} => Cardinality(Kept) > 0
<1>1. Kept \subseteq PVols /\ Made \subseteq PVols
  BY DEF Kept, Made
<1>2. IsFiniteSet(Kept) /\ IsFiniteSet(Made)
  BY <1>1, PVolsFinite, FS_Subset
<1>3. Cardinality(Kept) \in Nat /\ Cardinality(Made) \in Nat
  BY <1>2, FS_CardinalityType
<1>4. ASSUME Asked # {} PROVE Cardinality(Kept) + 1 <= Cardinality(Made)
  <2>1. PICK p \in Asked : TRUE
    BY <1>4
  <2>2. p \in Made /\ Kept \subseteq Made \ {p}
    BY <2>1 DEF Asked, Made, Kept
  <2>3. Cardinality(Made \ {p}) = Cardinality(Made) - 1 /\ IsFiniteSet(Made \ {p})
    BY <1>2, <2>2, FS_RemoveElement
  <2>4. Cardinality(Kept) <= Cardinality(Made \ {p})
    BY <2>2, <2>3, FS_Subset
  <2> QED
    BY <1>3, <2>3, <2>4
<1>5. ASSUME Kept # {} PROVE Cardinality(Kept) > 0
  BY <1>2, <1>3, <1>5, FS_EmptySet
<1> QED
  BY <1>2, <1>3, <1>4, <1>5

\* A step that leaves the provider alone changes no count.
LEMMA CountsSame ==
    ASSUME prov' = prov
    PROVE  Kept' = Kept /\ Made' = Made /\ Asked' = Asked /\ Tagged' = Tagged
BY DEF Kept, Made, Asked, Tagged

\* A copy is made.
LEMMA CopyMade ==
    ASSUME TypeOK, NEW p \in PVols, prov[p] = "absent", SetProv(p, "building")
    PROVE  /\ Kept' = Kept \cup {p} /\ Asked' = Asked
           /\ Cardinality(Kept)' = Cardinality(Kept) + 1
           /\ Cardinality(Made)' = Cardinality(Made) + 1
<1>1. Kept' = Kept \cup {p} /\ p \notin Kept /\ Asked' = Asked
  BY DEF TypeOK, SetProv, Kept, Asked
<1>2. Made' = Made \cup {p} /\ p \notin Made
  BY DEF TypeOK, SetProv, Made
<1>3. IsFiniteSet(Kept) /\ IsFiniteSet(Made)
  BY CountsType
<1>4. Cardinality(Kept \cup {p}) = Cardinality(Kept) + 1
  BY <1>1, <1>3, FS_AddElement
<1>5. Cardinality(Made \cup {p}) = Cardinality(Made) + 1
  BY <1>2, <1>3, FS_AddElement
<1> QED
  BY <1>1, <1>2, <1>4, <1>5

\* The provider is asked to remove a copy.
LEMMA CopyGoes ==
    ASSUME TypeOK, NEW p \in PVols, Removable(p), SetProv(p, "removing")
    PROVE  /\ Kept' = Kept \ {p} /\ Asked' = Asked \cup {p} /\ Made' = Made
           /\ Cardinality(Kept) > 0
           /\ Cardinality(Kept)' = Cardinality(Kept) - 1
<1>1. Kept' = Kept \ {p} /\ p \in Kept /\ Asked' = Asked \cup {p} /\ Made' = Made
  BY DEF TypeOK, Removable, SetProv, Kept, Asked, Made
<1>2. IsFiniteSet(Kept) /\ Cardinality(Kept) > 0
  BY <1>1, CountsType
<1>3. Cardinality(Kept \ {p}) = Cardinality(Kept) - 1
  BY <1>1, <1>2, FS_RemoveElement
<1> QED
  BY <1>1, <1>2, <1>3

\* The provider goes on with a volume.
LEMMA CopyMoves ==
    ASSUME TypeOK, NEW p \in PVols, ProviderStep(p)
    PROVE  Kept' = Kept /\ Made' = Made /\ Asked' = Asked
BY DEF TypeOK, ProviderStep, Built, Removed, SetProv, Kept, Made, Asked

----------------------------------------------------------------------------
(* Types.                                                                  *)

\* every action keeps everything typed
LEMMA TypeStep ==
    ASSUME TypeOK, [Next]_vars
    PROVE  TypeOK'
<1> USE ConstantsAssumption DEF TypeOK, Statuses, ProvStates, CreatePcs, DelPcs, MgrPcs,
        world, creator, deleter
<1>1. CASE CreateStep
  <2> USE DEF Creating, Frame, Save, SetProv
  <2>1. CASE CreateStart \/ SpecFails \/ StartDownload \/ ImageSynced \/ ImageSyncFails
    BY <2>1 DEF CreateStart, SpecFails, StartDownload, ImageSynced, ImageSyncFails
  <2>2. CASE \E p \in PVols : Submit(p) \/ SubmitAgain(p)
    BY <2>2 DEF Submit, SubmitAgain
  <2>3. CASE SubmitFails
    BY <2>3 DEF SubmitFails
  <2>4. CASE WaitEnds \/ WaitFails \/ MapVolume \/ MapVolumeFails
    BY <2>4 DEF WaitEnds, WaitFails, MapVolume, MapVolumeFails
  <2>5. CASE UndoCopy
    BY <2>5 DEF UndoCopy
  <2>6. CASE SaveMetadata \/ SaveMetadataFails \/ CreateFinish \/ CreateFails
    BY <2>6 DEF SaveMetadata, SaveMetadataFails, CreateFinish, CreateFails
  <2> QED
    BY <1>1, <2>1, <2>2, <2>3, <2>4, <2>5, <2>6 DEF CreateStep
<1>2. ASSUME NEW d \in Deleters, DeleteVolume(d) \/ DelStep(d) PROVE TypeOK'
  <2> USE DEF Deleting, DelGoto, DelEnds, AfterHandler, SetProv, Save
  <2>1. CASE DeleteVolume(d)
    BY <2>1 DEF DeleteVolume
  <2>2. CASE DelStart(d)
    BY <2>2 DEF DelStart
  <2>3. CASE DelLookup(d)
    <3>1. PICK p \in PVols : Found(d, p)
      BY <2>3 DEF DelLookup, Tagged
    <3> QED
      BY <3>1 DEF Found
  <2>4. CASE DelNothing(d) \/ DelLookupFails(d) \/ DelWaitEnds(d) \/ DelWaitFails(d)
    BY <2>4 DEF DelNothing, DelLookupFails, DelWaitEnds, DelWaitFails
  <2>5. CASE DelSubmit(d)
    BY <2>5 DEF DelSubmit
  <2>6. CASE DelSubmitFails(d)
    BY <2>6 DEF DelSubmitFails
  <2>7. CASE Unmap(d)
    BY <2>7 DEF Unmap
  <2>8. CASE DelDestroy(d) \/ DelFails(d)
    BY <2>8 DEF DelDestroy, DelFails
  <2> QED
    BY <1>2, <2>1, <2>2, <2>3, <2>4, <2>5, <2>6, <2>7, <2>8 DEF DelStep
<1>3. ASSUME NEW p \in PVols, ProviderStep(p) PROVE TypeOK'
  BY <1>3 DEF ProviderStep, Built, Removed, Provider, SetProv
<1>4. CASE Crash
  BY <1>4 DEF Crash
<1>5. CASE InitHostRead \/ InitHost
  BY <1>5 DEF InitHostRead, InitHost, Save, DelGoto, Deleters
<1>6. CASE UNCHANGED vars
  BY <1>6 DEF vars
<1> QED
  BY <1>1, <1>2, <1>3, <1>4, <1>5, <1>6 DEF Next

----------------------------------------------------------------------------
(* Who runs when, and what the status is meanwhile.                        *)

\* every action keeps ControlInv
LEMMA ControlStep ==
    ASSUME Guarded, TypeOK, Control, [Next]_vars
    PROVE  Control'
<1> USE ConstantsAssumption DEF TypeOK, Control, CreatorAlone, ManagerStarts, OneDeleter,
        DeletersLeave, InCreation, Deleters, world, creator, deleter
<1>1. CASE CreateStep
  <2> USE DEF Creating, Frame, Save
  <2>1. CASE CreateStart \/ SpecFails \/ StartDownload \/ ImageSynced \/ ImageSyncFails
    BY <2>1 DEF CreateStart, SpecFails, StartDownload, ImageSynced, ImageSyncFails
  <2>2. CASE \E p \in PVols : Submit(p) \/ SubmitAgain(p)
    BY <2>2 DEF Submit, SubmitAgain
  <2>3. CASE SubmitFails
    BY <2>3 DEF SubmitFails
  <2>4. CASE WaitEnds \/ WaitFails \/ MapVolume \/ MapVolumeFails
    BY <2>4 DEF WaitEnds, WaitFails, MapVolume, MapVolumeFails
  <2>5. CASE UndoCopy
    BY <2>5 DEF UndoCopy
  <2>6. CASE SaveMetadata \/ SaveMetadataFails
    BY <2>6 DEF SaveMetadata, SaveMetadataFails
  <2>7. CASE CreateFinish \/ CreateFails
    BY <2>7 DEF CreateFinish, CreateFails
  <2> QED
    BY <1>1, <2>1, <2>2, <2>3, <2>4, <2>5, <2>6, <2>7 DEF CreateStep
<1>2. ASSUME NEW d \in Deleters, DeleteVolume(d) \/ DelStep(d) PROVE Control'
  <2> USE DEF Deleting, DelGoto, DelEnds, AfterHandler, Save
  <2>1. CASE DeleteVolume(d)
    BY <2>1 DEF DeleteVolume, Guarded, Statuses
  <2>2. CASE DelStart(d)
    BY <2>2 DEF DelStart, DelLockFree
  <2>3. CASE DelLookup(d)
    <3>1. PICK p \in PVols : Found(d, p)
      BY <2>3 DEF DelLookup, Tagged
    <3> QED
      BY <3>1 DEF Found
  <2>4. CASE DelNothing(d) \/ DelLookupFails(d) \/ DelWaitEnds(d) \/ DelWaitFails(d)
    BY <2>4 DEF DelNothing, DelLookupFails, DelWaitEnds, DelWaitFails
  <2>5. CASE DelSubmit(d) \/ DelSubmitFails(d)
    BY <2>5 DEF DelSubmit, DelSubmitFails
  <2>6. CASE Unmap(d)
    BY <2>6 DEF Unmap
  <2>7. CASE DelDestroy(d)
    BY <2>7 DEF DelDestroy
  <2>8. CASE DelFails(d)
    BY <2>8 DEF DelFails
  <2> QED
    BY <1>2, <2>1, <2>2, <2>3, <2>4, <2>5, <2>6, <2>7, <2>8 DEF DelStep
<1>3. ASSUME NEW p \in PVols, ProviderStep(p) PROVE Control'
  BY <1>3 DEF ProviderStep, Built, Removed, Provider
<1>4. CASE Crash
  BY <1>4 DEF Crash, Guarded
<1>5. CASE InitHostRead
  BY <1>5 DEF InitHostRead
<1>6. CASE InitHost
  BY <1>6 DEF InitHost, Save, DelGoto
<1>7. CASE UNCHANGED vars
  BY <1>7 DEF vars
<1> QED
  BY <1>1, <1>2, <1>3, <1>4, <1>5, <1>6, <1>7 DEF Next

----------------------------------------------------------------------------
(* What the handlers know of the provider's volumes, and what is mapped.   *)

\* and KnowledgeInv
LEMMA KnowledgeStep ==
    ASSUME Guarded, TypeOK, Control, Knowledge, [Next]_vars
    PROVE  Knowledge'
<1> USE ConstantsAssumption DEF TypeOK, Control, CreatorAlone, ManagerStarts, DeletersLeave,
        InCreation, Deleters, world, creator, deleter, Knowledge, Targets, CopyKnown,
        MappedIsThere, Asked, Kept, Statuses, ProvStates
<1>1. CASE CreateStep
  <2> USE DEF Creating, Frame, Save, SetProv, Removable
  <2>1. CASE CreateStart \/ SpecFails \/ StartDownload \/ ImageSynced \/ ImageSyncFails
    BY <2>1 DEF CreateStart, SpecFails, StartDownload, ImageSynced, ImageSyncFails
  <2>2. CASE \E p \in PVols : Submit(p) \/ SubmitAgain(p)
    BY <2>2 DEF Submit, SubmitAgain
  <2>3. CASE SubmitFails
    BY <2>3 DEF SubmitFails
  <2>4. CASE WaitEnds \/ WaitFails
    BY <2>4 DEF WaitEnds, WaitFails
  <2>5. CASE MapVolume \/ MapVolumeFails
    BY <2>5 DEF MapVolume, MapVolumeFails
  <2>6. CASE UndoCopy
    BY <2>6 DEF UndoCopy
  <2>7. CASE SaveMetadata \/ SaveMetadataFails \/ CreateFinish \/ CreateFails
    BY <2>7 DEF SaveMetadata, SaveMetadataFails, CreateFinish, CreateFails
  <2> QED
    BY <1>1, <2>1, <2>2, <2>3, <2>4, <2>5, <2>6, <2>7 DEF CreateStep
<1>2. ASSUME NEW d \in Deleters, DeleteVolume(d) \/ DelStep(d) PROVE Knowledge'
  <2> USE DEF Deleting, DelGoto, DelEnds, AfterHandler, Save, SetProv, Removable
  <2>1. CASE DeleteVolume(d)
    BY <2>1 DEF DeleteVolume, Guarded
  <2>2. CASE DelStart(d)
    BY <2>2 DEF DelStart
  <2>3. CASE DelLookup(d)
    <3>1. PICK p \in PVols : Found(d, p)
      BY <2>3 DEF DelLookup, Tagged
    <3> QED
      BY <3>1 DEF Found
  <2>4. CASE DelNothing(d) \/ DelLookupFails(d) \/ DelWaitEnds(d) \/ DelWaitFails(d)
    BY <2>4 DEF DelNothing, DelLookupFails, DelWaitEnds, DelWaitFails
  <2>5. CASE DelSubmit(d)
    BY <2>5 DEF DelSubmit
  <2>6. CASE DelSubmitFails(d)
    BY <2>6 DEF DelSubmitFails
  <2>7. CASE Unmap(d)
    BY <2>7 DEF Unmap
  <2>8. CASE DelDestroy(d) \/ DelFails(d)
    BY <2>8 DEF DelDestroy, DelFails
  <2> QED
    BY <1>2, <2>1, <2>2, <2>3, <2>4, <2>5, <2>6, <2>7, <2>8 DEF DelStep
<1>3. ASSUME NEW p \in PVols, ProviderStep(p) PROVE Knowledge'
  BY <1>3 DEF ProviderStep, Built, Removed, Provider, SetProv
<1>4. CASE Crash
  BY <1>4 DEF Crash
<1>5. CASE InitHostRead
  BY <1>5 DEF InitHostRead
<1>6. CASE InitHost
  BY <1>6 DEF InitHost, Save, DelGoto
<1>7. CASE UNCHANGED vars
  BY <1>7 DEF vars
<1> QED
  BY <1>1, <1>2, <1>3, <1>4, <1>5, <1>6, <1>7 DEF Next

----------------------------------------------------------------------------
(* How many copies there are.                                              *)

\* The step that makes a copy, and whether it is paid for by a request that
\* was sent again.
LEMMA MakeCounted ==
    ASSUME TypeOK, Control, Counted, create = "submit",
           NEW p \in PVols, prov[p] = "absent", SetProv(p, "building"),
           status' = status, del' = del,
           \/ create' \in CreatePcs \ {"queued", "download", "sync", "submit"}
              /\ resent' = resent
           \/ create' = create /\ resent' = resent + 1
    PROVE  Counted'
<1>1. Cardinality(Made)' = Cardinality(Made) + 1 /\ Cardinality(Made) \in Nat
  BY CopyMade, CountsType
<1>2. resent \in Nat
  BY ConstantsAssumption DEF TypeOK
<1>3. FewMade'
  BY <1>1, <1>2 DEF Counted, FewMade
<1>4. Covered'
  BY DEF Covered, Control, CreatorAlone, InCreation
<1> QED
  BY <1>3, <1>4 DEF Counted

\* A step that makes no copy and begins no request anew.
LEMMA KeepCounted ==
    ASSUME TypeOK, Counted, resent' = resent,
           Cardinality(Made)' = Cardinality(Made),
           Cardinality(Kept)' \in Nat, Cardinality(Kept)' <= Cardinality(Kept),
           create' \in {"queued", "download", "sync", "submit"}
             => create \in {"queued", "download", "sync", "submit"},
           (status = "deleted")' \/ (\E d \in Deleters : del[d] \in {"unmap", "destroy"})'
             => Cardinality(Kept) <= resent
    PROVE  Counted'
<1>1. resent \in Nat /\ Cardinality(Kept) \in Nat
  BY ConstantsAssumption, CountsType DEF TypeOK
<1> QED
  BY <1>1 DEF Counted, FewMade, Covered

\* The handler has seen a copy removed, or on its way: one at least is not
\* kept.
LEMMA AskedCovers ==
    ASSUME TypeOK, Counted, Asked # {}
    PROVE  Cardinality(Kept) <= resent
<1>1. Cardinality(Kept) \in Nat /\ Cardinality(Made) \in Nat
  BY CountsType
<1>2. Cardinality(Kept) + 1 <= Cardinality(Made)
  BY CountsType
<1>3. Cardinality(Made) <= resent + 1 /\ resent \in Nat
  BY ConstantsAssumption DEF Counted, FewMade, TypeOK
<1> QED
  BY <1>1, <1>2, <1>3

\* and CountInv
LEMMA CountStep ==
    ASSUME Guarded, TypeOK, Control, Knowledge, Counted, [Next]_vars
    PROVE  Counted'
<1> DEFINE Done(d) == del[d] \in {"unmap", "destroy"}
<1>a. /\ Cardinality(Kept) \in Nat /\ resent \in Nat
  BY CountsType, ConstantsAssumption DEF TypeOK
<1>b. ASSUME status = "deleted" \/ \E d \in Deleters : Done(d)
      PROVE  Cardinality(Kept) <= resent
  BY <1>b DEF Counted, Covered
<1>c. ASSUME prov' = prov
      PROVE  /\ Cardinality(Made)' = Cardinality(Made) /\ Cardinality(Kept)' \in Nat
             /\ Cardinality(Kept)' <= Cardinality(Kept)
  BY <1>c, <1>a, CountsSame
<1>d. ASSUME NEW p \in PVols, Removable(p), SetProv(p, "removing")
      PROVE  /\ Cardinality(Made)' = Cardinality(Made) /\ Cardinality(Kept)' \in Nat
             /\ Cardinality(Kept)' <= Cardinality(Kept)
  BY <1>d, <1>a, CopyGoes
<1>1. CASE CreateStep
  <2> USE DEF Creating, Frame, Save, world, creator, deleter
  <2>0. CreatorAlone /\ create \in CreatePcs
    BY DEF Control, TypeOK
  <2>1. CASE CreateStart \/ SpecFails \/ StartDownload \/ ImageSynced \/ ImageSyncFails
    BY <2>0, <2>1, <1>b, <1>c, KeepCounted
       DEF CreateStart, SpecFails, StartDownload, ImageSynced, ImageSyncFails, CreatorAlone, InCreation
  <2>2. ASSUME NEW p \in PVols, Submit(p) \/ SubmitAgain(p) PROVE Counted'
    BY <2>2, MakeCounted DEF Submit, SubmitAgain, CreatePcs
  <2>3. CASE SubmitFails
    <3>1. CASE prov' = prov
      BY <2>0, <2>3, <3>1, <1>b, <1>c, KeepCounted DEF SubmitFails
    <3>2. CASE \E p \in PVols : prov[p] = "absent" /\ SetProv(p, "building")
      BY <2>3, <3>2, MakeCounted DEF SubmitFails, CreatePcs
    <3> QED
      BY <2>3, <3>1, <3>2 DEF SubmitFails
  <2>4. CASE WaitEnds \/ WaitFails \/ MapVolume \/ MapVolumeFails
    BY <2>4, <1>b, <1>c, KeepCounted DEF WaitEnds, WaitFails, MapVolume, MapVolumeFails
  <2>5. CASE UndoCopy
    <3>1. CASE prov' = prov
      BY <2>5, <3>1, <1>b, <1>c, KeepCounted DEF UndoCopy
    <3>2. CASE Removable(cvol) /\ SetProv(cvol, "removing")
      <4>1. cvol \in PVols
        BY <2>5 DEF UndoCopy, Knowledge, CopyKnown, Kept
      <4> QED
        BY <2>5, <3>2, <4>1, <1>b, <1>d, KeepCounted DEF UndoCopy
    <3> QED
      BY <2>5, <3>1, <3>2 DEF UndoCopy
  <2>6. CASE SaveMetadata \/ SaveMetadataFails \/ CreateFinish \/ CreateFails
    BY <2>0, <2>6, <1>b, <1>c, KeepCounted
       DEF SaveMetadata, SaveMetadataFails, CreateFinish, CreateFails, CreatorAlone, InCreation
  <2> QED
    BY <1>1, <2>1, <2>2, <2>3, <2>4, <2>5, <2>6 DEF CreateStep
<1>2. ASSUME NEW d \in Deleters, DeleteVolume(d) \/ DelStep(d) PROVE Counted'
  <2> USE DEF Deleting, DelGoto, DelEnds, world, creator
  <2>0. del \in [Deleters -> DelPcs]
    BY DEF TypeOK
  <2>a. ASSUME NEW to, del' = [del EXCEPT ![d] = to], to \notin {"unmap", "destroy"},
               \E e \in Deleters : Done(e)'
        PROVE  \E e \in Deleters : Done(e)
    BY <2>0, <2>a
  <2>1. CASE DeleteVolume(d)
    BY <2>1, <2>0, <2>a, <1>b, <1>c, KeepCounted DEF DeleteVolume
  <2>2. CASE DelStart(d) \/ DelLookup(d) \/ DelLookupFails(d) \/ DelWaitFails(d)
    <3>1. /\ status' = status /\ prov' = prov /\ UNCHANGED creator
          /\ \E to \in {"idle", "lookup", "submit", "fail"} : del' = [del EXCEPT ![d] = to]
      BY <2>2 DEF DelStart, DelLookup, Found, DelLookupFails, DelWaitFails
    <3> QED
      BY <3>1, <2>0, <2>a, <1>b, <1>c, KeepCounted
  <2>3. CASE DelNothing(d)
    <3>1. Cardinality(Kept) <= resent
      <4>1. CASE Tagged = {}
        <5>1. Kept = {}
          BY <4>1 DEF Kept, Tagged
        <5> QED
          BY <5>1, <1>a, FS_EmptySet
      <4>2. CASE mapper # NoVol /\ prov[mapper] = "gone"
        <5>1. Asked # {}
          BY <4>2 DEF Asked, TypeOK
        <5> QED
          BY <5>1, AskedCovers
      <4> QED
        BY <2>3, <4>1, <4>2 DEF DelNothing
    <3> QED
      BY <2>3, <3>1, <1>c, KeepCounted DEF DelNothing
  <2>4. CASE DelWaitEnds(d)
    <3>1. Asked # {}
      BY <2>4 DEF DelWaitEnds, Knowledge, Targets
    <3> QED
      BY <2>4, <3>1, AskedCovers, <1>c, KeepCounted DEF DelWaitEnds
  <2>5. CASE DelSubmit(d) \/ DelSubmitFails(d)
    <3>1. /\ status' = status /\ UNCHANGED creator
          /\ \E to \in {"wait", "fail"} : del' = [del EXCEPT ![d] = to]
      BY <2>5 DEF DelSubmit, DelSubmitFails
    <3>2. target[d] \in PVols
      BY <2>5 DEF DelSubmit, DelSubmitFails, Knowledge, Targets
    <3>3. prov' = prov \/ (Removable(target[d]) /\ SetProv(target[d], "removing"))
      BY <2>5 DEF DelSubmit, DelSubmitFails
    <3>4. /\ Cardinality(Made)' = Cardinality(Made) /\ Cardinality(Kept)' \in Nat
          /\ Cardinality(Kept)' <= Cardinality(Kept)
      BY <3>2, <3>3, <1>c, <1>d
    <3> QED
      BY <3>1, <3>4, <2>0, <2>a, <1>b, KeepCounted
  <2>6. CASE Unmap(d) \/ DelDestroy(d)
    <3>1. Done(d)
      BY <2>6 DEF Unmap, DelDestroy
    <3> QED
      BY <2>6, <3>1, <1>b, <1>c, KeepCounted DEF Unmap, DelDestroy
  <2>7. CASE DelFails(d)
    BY <2>7, <2>0, <2>a, <1>b, <1>c, KeepCounted DEF DelFails, Save
  <2> QED
    BY <1>2, <2>1, <2>2, <2>3, <2>4, <2>5, <2>6, <2>7 DEF DelStep
<1>3. ASSUME NEW p \in PVols, ProviderStep(p) PROVE Counted'
  <2>1. Kept' = Kept /\ Made' = Made
    BY <1>3, CopyMoves
  <2> QED
    BY <1>3, <2>1, <1>a, <1>b, KeepCounted
       DEF ProviderStep, Built, Removed, Provider, creator, deleter
<1>4. CASE Crash
  BY <1>4, <1>b, <1>c, KeepCounted DEF Crash, world
<1>5. CASE InitHostRead \/ InitHost
  <2>1. /\ status' = "deleted" => status = "deleted"
        /\ \A d \in Deleters : del'[d] = del[d] \/ del'[d] = "queued"
        /\ prov' = prov /\ UNCHANGED creator
    BY <1>5
       DEF InitHostRead, InitHost, Save, DelGoto, Deleters, world, creator, deleter, TypeOK
  <2>2. ASSUME \E d \in Deleters : Done(d)' PROVE \E d \in Deleters : Done(d)
    BY <2>1, <2>2
  <2> QED
    BY <2>1, <2>2, <1>b, <1>c, KeepCounted DEF creator
<1>6. CASE UNCHANGED vars
  BY <1>6, <1>b, <1>c, KeepCounted DEF vars, world, creator, deleter
<1> QED
  BY <1>1, <1>2, <1>3, <1>4, <1>5, <1>6 DEF Next

----------------------------------------------------------------------------
(* The invariant holds.                                                    *)

\* the initial state satisfies the whole invariant
LEMMA InitIInv ==
    ASSUME Init
    PROVE  IInv
<1>1. Made = {} /\ Kept = {}
  BY DEF Init, Made, Kept
<1>2. Cardinality(Made) = 0 /\ Cardinality(Kept) = 0
  BY <1>1, FS_EmptySet
<1>3. TypeOK
  BY ConstantsAssumption
     DEF Init, TypeOK, Statuses, ProvStates, CreatePcs, DelPcs, MgrPcs, world, creator, deleter
<1>4. Control
  BY DEF Init, Control, CreatorAlone, ManagerStarts, OneDeleter, DeletersLeave, InCreation,
         Deleters, world, creator, deleter
<1>5. Knowledge
  BY DEF Init, Knowledge, Targets, CopyKnown, MappedIsThere
<1>6. Counted
  BY <1>2 DEF Init, Counted, FewMade, Covered
<1> QED
  BY <1>3, <1>4, <1>5, <1>6 DEF IInv

\* and every step keeps it
LEMMA NextIInv ==
    ASSUME Guarded, IInv, [Next]_vars
    PROVE  IInv'
BY TypeStep, ControlStep, KnowledgeStep, CountStep DEF IInv

\* Every variable keeps its type, whatever fails and whoever interferes.
THEOREM TypeCorrect == Spec => []TypeOK
<1>1. Init => TypeOK
  BY InitIInv DEF IInv
<1>2. TypeOK /\ [Next]_vars => TypeOK'
  BY TypeStep
<1> QED
  BY <1>1, <1>2, PTL DEF Spec

\* The inductive invariant holds of every behaviour in which no restart finds
\* a creation unserved and no volume is force-deleted while it is created.
THEOREM IInvCorrect ==
  ASSUME Guarded PROVE Spec => []IInv
<1>1. Init => IInv
  BY InitIInv
<1>2. IInv /\ [Next]_vars => IInv'
  BY NextIInv
<1> QED
  BY <1>1, <1>2, PTL DEF Spec

\* Of any number of provider volumes, and through any number of deletes,
\* failures and restarts, a destroyed volume leaves no copy with the provider
\* that nobody has asked to remove, but for those of repeated requests.
THEOREM NoLeakCorrect ==
  ASSUME Guarded PROVE Spec => []NoLeak
<1>1. IInv => NoLeak
  BY DEF IInv, Counted, Covered, NoLeak
<1> QED
  BY <1>1, IInvCorrect, PTL

\* A volume that is offered is mapped, and what is mapped is there.
THEOREM MappedCorrect ==
  ASSUME Guarded PROVE Spec => []MappedIsThere
<1>1. IInv => MappedIsThere
  BY DEF IInv, Knowledge
<1> QED
  BY <1>1, IInvCorrect, PTL

----------------------------------------------------------------------------
(* The life cycle is kept.                                                 *)

Life == <<status, Cardinality(Kept), resent>>

\* the initial state maps to one of the life cycle
LEMMA InitLifecycle ==
    ASSUME Init
    PROVE  Lifecycle!Init
<1>1. Kept = {}
  BY DEF Init, Kept
<1>2. Cardinality(Kept) = 0
  BY <1>1, FS_EmptySet
<1> QED
  BY <1>2 DEF Init, Lifecycle!Init, creator

\* What one step of the code is, seen as a step of the life cycle.
LEMMA StepLifecycle ==
    ASSUME Guarded, IInv, [Next]_vars
    PROVE  Lifecycle!Next \/ UNCHANGED Life
<1> USE DEF Life
<1>a. TypeOK /\ Control /\ Knowledge /\ Counted
  BY DEF IInv
<1>b. Cardinality(Kept) \in Nat /\ resent \in Nat
  BY <1>a, CountsType, ConstantsAssumption DEF TypeOK
<1>c. ASSUME prov' = prov PROVE Cardinality(Kept)' = Cardinality(Kept)
  BY <1>c, CountsSame
<1>d. CreatorAlone /\ DeletersLeave
  BY <1>a DEF Control
<1>1. CASE CreateStep
  <2> USE <1>d DEF Creating, Frame, Save, InCreation, CreatorAlone, world, creator, deleter,
          Lifecycle!Next, Lifecycle!Building
  <2>1. CASE CreateStart \/ SpecFails \/ ImageSynced \/ ImageSyncFails \/ WaitEnds \/ WaitFails
    BY <2>1, <1>c
       DEF CreateStart, SpecFails, ImageSynced, ImageSyncFails, WaitEnds, WaitFails
  <2>2. CASE StartDownload
    BY <2>2, <1>c DEF StartDownload, Lifecycle!Download
  <2>3. ASSUME NEW p \in PVols, Submit(p) \/ SubmitAgain(p) PROVE Lifecycle!Copy
    BY <2>3, <1>a, CopyMade DEF Submit, SubmitAgain, Lifecycle!Copy
  <2>4. CASE SubmitFails
    <3>1. CASE prov' = prov
      BY <2>4, <3>1, <1>c DEF SubmitFails
    <3>2. CASE \E p \in PVols : prov[p] = "absent" /\ SetProv(p, "building")
      BY <2>4, <3>2, <1>a, CopyMade DEF SubmitFails, Lifecycle!Copy
    <3> QED
      BY <2>4, <3>1, <3>2 DEF SubmitFails
  <2>5. CASE MapVolume \/ MapVolumeFails \/ SaveMetadata \/ SaveMetadataFails
    BY <2>5, <1>c DEF MapVolume, MapVolumeFails, SaveMetadata, SaveMetadataFails
  <2>6. CASE UndoCopy
    <3>1. CASE prov' = prov
      BY <2>6, <3>1, <1>c DEF UndoCopy
    <3>2. CASE Removable(cvol) /\ SetProv(cvol, "removing")
      <4>1. cvol \in PVols
        BY <2>6, <1>a DEF UndoCopy, Knowledge, CopyKnown, Kept
      <4> QED
        BY <2>6, <3>2, <4>1, <1>a, CopyGoes DEF UndoCopy, Lifecycle!Remove
    <3> QED
      BY <2>6, <3>1, <3>2 DEF UndoCopy
  <2>7. CASE CreateFinish
    <3>1. mapper \in Kept
      BY <2>7, <1>a DEF CreateFinish, Knowledge, CopyKnown, MappedIsThere, Kept, TypeOK
    <3>2. Cardinality(Kept) > 0
      BY <3>1, <1>a, CountsType
    <3> QED
      BY <2>7, <3>2, <1>c DEF CreateFinish, Lifecycle!Offer
  <2>8. CASE CreateFails
    BY <2>8, <1>c DEF CreateFails, Lifecycle!Abandon
  <2> QED
    BY <1>1, <2>1, <2>2, <2>3, <2>4, <2>5, <2>6, <2>7, <2>8 DEF CreateStep
<1>2. ASSUME NEW d \in Deleters, DeleteVolume(d) \/ DelStep(d)
      PROVE  Lifecycle!Next \/ UNCHANGED Life
  <2> USE <1>d DEF Deleting, DelEnds, DeletersLeave, world, creator,
          Lifecycle!Next, Lifecycle!Building, Lifecycle!Leaving
  <2>1. CASE DeleteVolume(d)
    BY <2>1, <1>c, ConstantsAssumption
       DEF DeleteVolume, Guarded, InCreation, Lifecycle!Request
  <2>2. CASE DelStart(d) \/ DelLookup(d) \/ DelNothing(d) \/ DelLookupFails(d)
             \/ DelWaitEnds(d) \/ DelWaitFails(d) \/ Unmap(d)
    BY <2>2, <1>c DEF DelStart, DelLookup, Found, DelNothing, DelLookupFails, DelWaitEnds,
                      DelWaitFails, Unmap
  <2>3. CASE DelSubmit(d) \/ DelSubmitFails(d)
    <3>1. target[d] \in PVols
      BY <2>3, <1>a DEF DelSubmit, DelSubmitFails, Knowledge, Targets
    <3>2. status' = status /\ status # "available" /\ resent' = resent
      BY <2>3 DEF DelSubmit, DelSubmitFails
    <3>3. CASE prov' = prov
      BY <3>2, <3>3, <1>c
    <3>4. CASE Removable(target[d]) /\ SetProv(target[d], "removing")
      BY <3>1, <3>2, <3>4, <1>a, CopyGoes DEF Lifecycle!Remove
    <3> QED
      BY <2>3, <3>3, <3>4 DEF DelSubmit, DelSubmitFails
  <2>4. CASE DelDestroy(d)
    <3>1. Cardinality(Kept) <= resent
      BY <2>4, <1>a DEF DelDestroy, Counted, Covered
    <3> QED
      BY <2>4, <3>1, <1>c DEF DelDestroy, Lifecycle!Destroy
  <2>5. CASE DelFails(d)
    BY <2>5, <1>c DEF DelFails, Save, Lifecycle!FailDelete
  <2> QED
    BY <1>2, <2>1, <2>2, <2>3, <2>4, <2>5 DEF DelStep
<1>3. ASSUME NEW p \in PVols, ProviderStep(p) PROVE UNCHANGED Life
  <2>1. Kept' = Kept
    BY <1>3, <1>a, CopyMoves
  <2> QED
    BY <1>3, <2>1 DEF ProviderStep, Built, Removed, Provider, creator
<1>4. CASE Crash \/ InitHostRead
  BY <1>4, <1>c DEF Crash, InitHostRead, world, creator
<1>5. CASE InitHost
  <2>1. /\ resent' = resent /\ prov' = prov
        /\ status' = status \/ (mgr = "boot_error" /\ status' = "error")
    BY <1>5 DEF InitHost, Save, world, creator
  <2>2. mgr = "boot_error" => status \in InCreation
    BY <1>a DEF Control, ManagerStarts
  <2> QED
    BY <2>1, <2>2, <1>c
       DEF InCreation, Lifecycle!Next, Lifecycle!Abandon, Lifecycle!Building
<1>6. CASE UNCHANGED vars
  BY <1>6, <1>c DEF vars, world, creator
<1> QED
  BY <1>1, <1>2, <1>3, <1>4, <1>5, <1>6 DEF Next

\* The code keeps the promised life cycle: a volume is offered only when the
\* provider has a copy of it, which then stays until a delete is requested,
\* and its row goes only when nothing is kept beside what a repeated request
\* may have made.
THEOREM RefinesLifecycle ==
  ASSUME Guarded PROVE Spec => KeepsLifecycle
<1>1. Init => Lifecycle!Init
  BY InitLifecycle
<1>2. IInv /\ [Next]_vars => [Lifecycle!Next]_(Lifecycle!vars)
  BY StepLifecycle DEF Life, Lifecycle!vars
<1> QED
  BY <1>1, <1>2, IInvCorrect, PTL DEF Spec, KeepsLifecycle, Lifecycle!Spec
=============================================================================
