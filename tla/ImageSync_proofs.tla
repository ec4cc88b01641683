-------------------------- MODULE ImageSync_proofs --------------------------
(* Proofs about ImageSync for every set of actors and projects, and every  *)
(* mixture of failures and restarts.                                       *)
EXTENDS ImageSync, TLAPS

\* saving a status keeps the rows typed
LEMMA SaveType ==
  ASSUME TypeOK, NEW s \in Statuses, Save(s)
  PROVE  row' \in [Projects -> Rows \cup {NoRow}]
  BY DEF TypeOK, Save, Live, Rows

\* so does inserting one
LEMMA InsertType ==
  ASSUME TypeOK, NEW a \in Actors, NEW s \in Statuses, Insert(a, s)
  PROVE  row' \in [Projects -> Rows \cup {NoRow}]
  BY DEF TypeOK, Insert, Rows

\* every action keeps everything typed
LEMMA TypeStep == TypeOK /\ [Next]_vars => TypeOK'
<1> SUFFICES ASSUME TypeOK, [Next]_vars PROVE TypeOK'
  OBVIOUS
<1> USE DEF Actors, CheckPcs, Pcs, Work, Undo, Ends, Jobs, env, temps, Goto, Job
<1>1. ASSUME Crash PROVE TypeOK'
  BY <1>1, ConstantsAssumption DEF Crash, TypeOK, MaxCrashes
<1>2. ASSUME NEW a \in Actors, Lookup(a) \/ ActorStep(a) PROVE TypeOK'
  <2> USE DEF Check, NoNeed
  <2>1. CASE Lookup(a)
    BY <2>1 DEF Lookup, TypeOK, MaxCrashes
  <2>2. CASE ReadRow(a)
    BY <2>2 DEF ReadRow, TypeOK, MaxCrashes, Live, Rows
  <2>3. CASE Destroy(a)
    BY <2>3 DEF Destroy, DestroyRows, TypeOK, MaxCrashes
  <2>4. CASE Create(a)
    <3>1. row' \in [Projects -> Rows \cup {NoRow}]
      BY <2>4, InsertType DEF Create, Statuses, Running, TypeOK
    <3>2. QED
      BY <2>4, <3>1 DEF Create, TypeOK, MaxCrashes
  <2>5. CASE Cast(a)
    BY <2>5 DEF Cast, TypeOK, MaxCrashes
  <2>6. CASE Poll(a)
    BY <2>6 DEF Poll, TypeOK, MaxCrashes
  <2>7. CASE Copy(a)
    BY <2>7 DEF Copy, TypeOK, MaxCrashes
  <2>8. QED
    BY <1>2, <2>1, <2>2, <2>3, <2>4, <2>5, <2>6, <2>7 DEF ActorStep
<1>3. ASSUME NEW a \in Actors, SyncStep(a) PROVE TypeOK'
  <2> USE DEF Sync
  <2>1. CASE Take(a)
    BY <2>1 DEF Take, TypeOK, MaxCrashes
  <2>2. CASE MarkSpawning(a)
    BY <2>2, SaveType DEF MarkSpawning, Mark, SaveRaises, TypeOK, MaxCrashes, Statuses, Running
  <2>3. CASE MarkUploading(a)
    BY <2>3, SaveType DEF MarkUploading, Mark, SaveRaises, TypeOK, MaxCrashes, Statuses, Running
  <2>4. CASE Spawn(a)
    BY <2>4 DEF Spawn, TypeOK, MaxCrashes
  <2>5. CASE PowerOff(a)
    BY <2>5 DEF PowerOff, TypeOK, MaxCrashes
  <2>6. CASE Upload(a)
    BY <2>6 DEF Upload, TypeOK, MaxCrashes
  <2>7. CASE MapImage(a)
    BY <2>7 DEF MapImage, TypeOK, MaxCrashes
  <2>8. CASE Discard(a)
    BY <2>8 DEF Discard, TypeOK, MaxCrashes
  <2>9. CASE Failed(a)
    <3>1. row' \in [Projects -> Rows \cup {NoRow}]
      BY <2>9, SaveType DEF Failed, DestroyRows, SaveRaises, Statuses, TypeOK
    <3>2. QED
      BY <2>9, <3>1 DEF Failed, DestroyRows, TypeOK, MaxCrashes
  <2>10. CASE Finish(a)
    BY <2>10, SaveType DEF Finish, SaveRaises, TypeOK, MaxCrashes, Statuses
  <2>11. CASE RemoveServer(a)
    BY <2>11 DEF RemoveServer, TypeOK, MaxCrashes
  <2>12. CASE RemoveVolume(a)
    BY <2>12 DEF RemoveVolume, TypeOK, MaxCrashes
  <2>13. QED
    BY <1>3, <2>1, <2>2, <2>3, <2>4, <2>5, <2>6, <2>7, <2>8, <2>9, <2>10, <2>11, <2>12
    DEF SyncStep
<1>4. CASE UNCHANGED vars
  BY <1>4 DEF vars, TypeOK, MaxCrashes
<1>5. QED
  BY <1>1, <1>2, <1>3, <1>4 DEF Next

\* the first state is typed
LEMMA InitType == Init => TypeOK
<1> SUFFICES ASSUME Init PROVE TypeOK
  OBVIOUS
<1>1. MaxCrashes \in Nat
  BY ConstantsAssumption DEF Init, MaxCrashes
<1>2. setting \in Settings /\ crashes \in 0..MaxCrashes
  BY <1>1 DEF Init
<1>3. /\ row \in [Projects -> Rows \cup {NoRow}]
      /\ mapper \in [Projects -> Actors \cup {NoImage}]
      /\ seen \in [Actors -> Actors \cup {NoRow}]
  BY DEF Init
<1>4. pc \in [Actors -> Pcs] /\ job \in [Actors -> Jobs]
  BY DEF Init, Pcs, Jobs
<1>5. images \subseteq Actors /\ servers \subseteq Actors /\ volumes \subseteq Actors
  BY DEF Init
<1>6. overtaken \in BOOLEAN
  BY Zenon DEF Init
<1>7. QED
  BY <1>2, <1>3, <1>4, <1>5, <1>6 DEF TypeOK

\* Every variable of the rows, the checks, the waits and the syncs stays in its
\* type, for all actors, projects, faults and restarts.
THEOREM TypeCorrect == Spec => []TypeOK
  BY InitType, TypeStep, PTL DEF Spec

----------------------------------------------------------------------------
(* The invariants.                                                         *)

Before == {"idle", "cast"} \cup CheckPcs

\* what a build's sync goes through
BuilderJobs == {"none", "power_off", "upload", "map", "discard", "failed", "finish", "over"}

\* an actor has one sync, which it starts when it has inserted its row
StartInv ==
    /\ \A a \in Actors : pc[a] \in Before => job[a] = "none"
    /\ \A a \in Actors : pc[a] # "idle" \/ job[a] # "none" => a \in Taking
    /\ \A a \in Builders : pc[a] # "cast" /\ job[a] \in BuilderJobs
    /\ \A p \in Projects : row[p] # NoRow =>
          /\ row[p].by \in Taking /\ Project[row[p].by] = p
          /\ pc[row[p].by] \notin {"idle"} \cup CheckPcs

Finished == \E p \in Projects : row[p] # NoRow /\ row[p].status = "finished"

\* a mapped copy is there, and its sync will not remove it any more
MapInv ==
    /\ \A p \in Projects : mapper[p] # NoImage =>
          mapper[p] \in images /\ job[mapper[p]] \in {"finish"} \cup Ends
    /\ \A a \in Actors : job[a] = "map" => a \in images

\* 'finished' comes after a mapping
SyncInv ==
    /\ Finished => Mapped # {}
    /\ \A a \in Actors : job[a] = "finish" \/ pc[a] = "copy" => Mapped # {}

Owning(a) == pc[a] = "cast" \/ Syncing(a)

\* whoever has inserted a row owns it until he saves its last status, and nobody
\* is about to destroy it
OwnInv ==
    /\ \A a \in Actors : Owning(a) =>
          /\ row[Project[a]] # NoRow /\ row[Project[a]].by = a
          /\ row[Project[a]].status \in Running
    /\ \A b \in Actors : pc[b] = "destroy" =>
          /\ seen[b] \in Actors /\ ~Syncing(seen[b])
          /\ pc[seen[b]] \in {"poll", "copy", "over"}

\* what a sync has made is accounted for by where it stands
CleanInv ==
    /\ \A p \in Projects :
          row[p] # NoRow /\ row[p].status \in Running => Owning(row[p].by)
    /\ \A a \in images : job[a] \in {"map", "discard"} \/ \E p \in Projects : mapper[p] = a
    /\ \A a \in servers : a \in Creators /\ job[a] \in (Work \ {"spawning", "spawn"})
                                              \cup {"failed", "clean", "undo"}
    /\ \A a \in volumes : a \in Creators /\ job[a] \notin {"none", "queued", "over"}

\* when nobody has destroyed a row he had not read
InOrder == OneProject /\ ~overtaken
\* and nothing fails that is not undone
Undone == /\ InOrder /\ MaxCrashes = 0
          /\ NoFault({"cast", "volume", "partial", "discard", "save", "destroy"})

\* StartInv is inductive
LEMMA StartStep ==
  ASSUME TypeOK, StartInv, [Next]_vars
  PROVE  StartInv'
<1> USE ConstantsAssumption DEF TypeOK, StartInv, Actors, Rows, Before, CheckPcs, BuilderJobs, Taking, env, temps, Goto, Job, Check, Sync
<1>1. CASE Crash
  BY <1>1 DEF Crash
<1>2. ASSUME NEW a \in Actors, Lookup(a) \/ ActorStep(a) \/ SyncStep(a) PROVE StartInv'
  <2>1. CASE Lookup(a)
    BY <2>1 DEF Lookup, NoNeed
  <2>2. CASE ReadRow(a)
    BY <2>2 DEF ReadRow, Live, NoNeed
  <2>3. CASE Destroy(a)
    BY <2>3 DEF Destroy, DestroyRows
  <2>4. CASE Create(a)
    BY <2>4 DEF Create, Insert
  <2>5. CASE Cast(a)
    BY <2>5 DEF Cast
  <2>6. CASE Poll(a)
    BY <2>6 DEF Poll, Live
  <2>7. CASE Copy(a)
    BY <2>7 DEF Copy
  <2>8. CASE Take(a)
    BY <2>8 DEF Take
  <2>9. CASE MarkSpawning(a)
    BY <2>9 DEF MarkSpawning, Mark, Save, SaveRaises, Live
  <2>10. CASE MarkUploading(a)
    BY <2>10 DEF MarkUploading, Mark, Save, SaveRaises, Live
  <2>11. CASE Spawn(a)
    BY <2>11 DEF Spawn
  <2>12. CASE PowerOff(a)
    BY <2>12 DEF PowerOff
  <2>13. CASE Upload(a)
    BY <2>13 DEF Upload
  <2>14. CASE MapImage(a)
    BY <2>14 DEF MapImage
  <2>15. CASE Discard(a)
    BY <2>15 DEF Discard
  <2>16. CASE Failed(a)
    BY <2>16 DEF Failed, DestroyRows, Save, SaveRaises, Live, Undo
  <2>17. CASE Finish(a)
    BY <2>17 DEF Finish, Save, SaveRaises, Live
  <2>18. CASE RemoveServer(a)
    BY <2>18 DEF RemoveServer
  <2>19. CASE RemoveVolume(a)
    BY <2>19 DEF RemoveVolume
  <2>20. QED
    BY <1>2, <2>1, <2>2, <2>3, <2>4, <2>5, <2>6, <2>7, <2>8, <2>9, <2>10, <2>11, <2>12, <2>13, <2>14, <2>15, <2>16, <2>17, <2>18, <2>19 DEF ActorStep, SyncStep
<1>3. CASE UNCHANGED vars
  BY <1>3 DEF vars
<1>4. QED
  BY <1>1, <1>2, <1>3 DEF Next

\* a mapping is inserted when the copy is there, and is not discarded
LEMMA MapStep ==
  ASSUME TypeOK, StartInv, NoFault({"partial"}), MapInv, [Next]_vars
  PROVE  MapInv'
<1> USE ConstantsAssumption DEF TypeOK, StartInv, Actors, Rows, Before, CheckPcs, Taking, env, temps,
            Goto, Job, Check, Sync, Faults, NoFault, MapInv, Mapped, Ends
<1>1. CASE Crash
  BY <1>1 DEF Crash
<1>2. ASSUME NEW a \in Actors, Lookup(a) \/ ActorStep(a) \/ SyncStep(a)
      PROVE  MapInv'
  <2>1. CASE Lookup(a)
    BY <2>1 DEF Lookup, NoNeed
  <2>2. CASE ReadRow(a)
    BY <2>2 DEF ReadRow, Live, NoNeed
  <2>3. CASE Destroy(a)
    BY <2>3 DEF Destroy, DestroyRows
  <2>4. CASE Create(a)
    BY <2>4 DEF Create, Insert
  <2>5. CASE Cast(a)
    BY <2>5 DEF Cast
  <2>6. CASE Poll(a)
    BY <2>6 DEF Poll, Live
  <2>7. CASE Copy(a)
    BY <2>7 DEF Copy
  <2>8. CASE Take(a)
    BY <2>8 DEF Take
  <2>9. CASE MarkSpawning(a)
    BY <2>9 DEF MarkSpawning, Mark, Save, SaveRaises, Live
  <2>10. CASE MarkUploading(a)
    BY <2>10 DEF MarkUploading, Mark, Save, SaveRaises, Live
  <2>11. CASE Spawn(a)
    BY <2>11 DEF Spawn
  <2>12. CASE PowerOff(a)
    BY <2>12 DEF PowerOff
  <2>13. CASE Upload(a)
    BY <2>13 DEF Upload
  <2>14. CASE MapImage(a)
    BY <2>14 DEF MapImage
  <2>15. CASE Discard(a)
    BY <2>15 DEF Discard
  <2>16. CASE Failed(a)
    BY <2>16 DEF Failed, DestroyRows, Save, SaveRaises, Live, Undo
  <2>17. CASE Finish(a)
    BY <2>17 DEF Finish, Save, SaveRaises, Live
  <2>18. CASE RemoveServer(a)
    BY <2>18 DEF RemoveServer
  <2>19. CASE RemoveVolume(a)
    BY <2>19 DEF RemoveVolume
  <2>20. QED
    BY <1>2, <2>1, <2>2, <2>3, <2>4, <2>5, <2>6, <2>7, <2>8, <2>9, <2>10, <2>11, <2>12, <2>13, <2>14, <2>15, <2>16, <2>17, <2>18, <2>19
    DEF ActorStep, SyncStep
<1>3. CASE UNCHANGED vars
  BY <1>3 DEF vars
<1>4. QED
  BY <1>1, <1>2, <1>3 DEF Next

\* 'finished' is written after the mapping
LEMMA FinishStep ==
  ASSUME TypeOK, StartInv, NoFault({"partial"}), SyncInv, [Next]_vars
  PROVE  SyncInv'
<1> USE ConstantsAssumption DEF TypeOK, StartInv, Actors, Rows, Before, CheckPcs, Taking, env, temps,
            Goto, Job, Check, Sync, Faults, NoFault, SyncInv, Finished, Mapped
<1>1. CASE Crash
  BY <1>1 DEF Crash
<1>2. ASSUME NEW a \in Actors, Lookup(a) \/ ActorStep(a) \/ SyncStep(a)
      PROVE  SyncInv'
  <2>1. CASE Lookup(a)
    BY <2>1 DEF Lookup, NoNeed
  <2>2. CASE ReadRow(a)
    BY <2>2 DEF ReadRow, Live, NoNeed
  <2>3. CASE Destroy(a)
    BY <2>3 DEF Destroy, DestroyRows
  <2>4. CASE Create(a)
    BY <2>4 DEF Create, Insert
  <2>5. CASE Cast(a)
    BY <2>5 DEF Cast
  <2>6. CASE Poll(a)
    BY <2>6 DEF Poll, Live
  <2>7. CASE Copy(a)
    BY <2>7 DEF Copy
  <2>8. CASE Take(a)
    BY <2>8 DEF Take
  <2>9. CASE MarkSpawning(a)
    BY <2>9 DEF MarkSpawning, Mark, Save, SaveRaises, Live
  <2>10. CASE MarkUploading(a)
    BY <2>10 DEF MarkUploading, Mark, Save, SaveRaises, Live
  <2>11. CASE Spawn(a)
    BY <2>11 DEF Spawn
  <2>12. CASE PowerOff(a)
    BY <2>12 DEF PowerOff
  <2>13. CASE Upload(a)
    BY <2>13 DEF Upload
  <2>14. CASE MapImage(a)
    BY <2>14 DEF MapImage
  <2>15. CASE Discard(a)
    BY <2>15 DEF Discard
  <2>16. CASE Failed(a)
    BY <2>16 DEF Failed, DestroyRows, Save, SaveRaises, Live, Undo
  <2>17. CASE Finish(a)
    BY <2>17 DEF Finish, Save, SaveRaises, Live
  <2>18. CASE RemoveServer(a)
    BY <2>18 DEF RemoveServer
  <2>19. CASE RemoveVolume(a)
    BY <2>19 DEF RemoveVolume
  <2>20. QED
    BY <1>2, <2>1, <2>2, <2>3, <2>4, <2>5, <2>6, <2>7, <2>8, <2>9, <2>10, <2>11, <2>12, <2>13, <2>14, <2>15, <2>16, <2>17, <2>18, <2>19
    DEF ActorStep, SyncStep
<1>3. CASE UNCHANGED vars
  BY <1>3 DEF vars
<1>4. QED
  BY <1>1, <1>2, <1>3 DEF Next

\* saving a status changes nothing else of the rows
LEMMA SavedRows ==
  ASSUME TypeOK, NEW s \in Statuses, Save(s),
         NEW p \in Projects, row[p] # NoRow
  PROVE  /\ row'[p] # NoRow /\ row'[p].by = row[p].by
         /\ row'[p].status \in {row[p].status, s}
<1>1. row' \in [Projects -> Rows \cup {NoRow}] /\ row[p] \in Rows
  BY SaveType DEF TypeOK
<1>2. PICK q \in Live : row' = [row EXCEPT ![q].status = s]
  BY DEF Save
<1>3. CASE p = q
  <2>1. row'[p] = [row[p] EXCEPT !.status = s]
    BY <1>2, <1>3 DEF TypeOK
  <2>2. row'[p] \in Rows /\ row'[p].by = row[p].by /\ row'[p].status = s
    BY <1>1, <2>1 DEF Rows
  <2>3. QED
    BY <2>2, ConstantsAssumption
<1>4. CASE p # q
  BY <1>2, <1>4 DEF TypeOK
<1>5. QED
  BY <1>3, <1>4

\* rows keep their owners while nobody overtakes another
LEMMA OwnStep ==
  ASSUME TypeOK, StartInv, OwnInv, InOrder', [Next]_vars
  PROVE  OwnInv'
<1> USE ConstantsAssumption DEF TypeOK, StartInv, Actors, Rows, Before, CheckPcs, Taking, env, temps,
            Goto, Job, Check, Sync, Faults, NoFault, OwnInv, InOrder, OneProject, Owning,
            Syncing, Running, Work, Undo
<1>1. CASE Crash
  BY <1>1 DEF Crash
<1>2. ASSUME NEW a \in Actors, Lookup(a) \/ ActorStep(a) \/ SyncStep(a)
      PROVE  OwnInv'
  <2>1. CASE Lookup(a)
    BY <2>1 DEF Lookup, NoNeed
  <2>2. CASE ReadRow(a)
    <3>1. \A x \in Actors : Owning(x)' => Owning(x)
      BY <2>2 DEF ReadRow, NoNeed
    <3>2. \A p \in Live : row[p].status \notin Running =>
             /\ row[p].by \in Actors /\ ~Owning(row[p].by)
             /\ pc[row[p].by] \in {"poll", "copy", "over"}
      BY DEF Live, Pcs
    <3>3. \A b \in Actors : pc'[b] = "destroy" =>
             /\ seen'[b] \in Actors /\ ~Syncing(seen'[b])
             /\ pc[seen'[b]] \in {"poll", "copy", "over"}
      BY <2>2, <3>2 DEF ReadRow, NoNeed
    <3>4. \A x \in Actors : pc[x] \in {"poll", "copy", "over"} => pc'[x] = pc[x]
      BY <2>2 DEF ReadRow, NoNeed
    <3>5. row' = row /\ job' = job
      BY <2>2 DEF ReadRow
    <3>6. QED
      BY <3>1, <3>3, <3>4, <3>5
  <2>3. CASE Destroy(a)
    <3>1. \A p \in Projects : row[p] # NoRow => row[p].by = seen[a]
      BY <2>3 DEF Destroy, DestroyRows, Live
    <3>2. \A x \in Actors : ~Owning(x)
      BY <2>3, <3>1 DEF Destroy
    <3>3. \A x \in Actors : ~Owning(x)'
      BY <2>3, <3>2 DEF Destroy
    <3>4. QED
      BY <2>3, <3>3 DEF Destroy
  <2>4. CASE Create(a)
    <3>1. CASE row[Project[a]] # NoRow /\ Goto(a, "over") /\ UNCHANGED <<row, job>>
      BY <2>4, <3>1 DEF Create
    <3>2. ASSUME NEW s \in Running, Insert(a, s),
                 \/ pc' = [pc EXCEPT ![a] = "cast"] /\ job' = job
                 \/ /\ pc' = [pc EXCEPT ![a] = "over"]
                    /\ job' = [job EXCEPT ![a] = "power_off"]
          PROVE  OwnInv'
      <4>1. OneProject /\ row[Project[a]] = NoRow /\ a \in Taking
        BY <2>4, <3>2 DEF Create, Insert
      <4>2. \A x \in Actors : ~Owning(x)
        BY <4>1
      <4>3. \A x \in Actors : Owning(x)' => x = a
        BY <2>4, <3>2, <4>2 DEF Create
      <4>4. row'[Project[a]] = [by |-> a, status |-> s] /\ row'[Project[a]] # NoRow
        BY <3>2 DEF Insert, Statuses
      <4>5. \A b \in Actors : pc'[b] = "destroy" =>
               b # a /\ pc[b] = "destroy" /\ seen'[b] = seen[b] /\ seen[b] # a
        BY <2>4, <3>2 DEF Create
      <4>6. \A x \in Actors : x # a => pc'[x] = pc[x] /\ job'[x] = job[x]
        BY <3>2
      <4>7. QED
        BY <4>3, <4>4, <4>5, <4>6
    <3>3. CASE Insert(a, "creating") /\ Goto(a, "cast") /\ UNCHANGED job
      BY <3>2, <3>3
    <3>4. CASE Insert(a, "uploading") /\ Goto(a, "over") /\ Job(a, "power_off")
      BY <3>2, <3>4
    <3>5. QED
      BY <2>4, <3>1, <3>3, <3>4 DEF Create
  <2>5. CASE Cast(a)
    BY <2>5 DEF Cast
  <2>6. CASE Poll(a)
    BY <2>6 DEF Poll, Live
  <2>7. CASE Copy(a)
    BY <2>7 DEF Copy
  <2>8. CASE Take(a)
    BY <2>8 DEF Take
  <2>9. CASE MarkSpawning(a)
    <3>1. \A p \in Projects : row[p] # NoRow =>
             /\ row'[p] # NoRow /\ row'[p].by = row[p].by
             /\ row'[p].status \in {row[p].status, "spawning", "uploading"}
      BY <2>9, SavedRows DEF MarkSpawning, Mark, SaveRaises, Statuses
    <3>2. /\ pc' = pc /\ seen' = seen /\ Syncing(a)
          /\ \A x \in Actors : Syncing(x)' <=> Syncing(x)
      BY <2>9 DEF MarkSpawning, Mark
    <3>3. QED
      BY <3>1, <3>2
  <2>10. CASE MarkUploading(a)
    <3>1. \A p \in Projects : row[p] # NoRow =>
             /\ row'[p] # NoRow /\ row'[p].by = row[p].by
             /\ row'[p].status \in {row[p].status, "spawning", "uploading"}
      BY <2>10, SavedRows DEF MarkUploading, Mark, SaveRaises, Statuses
    <3>2. /\ pc' = pc /\ seen' = seen /\ Syncing(a)
          /\ \A x \in Actors : Syncing(x)' <=> Syncing(x)
      BY <2>10 DEF MarkUploading, Mark
    <3>3. QED
      BY <3>1, <3>2
  <2>11. CASE Spawn(a)
    BY <2>11 DEF Spawn
  <2>12. CASE PowerOff(a)
    BY <2>12 DEF PowerOff
  <2>13. CASE Upload(a)
    BY <2>13 DEF Upload
  <2>14. CASE MapImage(a)
    BY <2>14 DEF MapImage
  <2>15. CASE Discard(a)
    BY <2>15 DEF Discard
  <2>16. CASE Failed(a)
    BY <2>16 DEF Failed, DestroyRows, Save, SaveRaises, Live, Undo
  <2>17. CASE Finish(a)
    BY <2>17 DEF Finish, Save, SaveRaises, Live
  <2>18. CASE RemoveServer(a)
    BY <2>18 DEF RemoveServer
  <2>19. CASE RemoveVolume(a)
    BY <2>19 DEF RemoveVolume
  <2>20. QED
    BY <1>2, <2>1, <2>2, <2>3, <2>4, <2>5, <2>6, <2>7, <2>8, <2>9, <2>10, <2>11, <2>12, <2>13, <2>14, <2>15, <2>16, <2>17, <2>18, <2>19
    DEF ActorStep, SyncStep
<1>3. CASE UNCHANGED vars
  BY <1>3 DEF vars
<1>4. QED
  BY <1>1, <1>2, <1>3 DEF Next

\* and what they make is removed or mapped
LEMMA CleanStep ==
  ASSUME TypeOK, StartInv, OwnInv, CleanInv, Undone', [Next]_vars
  PROVE  CleanInv'
<1> USE ConstantsAssumption DEF TypeOK, StartInv, Actors, Rows, Before, CheckPcs, Taking, env, temps,
            Goto, Job, Check, Sync, Faults, NoFault, OwnInv, CleanInv, Undone, InOrder, OneProject, Owning,
            Syncing, Running, Work, Undo, MaxCrashes, BuilderJobs
<1>1. CASE Crash
  BY <1>1 DEF Crash
<1>2. ASSUME NEW a \in Actors, Lookup(a) \/ ActorStep(a) \/ SyncStep(a)
      PROVE  CleanInv'
  <2>1. CASE Lookup(a)
    BY <2>1 DEF Lookup, NoNeed
  <2>2. CASE ReadRow(a)
    BY <2>2 DEF ReadRow, Live, NoNeed
  <2>3. CASE Destroy(a)
    BY <2>3 DEF Destroy, DestroyRows
  <2>4. CASE Create(a)
    BY <2>4 DEF Create, Insert
  <2>5. CASE Cast(a)
    BY <2>5 DEF Cast
  <2>6. CASE Poll(a)
    BY <2>6 DEF Poll, Live
  <2>7. CASE Copy(a)
    BY <2>7 DEF Copy
  <2>8. CASE Take(a)
    BY <2>8 DEF Take
  <2>9. CASE MarkSpawning(a)
    BY <2>9 DEF MarkSpawning, Mark, Save, SaveRaises, Live
  <2>10. CASE MarkUploading(a)
    BY <2>10 DEF MarkUploading, Mark, Save, SaveRaises, Live
  <2>11. CASE Spawn(a)
    BY <2>11 DEF Spawn
  <2>12. CASE PowerOff(a)
    BY <2>12 DEF PowerOff
  <2>13. CASE Upload(a)
    BY <2>13 DEF Upload
  <2>14. CASE MapImage(a)
    BY <2>14 DEF MapImage
  <2>15. CASE Discard(a)
    BY <2>15 DEF Discard
  <2>16. CASE Failed(a)
    BY <2>16 DEF Failed, DestroyRows, Save, SaveRaises, Live, Undo
  <2>17. CASE Finish(a)
    BY <2>17 DEF Finish, Save, SaveRaises, Live
  <2>18. CASE RemoveServer(a)
    BY <2>18 DEF RemoveServer
  <2>19. CASE RemoveVolume(a)
    BY <2>19 DEF RemoveVolume
  <2>20. QED
    BY <1>2, <2>1, <2>2, <2>3, <2>4, <2>5, <2>6, <2>7, <2>8, <2>9, <2>10, <2>11, <2>12, <2>13, <2>14, <2>15, <2>16, <2>17, <2>18, <2>19
    DEF ActorStep, SyncStep
<1>3. CASE UNCHANGED vars
  BY <1>3 DEF vars
<1>4. QED
  BY <1>1, <1>2, <1>3 DEF Next

----------------------------------------------------------------------------
(* The theorems.                                                           *)

\* the invariant of them all
IInv ==
    /\ TypeOK /\ StartInv
    /\ NoFault({"partial"}) => MapInv /\ SyncInv
    /\ InOrder => OwnInv
    /\ Undone => CleanInv

\* it holds at the start
LEMMA InitInv == Init => IInv
<1> SUFFICES ASSUME Init PROVE IInv
  OBVIOUS
<1>1. TypeOK
  BY InitType
<1>2. StartInv
  BY DEF Init, StartInv, Actors, BuilderJobs
<1>3. MapInv /\ SyncInv
  BY DEF Init, MapInv, SyncInv, Finished, Actors
<1>4. OwnInv
  BY DEF Init, OwnInv, Owning, Syncing, Work, Undo, Actors
<1>5. CleanInv
  BY DEF Init, CleanInv
<1>6. QED
  BY <1>1, <1>2, <1>3, <1>4, <1>5 DEF IInv

\* whoever was overtaken stays so, and nothing changes the setting
LEMMA OrderStep ==
  ASSUME TypeOK, [Next]_vars
  PROVE  setting' = setting /\ (overtaken => overtaken')
<1> USE DEF env, Check, Sync
<1>1. CASE Crash
  BY <1>1 DEF Crash
<1>2. ASSUME NEW a \in Actors, Lookup(a) \/ ActorStep(a)
      PROVE  setting' = setting /\ (overtaken => overtaken')
  <2>1. CASE Destroy(a)
    BY <2>1, Zenon DEF Destroy, DestroyRows
  <2>2. CASE ~Destroy(a)
    BY <1>2, <2>2 DEF ActorStep, Lookup, ReadRow, Create, Cast, Poll, Copy
  <2>3. QED
    BY <2>1, <2>2
<1>3. ASSUME NEW a \in Actors, SyncStep(a)
      PROVE  setting' = setting /\ (overtaken => overtaken')
  <2>1. CASE Failed(a)
    <3>1. setting' = setting
      BY <2>1 DEF Failed
    <3>2. CASE DestroyRows(a)
      BY <3>1, <3>2, Zenon DEF DestroyRows
    <3>3. CASE UNCHANGED overtaken
      BY <3>1, <3>3, Zenon
    <3>4. QED
      BY <2>1, <3>2, <3>3, Zenon DEF Failed
  <2>2. CASE ~Failed(a)
    BY <1>3, <2>2 DEF SyncStep, Take, MarkSpawning, MarkUploading, Mark, Spawn, PowerOff,
       Upload, MapImage, Discard, Finish, RemoveServer, RemoveVolume
  <2>3. QED
    BY <2>1, <2>2
<1>4. CASE UNCHANGED vars
  BY <1>4 DEF vars
<1>5. QED
  BY <1>1, <1>2, <1>3, <1>4 DEF Next

\* every step keeps it
LEMMA InvStep == IInv /\ [Next]_vars => IInv'
<1> SUFFICES ASSUME IInv, [Next]_vars PROVE IInv'
  OBVIOUS
<1>1. TypeOK' /\ StartInv'
  BY TypeStep, StartStep DEF IInv
<1>2. NoFault({"partial"})' => MapInv' /\ SyncInv'
  BY OrderStep, MapStep, FinishStep DEF IInv, NoFault, Faults
<1>3. InOrder' => InOrder
  BY OrderStep DEF IInv, InOrder, OneProject, Taking
<1>4. InOrder' => OwnInv'
  BY <1>3, OwnStep DEF IInv
<1>5. Undone' => Undone /\ InOrder
  BY <1>3, OrderStep DEF IInv, Undone, MaxCrashes, NoFault, Faults
<1>6. Undone' => CleanInv'
  BY <1>5, CleanStep DEF IInv
<1>7. QED
  BY <1>1, <1>2, <1>4, <1>6 DEF IInv

\* so it always holds
LEMMA AlwaysInv == Spec => []IInv
  BY InitInv, InvStep, PTL DEF Spec

\* No creation ever takes an image for synchronised that the provider does not
\* have, for any number of syncs, failures, restarts and projects, when the
\* mapping is inserted as a whole.
THEOREM SyncedCorrect == Spec => []SyncedIsThere
<1>1. IInv => SyncedIsThere
  BY DEF IInv, SyncedIsThere, MapInv, SyncInv, Mapped, Actors
<1>2. QED
  BY <1>1, AlwaysInv, PTL

\* Two syncs of a project at once need a row that was destroyed by somebody who
\* had read another one, with any faults and restarts.
THEOREM OneSyncCorrect == Spec => []OneSync
<1>1. IInv => OneSync
  BY ConstantsAssumption DEF IInv, StartInv, OneSync, InOrder, OwnInv, Owning, OneProject,
     Syncing, Work, Undo
<1>2. QED
  BY <1>1, AlwaysInv, PTL

\* When everybody has ended, the rows, the provider's images and the temporary
\* servers and volumes agree with the mapping, for any number of creations and
\* builds, whatever the calls to the provider did.
THEOREM QuietCorrect == Spec => []QuietIsClean
<1>1. IInv => QuietIsClean
  <2> SUFFICES ASSUME IInv, Undone, Quiet
               PROVE  /\ \A p \in Live : row[p].status \notin Running
                      /\ images = {mapper[p] : p \in Mapped}
                      /\ servers = {} /\ volumes = {}
    BY DEF QuietIsClean, Undone, InOrder
  <2>1. TypeOK /\ CleanInv /\ MapInv
    BY DEF IInv, Undone, NoFault
  <2>2. \A a \in Actors : ~Owning(a) /\ job[a] \in {"none", "over"}
    BY DEF Quiet, Owning, Syncing, Work, Undo
  <2>3. \A p \in Live : row[p].status \notin Running
    BY <2>1, <2>2 DEF TypeOK, Rows, CleanInv, Live
  <2>4. \A a \in images : \E p \in Mapped : mapper[p] = a
    BY <2>1, <2>2, ConstantsAssumption DEF TypeOK, CleanInv, Mapped
  <2>5. \A p \in Mapped : mapper[p] \in images
    BY <2>1 DEF MapInv, Mapped
  <2>6. servers = {} /\ volumes = {}
    BY <2>1, <2>2 DEF TypeOK, CleanInv, Work
  <2>7. QED
    BY <2>3, <2>4, <2>5, <2>6
<1>2. QED
  BY <1>1, AlwaysInv, PTL
=============================================================================
