------------------------ MODULE VolumeAttach_proofs ------------------------
(* Proofs about VolumeAttach for every set of instances, attachment ids,    *)
(* calls, operations and faults.  NoPhantomUse is inductive as it stands;   *)
(* RowsUnique needs RowsInv.                                                *)
EXTENDS VolumeAttach, TLAPS

\* the initial state is typed
LEMMA TypeInit == Init => TypeOK
  BY ConstantsAssumption
  DEF Init, TypeOK, CallRecords, RowRecords, CallPcs, RowStates, ClientPcs,
       DelPcs, JobPcs,
      MgrPcs, Deleters, Statuses, Idle

\* the fields of a call are typed
LEMMA CallFields ==
  ASSUME TypeOK, NEW c \in CallIds
  PROVE  /\ calls[c] \in CallRecords
         /\ calls[c].op # "none" => calls[c].inst \in Instances
         /\ calls[c].att \in AttIds \cup {NoAtt}
  BY ConstantsAssumption DEF TypeOK, CallRecords, Idle

\* a handler's step keeps the calls typed and touches no one else's state
LEMMA CallStepType ==
  ASSUME TypeOK, NEW c \in CallIds, NEW op \in {"attach", "detach"}, NEW from,
         NEW to \in CallPcs, NEW a \in AttIds \cup {NoAtt},
         CallStep(c, op, from, to, a)
  PROVE  /\ calls' \in [CallIds -> CallRecords]
         /\ UNCHANGED <<client, seen, cAtt, waits, del, ext, upl, mgr, crashes>>
<1> DEFINE Requests == [op: {"attach", "detach"}, pc: CallPcs,
                        inst: Instances, att: AttIds \cup {NoAtt}]
<1>1. calls[c] \in Requests
  BY CallFields DEF CallRecords, CallStep, Idle
<1>2. [calls[c] EXCEPT !.pc = to, !.att = a] \in Requests
  BY <1>1
<1>3. QED
  BY <1>2 DEF TypeOK, CallRecords, CallStep, compute, jobs

\* an unused call slot is a call record
LEMMA IdleCall == Idle \in CallRecords
  BY DEF CallRecords

\* updating the state of a row keeps the rows typed
LEMMA MarkRowType ==
  ASSUME TypeOK, NEW a, NEW st \in RowStates, MarkRow(a, st)
  PROVE  rows' \in [AttIds -> RowRecords]
<1>1. CASE a \in LiveRows
  <2>1. a \in AttIds
    BY <1>1 DEF LiveRows
  <2>2. [rows[a] EXCEPT !.st = st] \in RowRecords
    BY <2>1 DEF TypeOK, RowRecords
  <2>3. QED
    BY <1>1, <2>1, <2>2 DEF TypeOK, MarkRow
<1>2. CASE a \notin LiveRows
  BY <1>2 DEF TypeOK, MarkRow
<1>3. QED
  BY <1>1, <1>2

\* sending a call keeps everything typed
LEMMA SendCallType ==
  ASSUME TypeOK, NEW i \in Instances, NEW o \in {"attach", "detach"},
         NEW a \in AttIds \cup {NoAtt}, NEW from, NEW to \in ClientPcs,
         SendCall(i, from, to, Request(o, i, a))
  PROVE  TypeOK'
<1>1. Request(o, i, a) \in CallRecords
  BY DEF Request, CallRecords, CallPcs
<1>2. calls' \in [CallIds -> CallRecords] /\ waits' \in [Instances -> CallIds \cup {NoCall}]
  BY <1>1 DEF TypeOK, SendCall, FreeCalls
<1>3. QED
  BY <1>2 DEF TypeOK, SendCall, Move, record, jobs

\* every action keeps everything typed
LEMMA TypeStep == TypeOK /\ [Next]_vars => TypeOK'
<1> SUFFICES ASSUME TypeOK, [Next]_vars PROVE TypeOK'
  OBVIOUS
<1> USE DEF TypeOK, CallPcs, RowStates, ClientPcs, DelPcs, JobPcs, MgrPcs,
       Deleters, Statuses
<1>1. ASSUME NEW i \in Instances, CheckAttach(i) PROVE TypeOK'
  BY <1>1 DEF CheckAttach, Move, Elsewhere, record, jobs
<1>2. ASSUME NEW i \in Instances, Reserve(i) PROVE TypeOK'
  BY <1>2 DEF Reserve, Move, Elsewhere, jobs
<1>3. ASSUME NEW i \in Instances, ReserveFails(i) PROVE TypeOK'
  BY <1>3 DEF ReserveFails, Move, Elsewhere, record, jobs
<1>4. ASSUME NEW i \in Instances, LoseAttachRequest(i) PROVE TypeOK'
  BY <1>4 DEF LoseAttachRequest, Move, Elsewhere, record, jobs
<1>5. ASSUME NEW i \in Instances, ReadVolume(i) PROVE TypeOK'
  BY <1>5 DEF ReadVolume, Move, record, jobs
<1>6. ASSUME NEW i \in Instances, ReadFails(i) PROVE TypeOK'
  BY <1>6 DEF ReadFails, Move, Elsewhere, record, jobs
<1>7. ASSUME NEW i \in Instances, VirtAttach(i) PROVE TypeOK'
  BY <1>7 DEF VirtAttach, Move, Elsewhere, record, jobs
<1>8. ASSUME NEW i \in Instances, VirtAttachFails(i) PROVE TypeOK'
  BY <1>8 DEF VirtAttachFails, Move, record, jobs
<1>9. ASSUME NEW i \in Instances, FailTerminate(i) PROVE TypeOK'
  BY <1>9 DEF FailTerminate, Terminate, Move, UnreserveVolume,
       StatusByAttachment, LiveRows, Elsewhere, jobs
<1>10. ASSUME NEW i \in Instances, SendAttach(i) PROVE TypeOK'
  BY <1>10, SendCallType DEF SendAttach
<1>11. ASSUME NEW i \in Instances, SkipAttach(i) PROVE TypeOK'
  BY <1>11 DEF SkipAttach, Move, record, jobs
<1>12. ASSUME NEW i \in Instances, AttachReturns(i) PROVE TypeOK'
  BY <1>12, IdleCall DEF AttachReturns, Move, Answered, StopWaiting, record,
       jobs
<1>13. ASSUME NEW i \in Instances, AttachRaises(i) PROVE TypeOK'
  BY <1>13, IdleCall DEF AttachRaises, Move, Answered, NoAnswer, StopWaiting,
       record, jobs
<1>14. ASSUME NEW i \in Instances, UndoUnplug(i) PROVE TypeOK'
  BY <1>14 DEF UndoUnplug, Move, Elsewhere, record, jobs
<1>15. ASSUME NEW i \in Instances, UndoTerminate(i) PROVE TypeOK'
  BY <1>15 DEF UndoTerminate, Terminate, Move, UnreserveVolume,
       StatusByAttachment, LiveRows, Elsewhere, jobs
<1>16. ASSUME NEW i \in Instances, UndoDetach(i) PROVE TypeOK'
  BY <1>16, SendCallType DEF UndoDetach
<1>17. ASSUME NEW i \in Instances, UndoDetachReturns(i) PROVE TypeOK'
  BY <1>17, IdleCall DEF UndoDetachReturns, Move, Answered, NoAnswer,
       StopWaiting, record, jobs
<1>18. ASSUME NEW i \in Instances, UndoUnreserve(i) PROVE TypeOK'
  BY <1>18 DEF UndoUnreserve, Move, UnreserveVolume, StatusByAttachment,
       LiveRows, Elsewhere, jobs
<1>19. ASSUME NEW i \in Instances, DetachRead(i) PROVE TypeOK'
  BY <1>19 DEF DetachRead, Move, RowsOf, LiveRows, record, jobs
<1>20. ASSUME NEW i \in Instances, BeginDetaching(i) PROVE TypeOK'
  BY <1>20 DEF BeginDetaching, Move, Elsewhere, jobs
<1>21. ASSUME NEW i \in Instances, BeginDetachingFails(i) PROVE TypeOK'
  BY <1>21 DEF BeginDetachingFails, Move, record, jobs
<1>22. ASSUME NEW i \in Instances, VirtDetach(i) PROVE TypeOK'
  BY <1>22 DEF VirtDetach, Move, Elsewhere, record, jobs
<1>23. ASSUME NEW i \in Instances, VirtDetachFails(i) PROVE TypeOK'
  BY <1>23 DEF VirtDetachFails, Move, RollDetaching, jobs
<1>24. ASSUME NEW i \in Instances, DetachTerminate(i) PROVE TypeOK'
  BY <1>24 DEF DetachTerminate, Terminate, Move, UnreserveVolume,
       StatusByAttachment, LiveRows, Elsewhere, jobs
<1>25. ASSUME NEW i \in Instances, SendDetach(i) PROVE TypeOK'
  BY <1>25, SendCallType DEF SendDetach
<1>26. ASSUME NEW i \in Instances, DetachReturns(i) PROVE TypeOK'
  BY <1>26, IdleCall DEF DetachReturns, Move, Answered, NoAnswer, StopWaiting,
       record, jobs
<1>27. ASSUME NEW c \in CallIds, AttachRefused(c) PROVE TypeOK'
  BY <1>27, CallFields, CallStepType DEF AttachRefused, CallStart,
       record
<1>28. ASSUME NEW c \in CallIds, AttachAgain(c) PROVE TypeOK'
  BY <1>28, CallFields, CallStepType DEF AttachAgain, CallStart,
       RowsOf, LiveRows
<1>29. ASSUME NEW c \in CallIds, AttachStart(c) PROVE TypeOK'
  <2>1. /\ calls' \in [CallIds -> CallRecords]
        /\ UNCHANGED <<client, seen, cAtt, waits, del, ext, upl, mgr, crashes>>
    BY <1>29, CallFields, CallStepType DEF AttachStart, CallStart
  <2>2. rows' \in [AttIds -> RowRecords]
    BY <1>29 DEF AttachStart, RowRecords
  <2>3. QED
    BY <1>29, CallFields, <2>1, <2>2 DEF AttachStart, CallStep, record
<1>30. ASSUME NEW c \in CallIds, AttachBadMode(c) PROVE TypeOK'
  BY <1>30, CallFields, CallStepType DEF AttachBadMode
<1>31. ASSUME NEW c \in CallIds, AttachDriver(c) PROVE TypeOK'
  <2>1. /\ calls' \in [CallIds -> CallRecords]
        /\ UNCHANGED <<client, seen, cAtt, waits, del, ext, upl, mgr, crashes>>
    BY <1>31, CallFields, CallStepType DEF AttachDriver, CallStart
  <2>2. rows' \in [AttIds -> RowRecords]
    BY <1>31 DEF AttachDriver, record
  <2>3. QED
    BY <1>31, CallFields, <2>1, <2>2 DEF AttachDriver, CallStep, record
<1>32. ASSUME NEW c \in CallIds, AttachDriverFails(c) PROVE TypeOK'
  <2>1. /\ calls' \in [CallIds -> CallRecords]
        /\ UNCHANGED <<client, seen, cAtt, waits, del, ext, upl, mgr, crashes>>
    BY <1>32, CallFields, CallStepType DEF AttachDriverFails, CallStart
  <2>2. rows' \in [AttIds -> RowRecords]
    BY <1>32, MarkRowType DEF AttachDriverFails
  <2>3. QED
    BY <1>32, CallFields, <2>1, <2>2 DEF AttachDriverFails, CallStep, record
<1>33. ASSUME NEW c \in CallIds, AttachSave(c) PROVE TypeOK'
  <2>1. /\ calls' \in [CallIds -> CallRecords]
        /\ UNCHANGED <<client, seen, cAtt, waits, del, ext, upl, mgr, crashes>>
    BY <1>33, CallFields, CallStepType DEF AttachSave, CallStart
  <2>2. rows' \in [AttIds -> RowRecords]
    BY <1>33, CallFields DEF AttachSave, CallStep, RowRecords
  <2>3. QED
    BY <1>33, CallFields, <2>1, <2>2 DEF AttachSave, CallStep, record
<1>34. ASSUME NEW c \in CallIds, AttachSaveFails(c) PROVE TypeOK'
  <2>1. /\ calls' \in [CallIds -> CallRecords]
        /\ UNCHANGED <<client, seen, cAtt, waits, del, ext, upl, mgr, crashes>>
    BY <1>34, CallFields, CallStepType DEF AttachSaveFails, CallStart
  <2>2. rows' \in [AttIds -> RowRecords]
    BY <1>34 DEF AttachSaveFails, record
  <2>3. QED
    BY <1>34, CallFields, <2>1, <2>2 DEF AttachSaveFails, CallStep, record
<1>35. ASSUME NEW c \in CallIds, DetachRefused(c) PROVE TypeOK'
  BY <1>35, CallFields, CallStepType DEF DetachRefused, CallStart,
       LiveRows, record
<1>36. ASSUME NEW c \in CallIds, DetachUnknown(c) PROVE TypeOK'
  BY <1>36, CallFields, CallStepType, MarkRowType DEF DetachUnknown, CallStart,
       LiveRows, VolumeDetached
<1>37. ASSUME NEW c \in CallIds, DetachStart(c) PROVE TypeOK'
  BY <1>37, CallFields, CallStepType DEF DetachStart, LiveRows,
       CallStart, record
<1>38. ASSUME NEW c \in CallIds, DetachNothing(c) PROVE TypeOK'
  BY <1>38, CallFields, CallStepType DEF DetachNothing, CallStart,
       LiveRows, record
<1>39. ASSUME NEW c \in CallIds, DetachClear(c) PROVE TypeOK'
  BY <1>39, CallFields, CallStepType DEF DetachClear
<1>40. ASSUME NEW c \in CallIds, DetachDriver(c) PROVE TypeOK'
  <2>1. /\ calls' \in [CallIds -> CallRecords]
        /\ UNCHANGED <<client, seen, cAtt, waits, del, ext, upl, mgr, crashes>>
    BY <1>40, CallFields, CallStepType DEF DetachDriver, CallStart
  <2>2. rows' \in [AttIds -> RowRecords]
    BY <1>40 DEF DetachDriver, record
  <2>3. QED
    BY <1>40, CallFields, <2>1, <2>2 DEF DetachDriver, CallStep, record
<1>41. ASSUME NEW c \in CallIds, DetachDriverFails(c) PROVE TypeOK'
  <2>1. /\ calls' \in [CallIds -> CallRecords]
        /\ UNCHANGED <<client, seen, cAtt, waits, del, ext, upl, mgr, crashes>>
    BY <1>41, CallFields, CallStepType DEF DetachDriverFails, CallStart
  <2>2. rows' \in [AttIds -> RowRecords]
    BY <1>41, MarkRowType DEF DetachDriverFails
  <2>3. QED
    BY <1>41, CallFields, <2>1, <2>2 DEF DetachDriverFails, CallStep, record
<1>42. ASSUME NEW c \in CallIds, DetachSave(c) PROVE TypeOK'
  BY <1>42, CallFields, CallStepType, MarkRowType DEF DetachSave,
       VolumeDetached, LiveRows
<1>43. ASSUME NEW c \in CallIds, DetachVolumeGone(c) PROVE TypeOK'
  BY <1>43, CallFields, CallStepType DEF DetachVolumeGone, record
<1>44. ASSUME NEW c \in CallIds, DropReply(c) PROVE TypeOK'
  BY <1>44, IdleCall DEF DropReply, record, compute, jobs
<1>45. ASSUME NEW d \in Deleters, DeleteStart(d) PROVE TypeOK'
  BY <1>45 DEF DeleteStart, AfterDelete, DelLockFree, Deleters, DelStep, compute
<1>46. ASSUME NEW d \in Deleters, DeleteDriver(d) PROVE TypeOK'
  BY <1>46 DEF DeleteDriver, DelStep, compute
<1>47. ASSUME NEW d \in Deleters, DeleteDriverFails(d) PROVE TypeOK'
  BY <1>47 DEF DeleteDriverFails, AfterDelete, DelStep, compute
<1>48. ASSUME NEW d \in Deleters, DeleteDestroy(d) PROVE TypeOK'
  BY <1>48 DEF DeleteDestroy, AfterDelete, DelStep, compute
<1>49. ASSUME DeleteRequest PROVE TypeOK'
  BY <1>49 DEF DeleteRequest, DelStep, compute
<1>50. ASSUME ExtendCheck PROVE TypeOK'
  BY <1>50 DEF ExtendCheck, JobFrame, compute
<1>51. ASSUME ExtendWrite PROVE TypeOK'
  BY <1>51 DEF ExtendWrite, JobFrame, compute
<1>52. ASSUME ExtendVolume PROVE TypeOK'
  BY <1>52 DEF ExtendVolume, JobFrame, compute
<1>53. ASSUME UploadCheck PROVE TypeOK'
  BY <1>53 DEF UploadCheck, JobFrame, compute
<1>54. ASSUME UploadWrite PROVE TypeOK'
  BY <1>54 DEF UploadWrite, JobFrame, compute
<1>55. ASSUME CopyVolumeToImage PROVE TypeOK'
  BY <1>55 DEF CopyVolumeToImage, StatusByAttachment, LiveRows, JobFrame,
       compute
<1>56. ASSUME Crash PROVE TypeOK'
  <2>1. calls' \in [CallIds -> CallRecords] /\ del' \in [Deleters -> DelPcs]
    BY <1>56, IdleCall DEF Crash
  <2>2. PICK Lost \in SUBSET Local : KillClients(Lost)
    BY <1>56 DEF Crash
  <2>3. \A pc \in ClientPcs : AfterKill(pc) \in ClientPcs
    BY DEF AfterKill, AttachPcs
  <2>4. /\ client' \in [Instances -> ClientPcs]
        /\ seen' \in [Instances -> {"attached", "detached"}]
        /\ cAtt' \in [Instances -> AttIds \cup {NoAtt}]
        /\ waits' \in [Instances -> CallIds \cup {NoCall}]
    BY <2>2, <2>3 DEF KillClients
  <2>5. mgr' \in MgrPcs /\ crashes' \in 0..MaxCrashes
    BY <1>56, ConstantsAssumption DEF Crash
  <2>6. QED
    BY <1>56, <2>1, <2>4, <2>5 DEF Crash, record
<1>57. ASSUME InitHostRead PROVE TypeOK'
  BY <1>57 DEF InitHostRead, record, compute, jobs
<1>58. ASSUME InitHost PROVE TypeOK'
  BY <1>58 DEF InitHost, StatusByAttachment, LiveRows, compute
<1>59. CASE UNCHANGED vars
  BY <1>59 DEF vars, record, compute, jobs
<1>60. QED
  BY <1>1, <1>2, <1>3, <1>4, <1>5, <1>6, <1>7, <1>8, <1>9, <1>10, <1>11, <1>12,
       <1>13, <1>14, <1>15, <1>16, <1>17, <1>18, <1>19, <1>20, <1>21, <1>22,
       <1>23, <1>24, <1>25, <1>26, <1>27, <1>28, <1>29, <1>30, <1>31, <1>32,
       <1>33, <1>34, <1>35, <1>36, <1>37, <1>38, <1>39, <1>40, <1>41, <1>42,
       <1>43, <1>44, <1>45, <1>46, <1>47, <1>48, <1>49, <1>50, <1>51, <1>52,
       <1>53, <1>54, <1>55, <1>56, <1>57, <1>58, <1>59
  DEF Next, ClientStep, AttachHandler, DetachHandler, DeleteHandler, JobStep

\* marking a row live keeps the set of live rows, marking it detached removes it
LEMMA MarkRowLive ==
  ASSUME TypeOK, NEW a, NEW st \in RowStates \ {"absent"}, MarkRow(a, st)
  PROVE  LiveRows' = IF st = "detached" THEN LiveRows \ {a} ELSE LiveRows
<1>1. CASE a \in LiveRows
  <2>1. a \in AttIds
    BY <1>1 DEF LiveRows
  <2>2. \A b \in AttIds : rows'[b].st = IF b = a THEN st ELSE rows[b].st
    BY <1>1, <2>1 DEF TypeOK, RowRecords, MarkRow
  <2>3. QED
    BY <1>1, <2>1, <2>2 DEF LiveRows, RowStates
<1>2. CASE a \notin LiveRows
  BY <1>2 DEF MarkRow, LiveRows
<1>3. QED
  BY <1>1, <1>2

\* the live rows are a function of the rows
LEMMA SameRowsLive == rows' = rows => LiveRows' = LiveRows
  BY DEF LiveRows

\* writing a live row adds it to the live rows
LEMMA NewRowLive ==
  ASSUME TypeOK, NEW a \in AttIds, NEW r \in RowRecords,
         r.st \notin {"absent", "detached"}, rows' = [rows EXCEPT ![a] = r]
  PROVE  LiveRows' = LiveRows \cup {a}
  BY DEF TypeOK, LiveRows

\* every action keeps NoPhantomUse
LEMMA PhantomStep == TypeOK /\ NoPhantomUse /\ [Next]_vars => NoPhantomUse'
<1> SUFFICES ASSUME TypeOK, NoPhantomUse, [Next]_vars PROVE NoPhantomUse'
  OBVIOUS
<1> USE DEF NoPhantomUse
<1>1. ASSUME NEW i \in Instances, CheckAttach(i) PROVE NoPhantomUse'
  BY <1>1, SameRowsLive DEF CheckAttach, record
<1>2. ASSUME NEW i \in Instances, Reserve(i) PROVE NoPhantomUse'
  BY <1>2, SameRowsLive DEF Reserve
<1>3. ASSUME NEW i \in Instances, ReserveFails(i) PROVE NoPhantomUse'
  BY <1>3, SameRowsLive DEF ReserveFails, record
<1>4. ASSUME NEW i \in Instances, LoseAttachRequest(i) PROVE NoPhantomUse'
  BY <1>4, SameRowsLive DEF LoseAttachRequest, record
<1>5. ASSUME NEW i \in Instances, ReadVolume(i) PROVE NoPhantomUse'
  BY <1>5, SameRowsLive DEF ReadVolume, record
<1>6. ASSUME NEW i \in Instances, ReadFails(i) PROVE NoPhantomUse'
  BY <1>6, SameRowsLive DEF ReadFails, record
<1>7. ASSUME NEW i \in Instances, VirtAttach(i) PROVE NoPhantomUse'
  BY <1>7, SameRowsLive DEF VirtAttach, record
<1>8. ASSUME NEW i \in Instances, VirtAttachFails(i) PROVE NoPhantomUse'
  BY <1>8, SameRowsLive DEF VirtAttachFails, record
<1>9. ASSUME NEW i \in Instances, FailTerminate(i) PROVE NoPhantomUse'
  BY <1>9, SameRowsLive DEF FailTerminate, Terminate, UnreserveVolume,
       StatusByAttachment
<1>10. ASSUME NEW i \in Instances, SendAttach(i) PROVE NoPhantomUse'
  BY <1>10, SameRowsLive DEF SendAttach, SendCall, record
<1>11. ASSUME NEW i \in Instances, SkipAttach(i) PROVE NoPhantomUse'
  BY <1>11, SameRowsLive DEF SkipAttach, record
<1>12. ASSUME NEW i \in Instances, AttachReturns(i) PROVE NoPhantomUse'
  BY <1>12, SameRowsLive DEF AttachReturns, StopWaiting, record
<1>13. ASSUME NEW i \in Instances, AttachRaises(i) PROVE NoPhantomUse'
  BY <1>13, SameRowsLive DEF AttachRaises, StopWaiting, record
<1>14. ASSUME NEW i \in Instances, UndoUnplug(i) PROVE NoPhantomUse'
  BY <1>14, SameRowsLive DEF UndoUnplug, record
<1>15. ASSUME NEW i \in Instances, UndoTerminate(i) PROVE NoPhantomUse'
  BY <1>15, SameRowsLive DEF UndoTerminate, Terminate, UnreserveVolume,
       StatusByAttachment
<1>16. ASSUME NEW i \in Instances, UndoDetach(i) PROVE NoPhantomUse'
  BY <1>16, SameRowsLive DEF UndoDetach, SendCall, record
<1>17. ASSUME NEW i \in Instances, UndoDetachReturns(i) PROVE NoPhantomUse'
  BY <1>17, SameRowsLive DEF UndoDetachReturns, StopWaiting, record
<1>18. ASSUME NEW i \in Instances, UndoUnreserve(i) PROVE NoPhantomUse'
  BY <1>18, SameRowsLive DEF UndoUnreserve, UnreserveVolume, StatusByAttachment
<1>19. ASSUME NEW i \in Instances, DetachRead(i) PROVE NoPhantomUse'
  BY <1>19, SameRowsLive DEF DetachRead, record
<1>20. ASSUME NEW i \in Instances, BeginDetaching(i) PROVE NoPhantomUse'
  BY <1>20, SameRowsLive DEF BeginDetaching
<1>21. ASSUME NEW i \in Instances, BeginDetachingFails(i) PROVE NoPhantomUse'
  BY <1>21, SameRowsLive DEF BeginDetachingFails, record
<1>22. ASSUME NEW i \in Instances, VirtDetach(i) PROVE NoPhantomUse'
  BY <1>22, SameRowsLive DEF VirtDetach, record
<1>23. ASSUME NEW i \in Instances, VirtDetachFails(i) PROVE NoPhantomUse'
  BY <1>23, SameRowsLive DEF VirtDetachFails, RollDetaching
<1>24. ASSUME NEW i \in Instances, DetachTerminate(i) PROVE NoPhantomUse'
  BY <1>24, SameRowsLive DEF DetachTerminate, Terminate, UnreserveVolume,
       StatusByAttachment
<1>25. ASSUME NEW i \in Instances, SendDetach(i) PROVE NoPhantomUse'
  BY <1>25, SameRowsLive DEF SendDetach, SendCall, record
<1>26. ASSUME NEW i \in Instances, DetachReturns(i) PROVE NoPhantomUse'
  BY <1>26, SameRowsLive DEF DetachReturns, StopWaiting, record
<1>27. ASSUME NEW c \in CallIds, AttachRefused(c) PROVE NoPhantomUse'
  BY <1>27, SameRowsLive DEF AttachRefused, CallStart, record
<1>28. ASSUME NEW c \in CallIds, AttachAgain(c) PROVE NoPhantomUse'
  BY <1>28, SameRowsLive DEF AttachAgain, CallStart, RowsOf
<1>29. ASSUME NEW c \in CallIds, AttachStart(c) PROVE NoPhantomUse'
  <2>1. PICK a \in AttIds : rows' = [rows EXCEPT ![a] = [@ EXCEPT !.st = "attaching"]]
    BY <1>29 DEF AttachStart
  <2>2. LiveRows' = LiveRows \cup {a}
    <3>1. [rows[a] EXCEPT !.st = "attaching"] \in RowRecords
      BY DEF TypeOK, RowRecords, RowStates
    <3>2. QED
      BY <2>1, <3>1, NewRowLive DEF TypeOK, RowRecords
  <2>3. QED
    BY <1>29, <2>2 DEF AttachStart
<1>30. ASSUME NEW c \in CallIds, AttachBadMode(c) PROVE NoPhantomUse'
  BY <1>30, SameRowsLive DEF AttachBadMode
<1>31. ASSUME NEW c \in CallIds, AttachDriver(c) PROVE NoPhantomUse'
  BY <1>31, SameRowsLive DEF AttachDriver, record
<1>32. ASSUME NEW c \in CallIds, AttachDriverFails(c) PROVE NoPhantomUse'
  BY <1>32, MarkRowLive DEF AttachDriverFails, RowStates
<1>33. ASSUME NEW c \in CallIds, AttachSave(c) PROVE NoPhantomUse'
  <2>1. calls[c].att \in AttIds /\ calls[c].inst \in Instances
    BY <1>33, CallFields DEF AttachSave, CallStep, LiveRows
  <2>2. [st |-> "attached", inst |-> calls[c].inst] \in RowRecords
    BY <2>1 DEF RowRecords, RowStates
  <2>3. LiveRows' = LiveRows \cup {calls[c].att}
    BY <1>33, <2>1, <2>2, NewRowLive DEF AttachSave
  <2>4. QED
    BY <2>3
<1>34. ASSUME NEW c \in CallIds, AttachSaveFails(c) PROVE NoPhantomUse'
  BY <1>34, SameRowsLive DEF AttachSaveFails, record
<1>35. ASSUME NEW c \in CallIds, DetachRefused(c) PROVE NoPhantomUse'
  BY <1>35, SameRowsLive DEF DetachRefused, CallStart, record
<1>36. ASSUME NEW c \in CallIds, DetachUnknown(c) PROVE NoPhantomUse'
  BY <1>36, MarkRowLive DEF DetachUnknown, CallStart, VolumeDetached, RowStates
<1>37. ASSUME NEW c \in CallIds, DetachStart(c) PROVE NoPhantomUse'
  BY <1>37, SameRowsLive DEF DetachStart, CallStart, record
<1>38. ASSUME NEW c \in CallIds, DetachNothing(c) PROVE NoPhantomUse'
  BY <1>38, SameRowsLive DEF DetachNothing, CallStart, record
<1>39. ASSUME NEW c \in CallIds, DetachClear(c) PROVE NoPhantomUse'
  BY <1>39, SameRowsLive DEF DetachClear
<1>40. ASSUME NEW c \in CallIds, DetachDriver(c) PROVE NoPhantomUse'
  BY <1>40, SameRowsLive DEF DetachDriver, record
<1>41. ASSUME NEW c \in CallIds, DetachDriverFails(c) PROVE NoPhantomUse'
  BY <1>41, MarkRowLive DEF DetachDriverFails, RowStates
<1>42. ASSUME NEW c \in CallIds, DetachSave(c) PROVE NoPhantomUse'
  BY <1>42, MarkRowLive DEF DetachSave, VolumeDetached, RowStates
<1>43. ASSUME NEW c \in CallIds, DetachVolumeGone(c) PROVE NoPhantomUse'
  BY <1>43, SameRowsLive DEF DetachVolumeGone, record
<1>44. ASSUME NEW c \in CallIds, DropReply(c) PROVE NoPhantomUse'
  BY <1>44, SameRowsLive DEF DropReply, record
<1>45. ASSUME NEW d \in Deleters, DeleteStart(d) PROVE NoPhantomUse'
  BY <1>45, SameRowsLive DEF DeleteStart, AfterDelete, DelStep
<1>46. ASSUME NEW d \in Deleters, DeleteDriver(d) PROVE NoPhantomUse'
  BY <1>46, SameRowsLive DEF DeleteDriver, DelStep
<1>47. ASSUME NEW d \in Deleters, DeleteDriverFails(d) PROVE NoPhantomUse'
  BY <1>47, SameRowsLive DEF DeleteDriverFails, AfterDelete, DelStep
<1>48. ASSUME NEW d \in Deleters, DeleteDestroy(d) PROVE NoPhantomUse'
  BY <1>48, SameRowsLive DEF DeleteDestroy, AfterDelete, DelStep
<1>49. ASSUME DeleteRequest PROVE NoPhantomUse'
  BY <1>49, SameRowsLive DEF DeleteRequest, DelStep
<1>50. ASSUME ExtendCheck PROVE NoPhantomUse'
  BY <1>50, SameRowsLive DEF ExtendCheck, JobFrame
<1>51. ASSUME ExtendWrite PROVE NoPhantomUse'
  BY <1>51, SameRowsLive DEF ExtendWrite, JobFrame
<1>52. ASSUME ExtendVolume PROVE NoPhantomUse'
  BY <1>52, SameRowsLive DEF ExtendVolume, JobFrame
<1>53. ASSUME UploadCheck PROVE NoPhantomUse'
  BY <1>53, SameRowsLive DEF UploadCheck, JobFrame
<1>54. ASSUME UploadWrite PROVE NoPhantomUse'
  BY <1>54, SameRowsLive DEF UploadWrite, JobFrame
<1>55. ASSUME CopyVolumeToImage PROVE NoPhantomUse'
  BY <1>55, SameRowsLive DEF CopyVolumeToImage, StatusByAttachment, JobFrame
<1>56. ASSUME Crash PROVE NoPhantomUse'
  BY <1>56, SameRowsLive DEF Crash, record
<1>57. ASSUME InitHostRead PROVE NoPhantomUse'
  BY <1>57, SameRowsLive DEF InitHostRead, record
<1>58. ASSUME InitHost PROVE NoPhantomUse'
  BY <1>58, SameRowsLive DEF InitHost, StatusByAttachment
<1>59. CASE UNCHANGED vars
  BY <1>59, SameRowsLive DEF vars, record
<1>60. QED
  BY <1>1, <1>2, <1>3, <1>4, <1>5, <1>6, <1>7, <1>8, <1>9, <1>10, <1>11, <1>12,
       <1>13, <1>14, <1>15, <1>16, <1>17, <1>18, <1>19, <1>20, <1>21, <1>22,
       <1>23, <1>24, <1>25, <1>26, <1>27, <1>28, <1>29, <1>30, <1>31, <1>32,
       <1>33, <1>34, <1>35, <1>36, <1>37, <1>38, <1>39, <1>40, <1>41, <1>42,
       <1>43, <1>44, <1>45, <1>46, <1>47, <1>48, <1>49, <1>50, <1>51, <1>52,
       <1>53, <1>54, <1>55, <1>56, <1>57, <1>58, <1>59
  DEF Next, ClientStep, AttachHandler, DetachHandler, DeleteHandler, JobStep

\* a step that starts no attach handler, and a step that writes no instance
NoNewAttach ==
  \A c \in CallIds :
    calls'[c].op = "attach" /\ calls'[c].pc \in {"clear", "driver", "save"} =>
      /\ c \in Running("attach") /\ calls'[c].inst = calls[c].inst
      /\ calls'[c].pc # "clear"

NoNewOwner ==
  /\ LiveRows' \subseteq LiveRows
  /\ \A a \in AttIds : /\ rows'[a].inst = rows[a].inst
                       /\ rows'[a].st = "absent" => rows[a].st = "absent"

\* such steps keep the invariant behind RowsUnique
LEMMA RowsFrame ==
  ASSUME RowsInv, NoNewAttach, NoNewOwner
  PROVE  RowsInv'
<1> USE DEF RowsInv, NoNewOwner
<1>1. LiveRows' \subseteq AttIds /\ LiveRows \subseteq AttIds
  BY DEF LiveRows
<1>2. RowsUnique'
  BY <1>1 DEF RowsUnique
<1>3. \A c \in Running("attach")' : c \in Running("attach") /\ calls'[c].inst = calls[c].inst
                                    /\ calls'[c].pc # "clear"
  BY DEF NoNewAttach, Running
<1>4. AttachLocked'
  BY <1>3 DEF AttachLocked
<1>5. \A i : RowsOf(i)' \subseteq RowsOf(i)
  BY <1>1 DEF RowsOf
<1>6. FreshAttach'
  BY <1>3, <1>5 DEF FreshAttach
<1>7. BlankRows'
  BY DEF BlankRows
<1>8. QED
  BY <1>2, <1>4, <1>6, <1>7

\* a step that leaves the rows alone writes no owner
LEMMA SameRows == rows' = rows => NoNewOwner
  BY DEF NoNewOwner, LiveRows

\* a step that leaves the calls alone starts no handler
LEMMA SameCalls ==
  ASSUME RowsInv, calls' = calls
  PROVE  NoNewAttach
  BY DEF RowsInv, FreshAttach, NoNewAttach, Running

\* updating the state of a row writes no owner
LEMMA MarkedRows ==
  ASSUME TypeOK, NEW a, NEW st \in RowStates \ {"absent"}, MarkRow(a, st)
  PROVE  NoNewOwner
<1>1. \A b \in AttIds : rows'[b].inst = rows[b].inst /\ (rows'[b].st = "absent" => rows[b].st = "absent")
  BY DEF TypeOK, RowRecords, MarkRow
<1>2. LiveRows' \subseteq LiveRows
  BY MarkRowLive
<1>3. QED
  BY <1>1, <1>2 DEF NoNewOwner

\* a call that is sent, answered or dropped does not run
LEMMA PutCall ==
  ASSUME TypeOK, RowsInv, NEW c, NEW r, r.op # "attach" \/ r.pc = "queued",
         calls' = [calls EXCEPT ![c] = r]
  PROVE  NoNewAttach
  BY DEF TypeOK, RowsInv, FreshAttach, NoNewAttach, Running

\* a call that is sent does not run yet
LEMMA SendNoNew ==
  ASSUME TypeOK, RowsInv, NEW i \in Instances, NEW o, NEW a, NEW from, NEW to,
         SendCall(i, from, to, Request(o, i, a))
  PROVE  NoNewAttach
  BY PutCall DEF SendCall, Request

\* the step of a detach handler, or of an attach handler that goes on or ends
LEMMA StepNoNew ==
  ASSUME TypeOK, RowsInv, NEW c \in CallIds, NEW op \in {"attach", "detach"},
         NEW from, NEW to, NEW a, CallStep(c, op, from, to, a),
         op = "detach" \/ to \in {"ok", "err"} \/ from \in {"driver", "save"},
         to # "clear" \/ op = "detach"
  PROVE  NoNewAttach
<1>1. /\ calls'[c].op = op /\ calls'[c].pc = to /\ calls'[c].inst = calls[c].inst
      /\ \A d \in CallIds \ {c} : calls'[d] = calls[d]
  BY DEF TypeOK, CallRecords, CallStep, Idle
<1>2. QED
  BY <1>1 DEF RowsInv, FreshAttach, NoNewAttach, Running, CallStep

\* every action keeps the invariant behind RowsUnique
LEMMA RowsStep == TypeOK /\ RowsInv /\ [Next]_vars => RowsInv'
<1> SUFFICES ASSUME TypeOK, RowsInv, [Next]_vars PROVE RowsInv'
  OBVIOUS
<1>1. ASSUME NEW i \in Instances, CheckAttach(i) PROVE RowsInv'
  BY <1>1, SameCalls, SameRows, RowsFrame DEF CheckAttach, Elsewhere, record
<1>2. ASSUME NEW i \in Instances, Reserve(i) PROVE RowsInv'
  BY <1>2, SameCalls, SameRows, RowsFrame DEF Reserve, Elsewhere
<1>3. ASSUME NEW i \in Instances, ReserveFails(i) PROVE RowsInv'
  BY <1>3, SameCalls, SameRows, RowsFrame DEF ReserveFails, Elsewhere, record
<1>4. ASSUME NEW i \in Instances, LoseAttachRequest(i) PROVE RowsInv'
  BY <1>4, SameCalls, SameRows, RowsFrame DEF LoseAttachRequest, Elsewhere,
       record
<1>5. ASSUME NEW i \in Instances, ReadVolume(i) PROVE RowsInv'
  BY <1>5, SameCalls, SameRows, RowsFrame DEF ReadVolume, record
<1>6. ASSUME NEW i \in Instances, ReadFails(i) PROVE RowsInv'
  BY <1>6, SameCalls, SameRows, RowsFrame DEF ReadFails, Elsewhere, record
<1>7. ASSUME NEW i \in Instances, VirtAttach(i) PROVE RowsInv'
  BY <1>7, SameCalls, SameRows, RowsFrame DEF VirtAttach, Elsewhere, record
<1>8. ASSUME NEW i \in Instances, VirtAttachFails(i) PROVE RowsInv'
  BY <1>8, SameCalls, SameRows, RowsFrame DEF VirtAttachFails, record
<1>9. ASSUME NEW i \in Instances, FailTerminate(i) PROVE RowsInv'
  BY <1>9, SameCalls, SameRows, RowsFrame DEF FailTerminate, Elsewhere,
       Terminate
<1>10. ASSUME NEW i \in Instances, SendAttach(i) PROVE RowsInv'
  <2>1. NoNewAttach
    BY <1>10, SendNoNew DEF SendAttach
  <2>2. QED
    BY <1>10, <2>1, SameRows, RowsFrame DEF SendAttach, SendCall, record
<1>11. ASSUME NEW i \in Instances, SkipAttach(i) PROVE RowsInv'
  BY <1>11, SameCalls, SameRows, RowsFrame DEF SkipAttach, record
<1>12. ASSUME NEW i \in Instances, AttachReturns(i) PROVE RowsInv'
  <2>1. NoNewAttach
    BY <1>12, PutCall, SameCalls DEF AttachReturns, Answered, Idle
  <2>2. QED
    BY <1>12, <2>1, SameRows, RowsFrame DEF AttachReturns, StopWaiting, record
<1>13. ASSUME NEW i \in Instances, AttachRaises(i) PROVE RowsInv'
  <2>1. NoNewAttach
    BY <1>13, PutCall, SameCalls DEF AttachRaises, Answered, NoAnswer, Idle
  <2>2. QED
    BY <1>13, <2>1, SameRows, RowsFrame DEF AttachRaises, StopWaiting, record
<1>14. ASSUME NEW i \in Instances, UndoUnplug(i) PROVE RowsInv'
  BY <1>14, SameCalls, SameRows, RowsFrame DEF UndoUnplug, Elsewhere, record
<1>15. ASSUME NEW i \in Instances, UndoTerminate(i) PROVE RowsInv'
  BY <1>15, SameCalls, SameRows, RowsFrame DEF UndoTerminate, Elsewhere,
       Terminate
<1>16. ASSUME NEW i \in Instances, UndoDetach(i) PROVE RowsInv'
  <2>1. NoNewAttach
    BY <1>16, SendNoNew DEF UndoDetach
  <2>2. QED
    BY <1>16, <2>1, SameRows, RowsFrame DEF UndoDetach, SendCall, record
<1>17. ASSUME NEW i \in Instances, UndoDetachReturns(i) PROVE RowsInv'
  <2>1. NoNewAttach
    BY <1>17, PutCall, SameCalls DEF UndoDetachReturns, Answered, NoAnswer, Idle
  <2>2. QED
    BY <1>17, <2>1, SameRows, RowsFrame DEF UndoDetachReturns, StopWaiting,
       record
<1>18. ASSUME NEW i \in Instances, UndoUnreserve(i) PROVE RowsInv'
  BY <1>18, SameCalls, SameRows, RowsFrame DEF UndoUnreserve, Elsewhere
<1>19. ASSUME NEW i \in Instances, DetachRead(i) PROVE RowsInv'
  BY <1>19, SameCalls, SameRows, RowsFrame DEF DetachRead, record
<1>20. ASSUME NEW i \in Instances, BeginDetaching(i) PROVE RowsInv'
  BY <1>20, SameCalls, SameRows, RowsFrame DEF BeginDetaching, Elsewhere
<1>21. ASSUME NEW i \in Instances, BeginDetachingFails(i) PROVE RowsInv'
  BY <1>21, SameCalls, SameRows, RowsFrame DEF BeginDetachingFails, record
<1>22. ASSUME NEW i \in Instances, VirtDetach(i) PROVE RowsInv'
  BY <1>22, SameCalls, SameRows, RowsFrame DEF VirtDetach, Elsewhere, record
<1>23. ASSUME NEW i \in Instances, VirtDetachFails(i) PROVE RowsInv'
  BY <1>23, SameCalls, SameRows, RowsFrame DEF VirtDetachFails
<1>24. ASSUME NEW i \in Instances, DetachTerminate(i) PROVE RowsInv'
  BY <1>24, SameCalls, SameRows, RowsFrame DEF DetachTerminate, Elsewhere,
       Terminate
<1>25. ASSUME NEW i \in Instances, SendDetach(i) PROVE RowsInv'
  <2>1. NoNewAttach
    BY <1>25, SendNoNew DEF SendDetach
  <2>2. QED
    BY <1>25, <2>1, SameRows, RowsFrame DEF SendDetach, SendCall, record
<1>26. ASSUME NEW i \in Instances, DetachReturns(i) PROVE RowsInv'
  <2>1. NoNewAttach
    BY <1>26, PutCall, SameCalls DEF DetachReturns, Answered, NoAnswer, Idle
  <2>2. QED
    BY <1>26, <2>1, SameRows, RowsFrame DEF DetachReturns, StopWaiting, record
<1>27. ASSUME NEW c \in CallIds, AttachRefused(c) PROVE RowsInv'
  BY <1>27, StepNoNew, SameRows, RowsFrame DEF AttachRefused, CallStart, record
<1>28. ASSUME NEW c \in CallIds, AttachAgain(c) PROVE RowsInv'
  BY <1>28, StepNoNew, SameRows, RowsFrame DEF AttachAgain, CallStart
<1>29. ASSUME NEW c \in CallIds, AttachStart(c) PROVE RowsInv'
  <2>1. PICK a \in AttIds : /\ CallStart(c, "attach", "driver", a)
                            /\ RowsOf(calls[c].inst) = {} /\ rows[a].st = "absent"
                            /\ rows' = [rows EXCEPT ![a] = [@ EXCEPT !.st = "attaching"]]
    BY <1>29 DEF AttachStart
  <2>2. Running("attach")' \subseteq {c} /\ calls'[c].inst = calls[c].inst
        /\ calls'[c].pc = "driver" /\ calls[c].inst \in Instances
    BY <2>1, CallFields DEF CallStart, CallStep, Running, TypeOK, CallRecords,
       Idle
  <2>3. rows[a].inst = NoInst
    BY <2>1 DEF RowsInv, BlankRows
  <2>4. \A b \in AttIds : rows'[b].inst = rows[b].inst /\ (b # a => rows'[b] = rows[b])
                          /\ rows'[a].st = "attaching"
    BY <2>1 DEF TypeOK, RowRecords
  <2>5. RowsUnique'
    BY <2>3, <2>4 DEF RowsInv, RowsUnique, LiveRows
  <2>6. RowsOf(calls[c].inst)' = {}
    BY <2>1, <2>2, <2>3, <2>4, ConstantsAssumption DEF RowsOf, LiveRows
  <2>7. AttachLocked' /\ FreshAttach'
    BY <2>2, <2>6 DEF AttachLocked, FreshAttach, RowsOf
  <2>8. BlankRows'
    BY <2>3, <2>4 DEF RowsInv, BlankRows
  <2>9. QED
    BY <2>5, <2>7, <2>8 DEF RowsInv
<1>30. ASSUME NEW c \in CallIds, AttachBadMode(c) PROVE RowsInv'
  BY <1>30, StepNoNew, SameRows, RowsFrame DEF AttachBadMode
<1>31. ASSUME NEW c \in CallIds, AttachDriver(c) PROVE RowsInv'
  BY <1>31, StepNoNew, SameRows, RowsFrame DEF AttachDriver, record
<1>32. ASSUME NEW c \in CallIds, AttachDriverFails(c) PROVE RowsInv'
  BY <1>32, StepNoNew, MarkedRows, RowsFrame DEF AttachDriverFails, RowStates
<1>33. ASSUME NEW c \in CallIds, AttachSave(c) PROVE RowsInv'
  <2> DEFINE a == calls[c].att
             i == calls[c].inst
  <2>1. a \in LiveRows /\ a \in AttIds /\ i \in Instances
    BY <1>33, CallFields DEF AttachSave, CallStep, LiveRows
  <2>2. RowsOf(i) = {} /\ \A d \in Running("attach") : d = c
    BY <1>33 DEF RowsInv, AttachLocked, FreshAttach, AttachSave, CallStep,
       Running
  <2>3. \A b \in AttIds : rows'[b] = IF b = a THEN [st |-> "attached", inst |-> i] ELSE rows[b]
    BY <1>33, <2>1 DEF AttachSave, TypeOK
  <2>4. Running("attach")' = {}
    BY <1>33, <2>2 DEF AttachSave, CallStep, Running, TypeOK
  <2>5. RowsUnique'
    BY <2>1, <2>2, <2>3 DEF RowsInv, RowsUnique, RowsOf, LiveRows
  <2>6. BlankRows'
    BY <2>1, <2>3 DEF RowsInv, BlankRows
  <2>7. QED
    BY <2>4, <2>5, <2>6 DEF RowsInv, AttachLocked, FreshAttach
<1>34. ASSUME NEW c \in CallIds, AttachSaveFails(c) PROVE RowsInv'
  BY <1>34, StepNoNew, SameRows, RowsFrame DEF AttachSaveFails, record
<1>35. ASSUME NEW c \in CallIds, DetachRefused(c) PROVE RowsInv'
  BY <1>35, StepNoNew, SameRows, RowsFrame DEF DetachRefused, CallStart, record
<1>36. ASSUME NEW c \in CallIds, DetachUnknown(c) PROVE RowsInv'
  BY <1>36, StepNoNew, MarkedRows, RowsFrame DEF DetachUnknown, CallStart,
       VolumeDetached, RowStates
<1>37. ASSUME NEW c \in CallIds, DetachStart(c) PROVE RowsInv'
  BY <1>37, StepNoNew, SameRows, RowsFrame DEF DetachStart, CallStart, record
<1>38. ASSUME NEW c \in CallIds, DetachNothing(c) PROVE RowsInv'
  BY <1>38, StepNoNew, SameRows, RowsFrame DEF DetachNothing, CallStart, record
<1>39. ASSUME NEW c \in CallIds, DetachClear(c) PROVE RowsInv'
  BY <1>39, StepNoNew, SameRows, RowsFrame DEF DetachClear
<1>40. ASSUME NEW c \in CallIds, DetachDriver(c) PROVE RowsInv'
  BY <1>40, StepNoNew, SameRows, RowsFrame DEF DetachDriver, record
<1>41. ASSUME NEW c \in CallIds, DetachDriverFails(c) PROVE RowsInv'
  BY <1>41, StepNoNew, MarkedRows, RowsFrame DEF DetachDriverFails, RowStates
<1>42. ASSUME NEW c \in CallIds, DetachSave(c) PROVE RowsInv'
  BY <1>42, StepNoNew, MarkedRows, RowsFrame DEF DetachSave, VolumeDetached,
       RowStates
<1>43. ASSUME NEW c \in CallIds, DetachVolumeGone(c) PROVE RowsInv'
  BY <1>43, StepNoNew, SameRows, RowsFrame DEF DetachVolumeGone, record
<1>44. ASSUME NEW c \in CallIds, DropReply(c) PROVE RowsInv'
  <2>1. NoNewAttach
    BY <1>44, PutCall, SameCalls DEF DropReply, Idle
  <2>2. QED
    BY <1>44, <2>1, SameRows, RowsFrame DEF DropReply, record
<1>45. ASSUME NEW d \in Deleters, DeleteStart(d) PROVE RowsInv'
  BY <1>45, SameCalls, SameRows, RowsFrame DEF DeleteStart, AfterDelete, DelStep
<1>46. ASSUME NEW d \in Deleters, DeleteDriver(d) PROVE RowsInv'
  BY <1>46, SameCalls, SameRows, RowsFrame DEF DeleteDriver, DelStep
<1>47. ASSUME NEW d \in Deleters, DeleteDriverFails(d) PROVE RowsInv'
  BY <1>47, SameCalls, SameRows, RowsFrame DEF DeleteDriverFails, AfterDelete, DelStep
<1>48. ASSUME NEW d \in Deleters, DeleteDestroy(d) PROVE RowsInv'
  BY <1>48, SameCalls, SameRows, RowsFrame DEF DeleteDestroy, AfterDelete, DelStep
<1>49. ASSUME DeleteRequest PROVE RowsInv'
  BY <1>49, SameCalls, SameRows, RowsFrame DEF DeleteRequest, DelStep
<1>50. ASSUME ExtendCheck PROVE RowsInv'
  BY <1>50, SameCalls, SameRows, RowsFrame DEF ExtendCheck, JobFrame
<1>51. ASSUME ExtendWrite PROVE RowsInv'
  BY <1>51, SameCalls, SameRows, RowsFrame DEF ExtendWrite, JobFrame
<1>52. ASSUME ExtendVolume PROVE RowsInv'
  BY <1>52, SameCalls, SameRows, RowsFrame DEF ExtendVolume, JobFrame
<1>53. ASSUME UploadCheck PROVE RowsInv'
  BY <1>53, SameCalls, SameRows, RowsFrame DEF UploadCheck, JobFrame
<1>54. ASSUME UploadWrite PROVE RowsInv'
  BY <1>54, SameCalls, SameRows, RowsFrame DEF UploadWrite, JobFrame
<1>55. ASSUME CopyVolumeToImage PROVE RowsInv'
  BY <1>55, SameCalls, SameRows, RowsFrame DEF CopyVolumeToImage, JobFrame
<1>56. ASSUME Crash PROVE RowsInv'
  <2>1. NoNewAttach
    BY <1>56 DEF Crash, NoNewAttach, Running, Idle, RowsInv, FreshAttach
  <2>2. QED
    BY <1>56, <2>1, SameRows, RowsFrame DEF Crash, record
<1>57. ASSUME InitHostRead PROVE RowsInv'
  BY <1>57, SameCalls, SameRows, RowsFrame DEF InitHostRead, record
<1>58. ASSUME InitHost PROVE RowsInv'
  BY <1>58, SameCalls, SameRows, RowsFrame DEF InitHost
<1>59. CASE UNCHANGED vars
  BY <1>59, SameCalls, SameRows, RowsFrame DEF vars, record
<1>60. QED
  BY <1>1, <1>2, <1>3, <1>4, <1>5, <1>6, <1>7, <1>8, <1>9, <1>10, <1>11, <1>12,
       <1>13, <1>14, <1>15, <1>16, <1>17, <1>18, <1>19, <1>20, <1>21, <1>22,
       <1>23, <1>24, <1>25, <1>26, <1>27, <1>28, <1>29, <1>30, <1>31, <1>32,
       <1>33, <1>34, <1>35, <1>36, <1>37, <1>38, <1>39, <1>40, <1>41, <1>42,
       <1>43, <1>44, <1>45, <1>46, <1>47, <1>48, <1>49, <1>50, <1>51, <1>52,
       <1>53, <1>54, <1>55, <1>56, <1>57, <1>58, <1>59
  DEF Next, ClientStep, AttachHandler, DetachHandler, DeleteHandler, JobStep

\* the empty attachment table satisfies it
LEMMA RowsInit == Init => RowsInv
  BY DEF Init, RowsInv, RowsUnique, LiveRows, AttachLocked, FreshAttach,
       BlankRows,
         Running, Idle

\* a new volume is not in use
LEMMA PhantomInit == Init => NoPhantomUse
  BY DEF Init, NoPhantomUse

\* Every variable of the protocol stays in its type, whatever instances, faults
\* and restarts there are.
THEOREM TypeCorrect == Spec => []TypeOK
<1>1. Init => TypeOK
  BY TypeInit
<1>2. TypeOK /\ [Next]_vars => TypeOK'
  BY TypeStep
<1>3. QED
  BY <1>1, <1>2, PTL DEF Spec

\* A volume that is in use, detaching or attached always has a live attachment
\* row: the status is written together with the rows, or after a test of them.
THEOREM PhantomFree == Spec => []NoPhantomUse
<1>1. Init => NoPhantomUse
  BY PhantomInit
<1>2. TypeOK /\ NoPhantomUse /\ [Next]_vars => NoPhantomUse'
  BY PhantomStep
<1>3. QED
  BY <1>1, <1>2, TypeCorrect, PTL DEF Spec

\* An instance never has two live attachments to the volume, however its calls
\* are repeated after a timeout: attach_volume looks the instance up and saves
\* its row under one lock.
THEOREM OneRowPerInstance == Spec => []RowsUnique
<1>1. Init => RowsInv
  BY RowsInit
<1>2. TypeOK /\ RowsInv /\ [Next]_vars => RowsInv'
  BY RowsStep
<1>3. RowsInv => RowsUnique
  BY DEF RowsInv
<1>4. QED
  BY <1>1, <1>2, <1>3, TypeCorrect, PTL DEF Spec
=============================================================================
