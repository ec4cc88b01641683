---------------------- MODULE QuotaReservation_proofs ----------------------
(* Proofs about QuotaReservation for every set of objects and resources,    *)
(* every limit, and every mixture of requests, failures and deaths.         *)
EXTENDS QuotaReservation, FiniteSetTheorems, TLAPS

\* every set of objects is finite
LEMMA ObjsFinite ==
  ASSUME NEW S \in SUBSET Objs
  PROVE  IsFiniteSet(S) /\ Cardinality(S) \in Nat
  BY ConstantsAssumption, FS_Subset, FS_CardinalityType

\* what the sync functions count is a number
LEMMA ActualType == ASSUME NEW r \in Resources PROVE Actual(r) \in Nat
  BY ObjsFinite DEF Actual, Takers

\* refreshing the usages of an object's resources keeps them typed
LEMMA RefreshType ==
  ASSUME TypeOK, NEW o \in Objs, RefreshUsages(o)
  PROVE  /\ inUse' \in [Resources -> Int]
         /\ countdown' \in [Resources -> 0..UntilRefresh]
<1>1. \A r \in Resources : Refreshed(r) \in Int
  BY ActualType DEF TypeOK, Refreshed
<1>2. UntilRefresh \in Nat
  BY ConstantsAssumption DEF TypeOK, UntilRefresh
<1>3. \A r \in Resources : CountsDown(r) => countdown[r] - 1 \in 0..UntilRefresh
  BY <1>2 DEF TypeOK, CountsDown
<1>4. QED
  BY <1>1, <1>2, <1>3 DEF TypeOK, RefreshUsages

\* so do the ages of the rows that are written
LEMMA TouchType ==
  ASSUME TypeOK, NEW R, Touch(R)
  PROVE  age' \in [Resources -> 0..MaxClock]
  BY ConstantsAssumption DEF TypeOK, Touch

\* committing keeps the tables typed
LEMMA CommitType ==
  ASSUME TypeOK, NEW o \in Objs, NEW k \in Kinds, Commit(o, k)
  PROVE  /\ inUse' \in [Resources -> Int] /\ reserved' \in [Resources -> Int]
         /\ countdown' \in [Resources -> 0..UntilRefresh]
         /\ age' \in [Resources -> 0..MaxClock]
         /\ resv' \subseteq Objs \X Kinds
<1>1. CASE <<o, k>> \in resv
  <2>1. age' \in [Resources -> 0..MaxClock]
    BY <1>1, TouchType DEF Commit
  <2>2. QED
    BY <1>1, <2>1 DEF TypeOK, Commit, Release
<1>2. CASE <<o, k>> \notin resv
  BY <1>2 DEF TypeOK, Commit, usage
<1>3. QED
  BY <1>1, <1>2

\* so does dropping a reservation
LEMMA DropType ==
  ASSUME TypeOK, NEW o \in Objs, NEW k \in Kinds, Drop(o, k)
  PROVE  /\ inUse' \in [Resources -> Int] /\ reserved' \in [Resources -> Int]
         /\ countdown' \in [Resources -> 0..UntilRefresh]
         /\ age' \in [Resources -> 0..MaxClock]
         /\ resv' \subseteq Objs \X Kinds
<1>1. CASE <<o, k>> \in resv
  <2>1. age' \in [Resources -> 0..MaxClock]
    BY <1>1, TouchType DEF Drop, TypeOK
  <2>2. QED
    BY <1>1, <2>1 DEF TypeOK, Drop, Release
<1>2. CASE <<o, k>> \notin resv
  BY <1>2 DEF TypeOK, Drop, usage
<1>3. QED
  BY <1>1, <1>2

\* every action keeps everything typed
LEMMA TypeStep == TypeOK /\ [Next]_vars => TypeOK'
<1> SUFFICES ASSUME TypeOK, [Next]_vars PROVE TypeOK'
  OBVIOUS
<1> USE DEF Kinds, Pcs, UntilRefresh, MaxMishaps
<1>0. setting' = setting
  BY DEF Next, vars
<1>1. ASSUME NEW o \in Objs, CreateReserve(o) PROVE TypeOK'
  <2>1. RefreshUsages(o) /\ Touch(Of[o])
    BY <1>0, <1>1 DEF CreateReserve, ReservePositive
  <2>2. QED
    BY <1>0, <1>1, <2>1, RefreshType, TouchType
       DEF TypeOK, CreateReserve, ReservePositive, Goto, Move
<1>2. ASSUME NEW o \in Objs, CreateRefused(o) PROVE TypeOK'
  <2>1. RefreshUsages(o) /\ Touch(Written(o))
    BY <1>0, <1>2 DEF CreateRefused, ReserveRefused
  <2>2. QED
    BY <1>0, <1>2, <2>1, RefreshType, TouchType
       DEF TypeOK, CreateRefused, ReserveRefused
<1>3. ASSUME NEW o \in Objs, CreateEntry(o) \/ CreateEntryFails(o) \/ Cast(o)
                             \/ CastFails(o) \/ DestroyRow(o) PROVE TypeOK'
  BY <1>0, <1>3 DEF TypeOK, CreateEntry, CreateEntryFails, Cast, CastFails, DestroyRow,
              Goto, Move, usage
<1>4. ASSUME NEW o \in Objs, RollbackCreate(o) PROVE TypeOK'
  BY <1>0, <1>4, DropType DEF TypeOK, RollbackCreate, Goto, Move
<1>5. ASSUME NEW o \in Objs, CommitCreate(o) \/ UndoCommit(o) \/ CommitDelete(o)
      PROVE TypeOK'
  BY <1>0, <1>5, CommitType DEF TypeOK, CommitCreate, UndoCommit, CommitDelete, Goto, Move
<1>6. ASSUME NEW o \in Objs, RollbackCreateFails(o) \/ CommitCreateFails(o) \/ UndoFails(o)
                             \/ DeleteReserveFails(o) \/ CommitDeleteFails(o) PROVE TypeOK'
  BY <1>0, <1>6, ConstantsAssumption
     DEF TypeOK, RollbackCreateFails, CommitCreateFails, UndoFails,
         DeleteReserveFails, CommitDeleteFails, Mishap, Move, usage
<1>7. ASSUME NEW o \in Objs, UndoReserve(o) \/ DeleteReserve(o) PROVE TypeOK'
  <2>1. RefreshUsages(o) /\ Touch(Written(o))
    BY <1>0, <1>7 DEF UndoReserve, DeleteReserve, ReserveNegative
  <2>2. QED
    BY <1>0, <1>7, <2>1, RefreshType, TouchType
       DEF TypeOK, UndoReserve, DeleteReserve, ReserveNegative, Goto, Move
<1>8. ASSUME NEW o \in Objs, Die(o) PROVE TypeOK'
  <2>1. pc[o] \in Pcs \ {"none", "live"}
    BY <1>0, <1>8 DEF Die, TypeOK
  <2>2. Abandoned(pc[o]) \in Pcs
    BY <2>1 DEF Abandoned
  <2>3. QED
    BY <1>0, <1>8, <2>2, ConstantsAssumption DEF TypeOK, Die, Mishap, usage
<1>9. CASE Tick
  BY <1>0, <1>9, ConstantsAssumption DEF TypeOK, Tick
<1>10. CASE UNCHANGED vars
  BY <1>0, <1>10 DEF TypeOK, vars, usage
<1>11. QED
  BY <1>1, <1>2, <1>3, <1>4, <1>5, <1>6, <1>7, <1>8, <1>9, <1>10
     DEF Next, Step, CreateStep, DeleteStep

\* the initial state is typed
LEMMA TypeInit == Init => TypeOK
  BY ConstantsAssumption DEF Init, TypeOK, Pcs, UntilRefresh, MaxMishaps

\* TypeOK for every instance
THEOREM TypeCorrect == Spec => []TypeOK
  BY TypeInit, TypeStep, PTL DEF Spec

----------------------------------------------------------------------------
(* What is held back is what is pending.                                   *)

\* a unit more on one side and an element more on the other
LEMMA AddPending ==
  ASSUME TypeOK, ReservedIsPending, NEW o \in Objs, <<o, "create">> \notin resv,
         resv' = resv \cup {<<o, "create">>},
         reserved' = [r \in Resources |-> reserved[r] + IF r \in Of[o] THEN 1 ELSE 0]
  PROVE  ReservedIsPending'
<1> SUFFICES ASSUME NEW r \in Resources
             PROVE  reserved'[r] = Cardinality(Pending("create", r)')
  BY DEF ReservedIsPending
<1>1. IsFiniteSet(Pending("create", r)) /\ Cardinality(Pending("create", r)) \in Nat
  BY ObjsFinite DEF Pending, Takers
<1>2. reserved[r] = Cardinality(Pending("create", r))
  BY DEF ReservedIsPending
<1>3. CASE r \in Of[o]
  <2>1. /\ Pending("create", r)' = Pending("create", r) \cup {o}
        /\ o \notin Pending("create", r)
    BY <1>3 DEF Pending, Takers
  <2>2. Cardinality(Pending("create", r)') = Cardinality(Pending("create", r)) + 1
    BY <1>1, <2>1, FS_AddElement
  <2>3. QED
    BY <1>1, <1>2, <1>3, <2>2
<1>4. CASE r \notin Of[o]
  <2>1. Pending("create", r)' = Pending("create", r)
    BY <1>4 DEF Pending, Takers
  <2>2. QED
    BY <1>1, <1>2, <1>4, <2>1
<1>5. QED
  BY <1>3, <1>4

\* a unit less and an element less
LEMMA RemovePending ==
  ASSUME TypeOK, ReservedIsPending, NEW o \in Objs, <<o, "create">> \in resv,
         resv' = resv \ {<<o, "create">>}, Release(o)
  PROVE  ReservedIsPending'
<1> SUFFICES ASSUME NEW r \in Resources
             PROVE  reserved'[r] = Cardinality(Pending("create", r)')
  BY DEF ReservedIsPending
<1>1. IsFiniteSet(Pending("create", r)) /\ Cardinality(Pending("create", r)) \in Nat
  BY ObjsFinite DEF Pending, Takers
<1>2. reserved[r] = Cardinality(Pending("create", r))
  BY DEF ReservedIsPending
<1>3. CASE r \in Of[o]
  <2>1. /\ Pending("create", r)' = Pending("create", r) \ {o}
        /\ o \in Pending("create", r)
    BY <1>3 DEF Pending, Takers
  <2>2. Cardinality(Pending("create", r)') = Cardinality(Pending("create", r)) - 1
    BY <1>1, <2>1, FS_RemoveElement
  <2>3. QED
    BY <1>1, <1>2, <1>3, <2>2 DEF Release
<1>4. CASE r \notin Of[o]
  <2>1. Pending("create", r)' = Pending("create", r)
    BY <1>4 DEF Pending, Takers
  <2>2. QED
    BY <1>1, <1>2, <1>4, <2>1 DEF Release
<1>5. QED
  BY <1>3, <1>4

\* what only adds or removes negative reservations
LEMMA SamePending ==
  ASSUME ReservedIsPending, reserved' = reserved,
         \A o \in Objs : <<o, "create">> \in resv' <=> <<o, "create">> \in resv
  PROVE  ReservedIsPending'
<1>1. \A r \in Resources : Pending("create", r)' = Pending("create", r)
  BY DEF Pending, Takers
<1>2. QED
  BY <1>1 DEF ReservedIsPending

\* committing keeps the reserved columns equal to the pending reservations
LEMMA CommitPending ==
  ASSUME TypeOK, ReservedIsPending, NEW o \in Objs, NEW k \in Kinds, Commit(o, k)
  PROVE  ReservedIsPending'
<1>1. CASE k = "create" /\ <<o, k>> \in resv
  BY <1>1, RemovePending DEF Commit
<1>2. CASE ~(k = "create" /\ <<o, k>> \in resv)
  BY <1>2, SamePending DEF Commit, usage
<1>3. QED
  BY <1>1, <1>2

\* so does dropping a reservation
LEMMA DropPending ==
  ASSUME TypeOK, ReservedIsPending, NEW o \in Objs, NEW k \in Kinds, Drop(o, k)
  PROVE  ReservedIsPending'
<1>1. CASE k = "create" /\ <<o, k>> \in resv
  BY <1>1, RemovePending DEF Drop
<1>2. CASE ~(k = "create" /\ <<o, k>> \in resv)
  BY <1>2, SamePending DEF Drop, usage
<1>3. QED
  BY <1>1, <1>2

\* and every action
LEMMA PendingStep == TypeOK /\ ReservedIsPending /\ [Next]_vars => ReservedIsPending'
<1> SUFFICES ASSUME TypeOK, ReservedIsPending, [Next]_vars PROVE ReservedIsPending'
  OBVIOUS
<1> USE DEF Kinds
<1>1. ASSUME NEW o \in Objs, CreateReserve(o) PROVE ReservedIsPending'
  BY <1>1, AddPending DEF CreateReserve, ReservePositive
<1>2. ASSUME NEW o \in Objs, CreateRefused(o) PROVE ReservedIsPending'
  BY <1>2, SamePending DEF CreateRefused, ReserveRefused
<1>3. ASSUME NEW o \in Objs, CommitCreate(o) \/ UndoCommit(o) \/ CommitDelete(o)
      PROVE ReservedIsPending'
  BY <1>3, CommitPending DEF CommitCreate, UndoCommit, CommitDelete
<1>4. ASSUME NEW o \in Objs, RollbackCreate(o) PROVE ReservedIsPending'
  BY <1>4, DropPending DEF RollbackCreate
<1>5. ASSUME NEW o \in Objs, DeleteReserveFails(o) PROVE ReservedIsPending'
  BY <1>5, SamePending DEF DeleteReserveFails, usage
<1>6. ASSUME NEW o \in Objs, UndoReserve(o) \/ DeleteReserve(o) PROVE ReservedIsPending'
  BY <1>6, SamePending DEF UndoReserve, DeleteReserve, ReserveNegative
<1>7. ASSUME UNCHANGED <<reserved, resv>> PROVE ReservedIsPending'
  BY <1>7, SamePending
<1>8. QED
  BY <1>1, <1>2, <1>3, <1>4, <1>5, <1>6, <1>7
     DEF Next, Step, CreateStep, DeleteStep, CreateEntry, CreateEntryFails,
         RollbackCreateFails, CommitCreateFails, Cast, CastFails, UndoFails,
         DestroyRow, DeleteReserveFails, CommitDeleteFails, Die, Tick, vars, usage

\* nothing is pending at first
LEMMA PendingInit == Init => ReservedIsPending
<1> SUFFICES ASSUME Init, NEW r \in Resources
             PROVE  reserved[r] = Cardinality(Pending("create", r))
  BY DEF ReservedIsPending
<1>1. Pending("create", r) = {}
  BY DEF Init, Pending, Takers
<1>2. QED
  BY <1>1, FS_EmptySet DEF Init

\* What the usage rows hold back is exactly what the creations under way, and
\* those that died, have reserved: with refreshes, failed transactions and
\* reverts, nothing is released twice and nothing is lost.  (Nobody calls expire.)
THEOREM ReservedCorrect == Spec => []ReservedIsPending
  BY TypeInit, TypeStep, PendingInit, PendingStep, PTL DEF Spec

----------------------------------------------------------------------------
(* The quota is never under counted and never exceeded, in the default      *)
(* configuration: no resynchronisation but of negative usages, and no       *)
(* committed creation is reverted.                                          *)

AllCovered ==
    \A r \in Resources : Cardinality(Claimants(r)) <= inUse[r] + reserved[r]

NoUndo == \A o \in Objs : pc[o] \notin {"undo", "undo_commit"}

ClaimsInLimit ==
    \A r \in Resources : Limit[r] >= 0 => Cardinality(Claimants(r)) <= Limit[r]

ClaimInv == NoUndo /\ AllCovered /\ ClaimsInLimit

\* there are finitely many claimants
LEMMA ClaimantsFinite ==
  ASSUME NEW r \in Resources
  PROVE  IsFiniteSet(Claimants(r)) /\ Cardinality(Claimants(r)) \in Nat
  BY ObjsFinite DEF Claimants, Takers

\* a refresh that happens while deletions are under way still covers them
LEMMA RefreshCovers ==
  ASSUME TypeOK, AllCovered, DefaultConfiguration, NEW r \in Resources
  PROVE  /\ Refreshed(r) \in Int
         /\ Cardinality(Claimants(r)) <= Refreshed(r) + reserved[r]
<1>1. Refreshed(r) = IF inUse[r] < 0 THEN Actual(r) ELSE inUse[r]
  BY DEF TypeOK, DefaultConfiguration, Refreshed, NeedsRefresh, CountsDown
<1>2. QED
  BY <1>1, ActualType, ClaimantsFinite DEF TypeOK, AllCovered

\* no claim more, and as much to cover it
LEMMA ClaimsShrink ==
  ASSUME TypeOK, AllCovered, ClaimsInLimit,
         \A r \in Resources : /\ Claimants(r)' \subseteq Claimants(r)
                              /\ inUse'[r] \in Int /\ reserved'[r] \in Int
                              /\ \/ inUse'[r] + reserved'[r] >= inUse[r] + reserved[r]
                                 \/ Cardinality(Claimants(r)) <= inUse'[r] + reserved'[r]
  PROVE  AllCovered' /\ ClaimsInLimit'
<1> SUFFICES ASSUME NEW r \in Resources
             PROVE  /\ Cardinality(Claimants(r)') <= inUse'[r] + reserved'[r]
                    /\ Limit[r] >= 0 => Cardinality(Claimants(r)') <= Limit[r]
  BY DEF AllCovered, ClaimsInLimit
<1>1. /\ Cardinality(Claimants(r)') <= Cardinality(Claimants(r))
      /\ IsFiniteSet(Claimants(r)')
  BY ClaimantsFinite, FS_Subset
<1>2. Cardinality(Claimants(r)') \in Nat
  BY <1>1, FS_CardinalityType
<1>3. QED
  BY <1>1, <1>2, ClaimantsFinite, ConstantsAssumption DEF TypeOK, AllCovered, ClaimsInLimit

\* a claimant less, and at most one unit less
LEMMA ClaimEnds ==
  ASSUME TypeOK, AllCovered, ClaimsInLimit, NEW o \in Objs,
         pc' = [pc EXCEPT ![o] = "none"], resv' \subseteq resv,
         \A r \in Resources : inUse'[r] \in Int /\ reserved'[r] \in Int,
         \A r \in Resources : r \notin Of[o] \/ o \notin Claimants(r) =>
             inUse'[r] + reserved'[r] = inUse[r] + reserved[r],
         \A r \in Resources :
             inUse'[r] + reserved'[r] >= inUse[r] + reserved[r] - 1
  PROVE  AllCovered' /\ ClaimsInLimit'
<1> SUFFICES ASSUME NEW r \in Resources
             PROVE  /\ Cardinality(Claimants(r)') <= inUse'[r] + reserved'[r]
                    /\ Limit[r] >= 0 => Cardinality(Claimants(r)') <= Limit[r]
  BY DEF AllCovered, ClaimsInLimit
<1>1. Claimants(r)' \subseteq Claimants(r) \ {o}
  BY DEF Claimants, Takers, Row, TypeOK
<1>2. /\ IsFiniteSet(Claimants(r) \ {o})
      /\ Cardinality(Claimants(r) \ {o}) =
           IF o \in Claimants(r) THEN Cardinality(Claimants(r)) - 1
                                 ELSE Cardinality(Claimants(r))
  BY ClaimantsFinite, FS_RemoveElement
<1>3. /\ Cardinality(Claimants(r)') <= Cardinality(Claimants(r) \ {o})
      /\ IsFiniteSet(Claimants(r)')
  BY <1>1, <1>2, FS_Subset
<1>4. Cardinality(Claimants(r)') \in Nat
  BY <1>3, FS_CardinalityType
<1>5. QED
  BY <1>2, <1>3, <1>4, ClaimantsFinite, ConstantsAssumption
     DEF TypeOK, AllCovered, ClaimsInLimit

\* a claimant more: what is granted is within the limit
LEMMA ClaimBegins ==
  ASSUME TypeOK, AllCovered, ClaimsInLimit, DefaultConfiguration,
         NEW o \in Objs, CreateReserve(o)
  PROVE  AllCovered' /\ ClaimsInLimit'
<1> SUFFICES ASSUME NEW r \in Resources
             PROVE  /\ Cardinality(Claimants(r)') <= inUse'[r] + reserved'[r]
                    /\ Limit[r] >= 0 => Cardinality(Claimants(r)') <= Limit[r]
  BY DEF AllCovered, ClaimsInLimit
<1>1. IsFiniteSet(Claimants(r)) /\ Cardinality(Claimants(r)) \in Nat
  BY ClaimantsFinite
<1>2. CASE r \in Of[o]
  <2>1. Claimants(r)' = Claimants(r) \cup {o}
    BY <1>2 DEF CreateReserve, ReservePositive, Goto, Move, Claimants, Takers, Row, TypeOK
  <2>2. Cardinality(Claimants(r)') = IF o \in Claimants(r)
                                    THEN Cardinality(Claimants(r))
                                    ELSE Cardinality(Claimants(r)) + 1
    BY <1>1, <2>1, FS_AddElement
  <2>3. /\ Cardinality(Claimants(r)') \in Nat
        /\ Cardinality(Claimants(r)') <= Cardinality(Claimants(r)) + 1
    BY <1>1, <2>2
  <2>4. inUse'[r] = Refreshed(r) /\ reserved'[r] = reserved[r] + 1
    BY <1>2 DEF CreateReserve, ReservePositive, RefreshUsages
  <2>5. Limit[r] < 0 \/ Refreshed(r) + reserved[r] + 1 <= Limit[r]
    BY <1>2 DEF CreateReserve, Fits
  <2>6. QED
    BY <1>1, <2>3, <2>4, <2>5, RefreshCovers, ConstantsAssumption DEF TypeOK
<1>3. CASE r \notin Of[o]
  <2>1. Claimants(r)' = Claimants(r)
    BY <1>3 DEF CreateReserve, ReservePositive, Goto, Move, Claimants, Takers, Row, TypeOK
  <2>2. inUse'[r] = inUse[r] /\ reserved'[r] = reserved[r] + 0
    BY <1>3 DEF CreateReserve, ReservePositive, RefreshUsages
  <2>3. QED
    BY <1>1, <2>1, <2>2 DEF TypeOK, AllCovered, ClaimsInLimit
<1>4. QED
  BY <1>2, <1>3

\* every action keeps the claims covered
LEMMA ClaimStep ==
  ASSUME DefaultConfiguration, TypeOK, ClaimInv, [Next]_vars
  PROVE  ClaimInv'
<1> USE DEF Kinds
<1>1. ASSUME NEW o \in Objs, CreateReserve(o) PROVE ClaimInv'
  <2>1. NoUndo'
    BY <1>1 DEF CreateReserve, Goto, Move, NoUndo, ClaimInv, TypeOK
  <2>2. QED
    BY <1>1, <2>1, ClaimBegins DEF ClaimInv
<1>2. ASSUME NEW o \in Objs, CreateRefused(o) \/ DeleteReserve(o) PROVE ClaimInv'
  <2>1. NoUndo'
    BY <1>2 DEF CreateRefused, DeleteReserve, Goto, Move, NoUndo, ClaimInv, TypeOK
  <2>2. RefreshUsages(o) /\ reserved' = reserved
    BY <1>2 DEF CreateRefused, ReserveRefused, DeleteReserve, ReserveNegative
  <2>3. \A r \in Resources : Claimants(r)' \subseteq Claimants(r)
    BY <1>2 DEF CreateRefused, ReserveRefused, DeleteReserve, ReserveNegative,
                Goto, Move, Claimants, Takers, Row, TypeOK
  <2>4. ASSUME NEW r \in Resources
        PROVE  /\ inUse'[r] \in Int /\ reserved'[r] \in Int
               /\ Cardinality(Claimants(r)) <= inUse'[r] + reserved'[r]
    BY <2>2, <2>4, RefreshCovers DEF RefreshUsages, TypeOK, ClaimInv, AllCovered
  <2>5. QED
    BY <2>1, <2>3, <2>4, ClaimsShrink DEF ClaimInv
<1>3. ASSUME NEW o \in Objs,
             CreateEntry(o) \/ CreateEntryFails(o) \/ Cast(o) \/ CommitCreateFails(o)
             \/ DestroyRow(o) \/ DeleteReserveFails(o) \/ Die(o)
      PROVE ClaimInv'
  <2>1. usage' = usage /\ resv' \subseteq resv
    BY <1>3 DEF CreateEntry, CreateEntryFails, Cast, CommitCreateFails, DestroyRow,
                DeleteReserveFails, Die, usage
  <2>2. NoUndo'
    BY <1>3 DEF CreateEntry, CreateEntryFails, Cast, CommitCreateFails, DestroyRow,
                DeleteReserveFails, Die, Goto, Move, Abandoned, NoUndo, ClaimInv, TypeOK, Pcs
  <2>3. \A r \in Resources : Claimants(r)' \subseteq Claimants(r)
    BY <1>3, <2>1
       DEF CreateEntry, CreateEntryFails, Cast, CommitCreateFails, DestroyRow,
           DeleteReserveFails, Die, Goto, Move, Abandoned, Claimants, Takers, Row, TypeOK, Pcs
  <2>4. QED
    BY <2>1, <2>2, <2>3, ClaimsShrink DEF usage, ClaimInv, TypeOK
<1>4. ASSUME NEW o \in Objs, CommitCreate(o) PROVE ClaimInv'
  <2>1. NoUndo'
    BY <1>4 DEF CommitCreate, Goto, Move, NoUndo, ClaimInv, TypeOK
  <2>2. \A r \in Resources : Claimants(r)' \subseteq Claimants(r)
    BY <1>4 DEF CommitCreate, Commit, Goto, Move, Claimants, Takers, Row, TypeOK, usage
  <2>3. \A r \in Resources : /\ inUse'[r] \in Int /\ reserved'[r] \in Int
                             /\ inUse'[r] + reserved'[r] = inUse[r] + reserved[r]
    BY <1>4 DEF CommitCreate, Commit, Release, TypeOK, usage
  <2>4. QED
    BY <2>1, <2>2, <2>3, ClaimsShrink DEF ClaimInv, TypeOK
<1>5. ASSUME NEW o \in Objs, RollbackCreate(o) \/ RollbackCreateFails(o)
                             \/ CommitDelete(o) \/ CommitDeleteFails(o) PROVE ClaimInv'
  <2>1. NoUndo' /\ pc' = [pc EXCEPT ![o] = "none"]
    BY <1>5 DEF RollbackCreate, RollbackCreateFails, CommitDelete, CommitDeleteFails,
                Goto, Move, NoUndo, ClaimInv, TypeOK
  <2>2. resv' \subseteq resv
    BY <1>5 DEF RollbackCreate, RollbackCreateFails, CommitDelete, CommitDeleteFails,
                Commit, Drop
  <2>3. ASSUME NEW r \in Resources
        PROVE  /\ inUse'[r] \in Int /\ reserved'[r] \in Int
               /\ inUse'[r] + reserved'[r] >= inUse[r] + reserved[r] - 1
               /\ r \notin Of[o] => inUse'[r] + reserved'[r] = inUse[r] + reserved[r]
    BY <1>5 DEF RollbackCreate, RollbackCreateFails, CommitDelete, CommitDeleteFails,
                Commit, Drop, Release, TypeOK, usage
  <2>4. ASSUME NEW r \in Resources, r \in Of[o], o \notin Claimants(r)
        PROVE  inUse'[r] + reserved'[r] = inUse[r] + reserved[r]
    BY <1>5, <2>4 DEF RollbackCreate, RollbackCreateFails, CommitDelete, CommitDeleteFails,
                Goto, Move, Commit, Drop, Release, TypeOK, usage, Claimants, Takers, Row
  <2>5. QED
    BY <2>1, <2>2, <2>3, <2>4, ClaimEnds DEF ClaimInv
<1>6. ASSUME NEW o \in Objs, CastFails(o) \/ UndoReserve(o) \/ UndoCommit(o)
                             \/ UndoFails(o) PROVE FALSE
  BY <1>6 DEF CastFails, UndoReserve, UndoCommit, UndoFails, Goto, Move,
              DefaultConfiguration, ClaimInv, NoUndo
<1>7. CASE Tick
  BY <1>7 DEF Tick, DefaultConfiguration
<1>8. CASE UNCHANGED vars
  <2>1. \A r \in Resources : Claimants(r)' = Claimants(r)
    BY <1>8 DEF vars, Claimants, Takers, Row
  <2>2. QED
    BY <1>8, <2>1 DEF vars, usage, ClaimInv, NoUndo, AllCovered, ClaimsInLimit
<1>9. QED
  BY <1>1, <1>2, <1>3, <1>4, <1>5, <1>6, <1>7, <1>8
     DEF Next, Step, CreateStep, DeleteStep

\* nothing is claimed at first
LEMMA ClaimInit == Init => ClaimInv
<1> SUFFICES ASSUME Init PROVE ClaimInv
  OBVIOUS
<1>1. \A r \in Resources : Claimants(r) = {}
  BY DEF Init, Claimants, Takers, Row
<1>2. QED
  BY <1>1, FS_EmptySet DEF Init, ClaimInv, NoUndo, AllCovered, ClaimsInLimit

\* every row is a claimant
LEMMA RowsClaim ==
  ASSUME NEW r \in Resources
  PROVE  Actual(r) <= Cardinality(Claimants(r))
<1>1. {o \in Takers(r) : Row(o)} \subseteq Claimants(r)
  BY DEF Claimants
<1>2. QED
  BY <1>1, ClaimantsFinite, FS_Subset DEF Actual

\* covered claims are within the limit and never undercount
LEMMA ClaimsImply ==
  ASSUME TypeOK, DefaultConfiguration => ClaimInv
  PROVE  /\ ClaimsCovered /\ WithinLimit
         /\ DefaultConfiguration => NeverUndercounts
<1>1. ASSUME ClaimInv, NEW r \in Resources
      PROVE  /\ Actual(r) <= inUse[r] + reserved[r]
             /\ Limit[r] >= 0 => Actual(r) <= Limit[r]
  BY <1>1, RowsClaim, ActualType, ClaimantsFinite, ConstantsAssumption
     DEF TypeOK, ClaimInv, AllCovered, ClaimsInLimit
<1>2. QED
  BY <1>1 DEF ClaimInv, AllCovered, ClaimsCovered, NeverUndercounts, WithinLimit

\* the configuration does not change
LEMMA ConfigurationKept ==
  ASSUME [Next]_vars PROVE DefaultConfiguration' = DefaultConfiguration
  BY DEF Next, vars, DefaultConfiguration, UntilRefresh, MaxAge, Faults

\* ClaimInv is an invariant of the default configuration, whatever requests do
\* and whatever fails.
THEOREM ClaimsCorrect == Spec => [](TypeOK /\ (DefaultConfiguration => ClaimInv))
<1>1. TypeOK /\ (DefaultConfiguration => ClaimInv) /\ [Next]_vars
        => (DefaultConfiguration => ClaimInv)'
  BY ClaimStep, ConfigurationKept
<1>2. QED
  BY <1>1, TypeInit, TypeStep, ClaimInit, PTL DEF Spec

\* In the default configuration the usages and the reservations cover every
\* claim on the quota, also when requests die, transactions fail and negative
\* usages are resynchronised in the middle of deletions.
THEOREM ClaimsCoveredCorrect == Spec => []ClaimsCovered
<1>1. TypeOK /\ (DefaultConfiguration => ClaimInv) => ClaimsCovered
  BY ClaimsImply
<1>2. QED
  BY <1>1, ClaimsCorrect, PTL

\* In the default configuration the rows of a project are never more than the
\* quota knows of.
THEOREM NeverUndercountsCorrect ==
  Spec => [](DefaultConfiguration => NeverUndercounts)
<1>1. TypeOK /\ (DefaultConfiguration => ClaimInv)
        => (DefaultConfiguration => NeverUndercounts)
  BY ClaimsImply
<1>2. QED
  BY <1>1, ClaimsCorrect, PTL

\* In the default configuration they are never more than its limit.
THEOREM WithinLimitCorrect == Spec => []WithinLimit
<1>1. TypeOK /\ (DefaultConfiguration => ClaimInv) => WithinLimit
  BY ClaimsImply
<1>2. QED
  BY <1>1, ClaimsCorrect, PTL

----------------------------------------------------------------------------
(* While no request has died or failed unnoticed, the usage is exact: it    *)
(* counts the objects whose creation is committed and whose destruction is  *)
(* not, and the reservations are those of the requests under way.           *)

Absorbed(r) ==
    {o \in Takers(r) : pc[o] \in {"committed", "live", "deleting", "destroyed"}}

ResvOfRequests ==
    \A o \in Objs :
        /\ <<o, "create">> \in resv <=> pc[o] \in {"reserved", "rollback", "inserted"}
        /\ <<o, "delete">> \in resv <=> pc[o] \in {"deleting", "destroyed"}

UsageIsAbsorbed == \A r \in Resources : inUse[r] = Cardinality(Absorbed(r))

ExactInv == mishaps = 0 => ResvOfRequests /\ UsageIsAbsorbed

\* finitely many objects are absorbed in a usage
LEMMA AbsorbedFinite ==
  ASSUME NEW r \in Resources
  PROVE  IsFiniteSet(Absorbed(r)) /\ Cardinality(Absorbed(r)) \in Nat
  BY ObjsFinite DEF Absorbed, Takers

\* an exact usage is not negative: a reservation leaves it as it is
LEMMA ExactNotRefreshed ==
  ASSUME DefaultConfiguration, TypeOK, UsageIsAbsorbed, NEW o, RefreshUsages(o)
  PROVE  inUse' = inUse
<1>1. \A r \in Resources : inUse[r] >= 0
  BY AbsorbedFinite DEF UsageIsAbsorbed
<1>2. \A r \in Resources : Refreshed(r) = inUse[r]
  BY <1>1 DEF TypeOK, DefaultConfiguration, Refreshed, NeedsRefresh, CountsDown
<1>3. QED
  BY <1>2 DEF RefreshUsages, TypeOK

\* a step that absorbs nothing and gives nothing up
LEMMA SameAbsorbed ==
  ASSUME UsageIsAbsorbed, inUse' = inUse,
         \A r \in Resources : Absorbed(r)' = Absorbed(r)
  PROVE  UsageIsAbsorbed'
  BY DEF UsageIsAbsorbed

\* the commit of a creation, and that of a deletion
LEMMA CommitExact ==
  ASSUME TypeOK, UsageIsAbsorbed, NEW o \in Objs, NEW k \in {"create", "delete"},
         <<o, k>> \in resv, Commit(o, k),
         \A r \in Resources : r \notin Of[o] => Absorbed(r)' = Absorbed(r),
         \A r \in Resources : r \in Of[o] =>
             IF k = "create"
             THEN o \notin Absorbed(r) /\ Absorbed(r)' = Absorbed(r) \cup {o}
             ELSE o \in Absorbed(r) /\ Absorbed(r)' = Absorbed(r) \ {o}
  PROVE  UsageIsAbsorbed'
<1> SUFFICES ASSUME NEW r \in Resources
             PROVE  inUse'[r] = Cardinality(Absorbed(r)')
  BY DEF UsageIsAbsorbed
<1>1. IsFiniteSet(Absorbed(r)) /\ Cardinality(Absorbed(r)) \in Nat
  BY AbsorbedFinite
<1>2. inUse[r] = Cardinality(Absorbed(r))
  BY DEF UsageIsAbsorbed
<1>3. inUse'[r] = IF r \notin Of[o] THEN inUse[r]
                  ELSE IF k = "create" THEN inUse[r] + 1 ELSE inUse[r] - 1
  BY DEF Commit
<1>4. CASE r \notin Of[o]
  BY <1>2, <1>3, <1>4
<1>5. CASE r \in Of[o] /\ k = "create"
  <2>1. Cardinality(Absorbed(r)') = Cardinality(Absorbed(r)) + 1
    BY <1>1, <1>5, FS_AddElement
  <2>2. QED
    BY <1>2, <1>3, <1>5, <2>1
<1>6. CASE r \in Of[o] /\ k = "delete"
  <2>1. Cardinality(Absorbed(r)') = Cardinality(Absorbed(r)) - 1
    BY <1>1, <1>6, FS_RemoveElement
  <2>2. QED
    BY <1>2, <1>3, <1>6, <2>1
<1>7. QED
  BY <1>4, <1>5, <1>6

\* every action keeps the usages equal to what they absorbed
LEMMA ExactStep ==
  ASSUME DefaultConfiguration, TypeOK, ClaimInv, ExactInv, [Next]_vars
  PROVE  ExactInv'
<1> SUFFICES ASSUME mishaps' = 0 PROVE ResvOfRequests' /\ UsageIsAbsorbed'
  BY DEF ExactInv
<1>0. mishaps = 0 => ResvOfRequests /\ UsageIsAbsorbed
  BY DEF ExactInv
<1>1. ASSUME NEW o \in Objs, CreateReserve(o) PROVE ResvOfRequests' /\ UsageIsAbsorbed'
  <2>1. UsageIsAbsorbed /\ ResvOfRequests
    BY <1>0, <1>1 DEF CreateReserve, Goto
  <2>2. ResvOfRequests'
    BY <1>1, <2>1 DEF CreateReserve, ReservePositive, Goto, Move, ResvOfRequests, TypeOK
  <2>3. inUse' = inUse
    BY <1>1, <2>1, ExactNotRefreshed DEF CreateReserve, ReservePositive
  <2>4. \A r \in Resources : Absorbed(r)' = Absorbed(r)
    BY <1>1 DEF CreateReserve, Goto, Move, Absorbed, Takers, TypeOK
  <2>5. QED
    BY <2>1, <2>2, <2>3, <2>4, SameAbsorbed
<1>2. ASSUME NEW o \in Objs, CreateRefused(o) \/ DeleteReserve(o)
      PROVE  ResvOfRequests' /\ UsageIsAbsorbed'
  <2>1. UsageIsAbsorbed /\ ResvOfRequests
    BY <1>0, <1>2 DEF CreateRefused, DeleteReserve, Goto
  <2>2. ResvOfRequests'
    <3>1. CASE CreateRefused(o)
      BY <2>1, <3>1 DEF CreateRefused, ReserveRefused, ResvOfRequests
    <3>2. CASE DeleteReserve(o)
      BY <2>1, <3>2 DEF DeleteReserve, ReserveNegative, Goto, Move, ResvOfRequests, TypeOK
    <3>3. QED
      BY <1>2, <3>1, <3>2
  <2>3. inUse' = inUse
    BY <1>2, <2>1, ExactNotRefreshed
       DEF CreateRefused, ReserveRefused, DeleteReserve, ReserveNegative
  <2>4. \A r \in Resources : Absorbed(r)' = Absorbed(r)
    BY <1>2 DEF CreateRefused, DeleteReserve, Goto, Move, Absorbed, Takers, TypeOK
  <2>5. QED
    BY <2>1, <2>2, <2>3, <2>4, SameAbsorbed
<1>3. ASSUME NEW o \in Objs,
             CreateEntry(o) \/ CreateEntryFails(o) \/ Cast(o) \/ DestroyRow(o)
      PROVE  ResvOfRequests' /\ UsageIsAbsorbed'
  <2>1. UsageIsAbsorbed /\ ResvOfRequests
    BY <1>0, <1>3 DEF CreateEntry, CreateEntryFails, Cast, DestroyRow, Goto
  <2>2. ResvOfRequests'
    BY <1>3, <2>1 DEF CreateEntry, CreateEntryFails, Cast, DestroyRow,
                      Goto, Move, ResvOfRequests, TypeOK
  <2>3. inUse' = inUse
    BY <1>3 DEF CreateEntry, CreateEntryFails, Cast, DestroyRow, usage
  <2>4. \A r \in Resources : Absorbed(r)' = Absorbed(r)
    BY <1>3 DEF CreateEntry, CreateEntryFails, Cast, DestroyRow, Goto, Move,
                Absorbed, Takers, TypeOK
  <2>5. QED
    BY <2>1, <2>2, <2>3, <2>4, SameAbsorbed
<1>4. ASSUME NEW o \in Objs, RollbackCreate(o) PROVE ResvOfRequests' /\ UsageIsAbsorbed'
  <2>1. UsageIsAbsorbed /\ ResvOfRequests
    BY <1>0, <1>4 DEF RollbackCreate, Goto
  <2>2. ResvOfRequests' /\ inUse' = inUse
    BY <1>4, <2>1 DEF RollbackCreate, Drop, Goto, Move, ResvOfRequests, TypeOK, usage
  <2>3. \A r \in Resources : Absorbed(r)' = Absorbed(r)
    BY <1>4 DEF RollbackCreate, Goto, Move, Absorbed, Takers, TypeOK
  <2>4. QED
    BY <2>1, <2>2, <2>3, SameAbsorbed
<1>5. ASSUME NEW o \in Objs, CommitCreate(o) PROVE ResvOfRequests' /\ UsageIsAbsorbed'
  <2>1. UsageIsAbsorbed /\ ResvOfRequests
    BY <1>0, <1>5 DEF CommitCreate, Goto
  <2>2. <<o, "create">> \in resv /\ Commit(o, "create")
    BY <1>5, <2>1 DEF CommitCreate, Goto, Move, ResvOfRequests
  <2>3. ResvOfRequests'
    BY <1>5, <2>1, <2>2 DEF CommitCreate, Commit, Goto, Move, ResvOfRequests, TypeOK
  <2>4. ASSUME NEW r \in Resources
        PROVE  /\ r \notin Of[o] => Absorbed(r)' = Absorbed(r)
               /\ r \in Of[o] => o \notin Absorbed(r) /\ Absorbed(r)' = Absorbed(r) \cup {o}
    BY <1>5 DEF CommitCreate, Goto, Move, Absorbed, Takers, TypeOK
  <2>5. QED
    BY <2>1, <2>2, <2>3, <2>4, CommitExact
<1>6. ASSUME NEW o \in Objs, CommitDelete(o) PROVE ResvOfRequests' /\ UsageIsAbsorbed'
  <2>1. UsageIsAbsorbed /\ ResvOfRequests
    BY <1>0, <1>6 DEF CommitDelete, Goto
  <2>2. <<o, "delete">> \in resv /\ Commit(o, "delete")
    BY <1>6, <2>1 DEF CommitDelete, Goto, Move, ResvOfRequests
  <2>3. ResvOfRequests'
    BY <1>6, <2>1, <2>2 DEF CommitDelete, Commit, Goto, Move, ResvOfRequests, TypeOK
  <2>4. ASSUME NEW r \in Resources
        PROVE  /\ r \notin Of[o] => Absorbed(r)' = Absorbed(r)
               /\ r \in Of[o] => o \in Absorbed(r) /\ Absorbed(r)' = Absorbed(r) \ {o}
    BY <1>6 DEF CommitDelete, Goto, Move, Absorbed, Takers, TypeOK
  <2>5. QED
    BY <2>1, <2>2, <2>3, <2>4, CommitExact
<1>7. ASSUME Mishap PROVE FALSE
  BY <1>7, ConstantsAssumption DEF Mishap, TypeOK, MaxMishaps
<1>8. ASSUME NEW o \in Objs, CastFails(o) \/ UndoReserve(o) \/ UndoCommit(o)
      PROVE  FALSE
  BY <1>8 DEF CastFails, UndoReserve, UndoCommit, Goto, Move,
              DefaultConfiguration, ClaimInv, NoUndo
<1>9. CASE Tick
  BY <1>9 DEF Tick, DefaultConfiguration
<1>10. CASE UNCHANGED vars
  <2>1. \A r \in Resources : Absorbed(r)' = Absorbed(r)
    BY <1>10 DEF vars, Absorbed, Takers
  <2>2. QED
    BY <1>0, <1>10, <2>1 DEF vars, usage, ResvOfRequests, UsageIsAbsorbed
<1>11. QED
  BY <1>1, <1>2, <1>3, <1>4, <1>5, <1>6, <1>7, <1>8, <1>9, <1>10
     DEF Next, Step, CreateStep, DeleteStep, RollbackCreateFails, CommitCreateFails,
         UndoFails, DeleteReserveFails, CommitDeleteFails, Die

\* nothing is absorbed at first
LEMMA ExactInit == Init => ExactInv
<1> SUFFICES ASSUME Init PROVE ResvOfRequests /\ UsageIsAbsorbed
  BY DEF ExactInv
<1>1. \A r \in Resources : Absorbed(r) = {}
  BY DEF Init, Absorbed, Takers
<1>2. QED
  BY <1>1, FS_EmptySet DEF Init, ResvOfRequests, UsageIsAbsorbed

\* between requests what is absorbed is what has a row
LEMMA ExactImplies ==
  ASSUME ReservedIsPending, DefaultConfiguration => ExactInv
  PROVE  QuietIsExact
<1> SUFFICES ASSUME DefaultConfiguration, mishaps = 0,
                    \A o \in Objs : pc[o] \in {"none", "live"}, NEW r \in Resources
             PROVE  inUse[r] = Actual(r) /\ reserved[r] = 0
  BY DEF QuietIsExact
<1>1. ResvOfRequests /\ UsageIsAbsorbed
  BY DEF ExactInv
<1>2. Absorbed(r) = {o \in Takers(r) : Row(o)}
  BY DEF Absorbed, Takers, Row
<1>3. Pending("create", r) = {}
  BY <1>1 DEF ResvOfRequests, Pending, Takers
<1>4. QED
  BY <1>1, <1>2, <1>3, FS_EmptySet DEF UsageIsAbsorbed, Actual, ReservedIsPending

\* In the default configuration the usage rows are exact whenever no request is
\* under way, as long as none has died or failed unnoticed: failed insertions
\* and refused reservations, interleaved in any way, leave no trace.
THEOREM QuietExactCorrect == Spec => []QuietIsExact
<1>1. TypeOK /\ (DefaultConfiguration => ClaimInv) /\ (DefaultConfiguration => ExactInv)
        /\ [Next]_vars => (DefaultConfiguration => ExactInv)'
  BY ExactStep, ConfigurationKept
<1>2. ReservedIsPending /\ (DefaultConfiguration => ExactInv) => QuietIsExact
  BY ExactImplies
<1>3. QED
  BY <1>1, <1>2, ExactInit, ClaimsCorrect, ReservedCorrect, PTL DEF Spec

----------------------------------------------------------------------------
(* Reservations are orphaned by deaths and by quota calls that fail only.   *)

\* there are finitely many reservations
LEMMA OrphansFinite ==
  ASSUME TypeOK
  PROVE  IsFiniteSet(Orphans) /\ Cardinality(Orphans) \in Nat
<1>1. IsFiniteSet(Kinds)
  <2>1. /\ IsFiniteSet({"create"})
        /\ IsFiniteSet({"create"} \cup {"undo"})
        /\ IsFiniteSet(({"create"} \cup {"undo"}) \cup {"delete"})
    BY FS_Singleton, FS_AddElement
  <2>2. Kinds = ({"create"} \cup {"undo"}) \cup {"delete"}
    BY DEF Kinds
  <2>3. QED
    BY <2>1, <2>2
<1>2. IsFiniteSet(Objs \X Kinds)
  BY <1>1, ConstantsAssumption, FS_Product
<1>3. Orphans \subseteq Objs \X Kinds
  BY DEF Orphans, TypeOK
<1>4. QED
  BY <1>2, <1>3, FS_Subset, FS_CardinalityType

\* a step that orphans nothing
LEMMA NoOrphanMore ==
  ASSUME TypeOK, OrphansHaveDied, mishaps' = mishaps, Orphans' \subseteq Orphans
  PROVE  OrphansHaveDied'
<1>1. /\ IsFiniteSet(Orphans') /\ Cardinality(Orphans') <= Cardinality(Orphans)
      /\ Cardinality(Orphans') \in Nat
  BY OrphansFinite, FS_Subset, FS_CardinalityType
<1>2. mishaps \in Nat
  BY ConstantsAssumption DEF TypeOK, MaxMishaps
<1>3. QED
  BY <1>1, <1>2, OrphansFinite DEF OrphansHaveDied

\* a mishap that orphans one reservation
LEMMA OneOrphanMore ==
  ASSUME TypeOK, OrphansHaveDied, Mishap, NEW x, Orphans' \subseteq Orphans \cup {x}
  PROVE  OrphansHaveDied'
<1>1. /\ IsFiniteSet(Orphans \cup {x})
      /\ Cardinality(Orphans \cup {x}) <= Cardinality(Orphans) + 1
      /\ Cardinality(Orphans \cup {x}) \in Nat
  BY OrphansFinite, FS_AddElement, FS_CardinalityType
<1>2. /\ IsFiniteSet(Orphans') /\ Cardinality(Orphans') <= Cardinality(Orphans \cup {x})
      /\ Cardinality(Orphans') \in Nat
  BY <1>1, FS_Subset, FS_CardinalityType
<1>3. mishaps \in Nat
  BY ConstantsAssumption DEF TypeOK, MaxMishaps
<1>4. QED
  BY <1>1, <1>2, <1>3, OrphansFinite DEF OrphansHaveDied, Mishap

\* what a request of one object does to its own reservations
LEMMA OrphansOf ==
  ASSUME TypeOK, NEW o \in Objs, NEW p, pc' = [pc EXCEPT ![o] = p], NEW X,
         \A k \in Kinds : <<o, k>> \in resv' => Uses(o, k)' \/ <<o, k>> \in Orphans \cup X,
         \A q \in Objs \ {o} : \A k \in Kinds : <<q, k>> \in resv' => <<q, k>> \in resv,
         resv' \subseteq Objs \X Kinds
  PROVE  Orphans' \subseteq Orphans \cup X
<1> SUFFICES ASSUME NEW q \in Objs, NEW k \in Kinds, <<q, k>> \in Orphans'
             PROVE  <<q, k>> \in Orphans \cup X
  BY DEF Orphans
<1>1. <<q, k>> \in resv' /\ ~Uses(q, k)'
  BY DEF Orphans
<1>2. CASE q = o
  BY <1>1, <1>2
<1>3. CASE q # o
  <2>1. pc'[q] = pc[q]
    BY <1>3 DEF TypeOK
  <2>2. <<q, k>> \in resv /\ ~Uses(q, k)
    BY <1>1, <1>3, <2>1 DEF Uses
  <2>3. QED
    BY <2>2 DEF Orphans
<1>4. QED
  BY <1>2, <1>3

\* every action orphans nothing, or one reservation by a mishap
LEMMA OrphanStep == TypeOK /\ OrphansHaveDied /\ [Next]_vars => OrphansHaveDied'
<1> SUFFICES ASSUME TypeOK, OrphansHaveDied, [Next]_vars PROVE OrphansHaveDied'
  OBVIOUS
<1>0. resv' \subseteq Objs \X Kinds
  BY TypeStep DEF TypeOK
<1>1. ASSUME NEW o \in Objs, NEW p, pc' = [pc EXCEPT ![o] = p], mishaps' = mishaps,
             \A k \in Kinds : <<o, k>> \in resv' => Uses(o, k)' \/ <<o, k>> \in Orphans,
             \A q \in Objs \ {o} : \A k \in Kinds : <<q, k>> \in resv' => <<q, k>> \in resv
      PROVE  OrphansHaveDied'
  <2>1. Orphans' \subseteq Orphans \cup {}
    BY <1>0, <1>1, OrphansOf
  <2>2. QED
    BY <1>1, <2>1, NoOrphanMore
<1>2. ASSUME NEW o \in Objs, NEW p, pc' = [pc EXCEPT ![o] = p], Mishap, NEW k \in Kinds,
             \A j \in Kinds \ {k} : <<o, j>> \in resv' => Uses(o, j)' \/ <<o, j>> \in Orphans,
             \A q \in Objs \ {o} : \A j \in Kinds : <<q, j>> \in resv' => <<q, j>> \in resv
      PROVE  OrphansHaveDied'
  <2>1. Orphans' \subseteq Orphans \cup {<<o, k>>}
    BY <1>0, <1>2, OrphansOf
  <2>2. QED
    BY <1>2, <2>1, OneOrphanMore
<1> USE DEF Kinds, Uses, Orphans
<1>3. ASSUME NEW o \in Objs, CreateReserve(o) PROVE OrphansHaveDied'
  BY <1>1, <1>3 DEF CreateReserve, ReservePositive, Goto, Move, TypeOK
<1>4. ASSUME NEW o \in Objs, CreateEntry(o) \/ CreateEntryFails(o) \/ Cast(o)
                             \/ CastFails(o) \/ DestroyRow(o) PROVE OrphansHaveDied'
  BY <1>1, <1>4 DEF CreateEntry, CreateEntryFails, Cast, CastFails, DestroyRow,
                    Goto, Move, TypeOK
<1>5. ASSUME NEW o \in Objs, RollbackCreate(o) PROVE OrphansHaveDied'
  BY <1>1, <1>5 DEF RollbackCreate, Drop, Goto, Move, TypeOK
<1>6. ASSUME NEW o \in Objs, CommitCreate(o) \/ UndoCommit(o) \/ CommitDelete(o)
      PROVE OrphansHaveDied'
  BY <1>1, <1>6 DEF CommitCreate, UndoCommit, CommitDelete, Commit, Goto, Move, TypeOK
<1>7. ASSUME NEW o \in Objs, UndoReserve(o) \/ DeleteReserve(o) PROVE OrphansHaveDied'
  <2>1. CASE UndoReserve(o)
    <3>1. /\ pc' = [pc EXCEPT ![o] = "undo_commit"] /\ mishaps' = mishaps
          /\ resv' = resv \cup {<<o, "undo">>} /\ pc[o] = "undo"
      BY <2>1 DEF UndoReserve, ReserveNegative, Goto, Move
    <3>2. QED
      BY <1>1, <3>1 DEF TypeOK
  <2>2. CASE DeleteReserve(o)
    <3>1. /\ pc' = [pc EXCEPT ![o] = "deleting"] /\ mishaps' = mishaps
          /\ resv' = resv \cup {<<o, "delete">>} /\ pc[o] = "live"
      BY <2>2 DEF DeleteReserve, ReserveNegative, Goto, Move
    <3>2. QED
      BY <1>1, <3>1 DEF TypeOK
  <2>3. QED
    BY <1>7, <2>1, <2>2
<1>8. ASSUME NEW o \in Objs, RollbackCreateFails(o) \/ CommitCreateFails(o)
      PROVE OrphansHaveDied'
  BY <1>2, <1>8 DEF RollbackCreateFails, CommitCreateFails, Move, TypeOK
<1>9. ASSUME NEW o \in Objs, UndoFails(o) PROVE OrphansHaveDied'
  BY <1>2, <1>9 DEF UndoFails, Move, TypeOK
<1>10. ASSUME NEW o \in Objs, DeleteReserveFails(o) \/ CommitDeleteFails(o)
       PROVE OrphansHaveDied'
  BY <1>2, <1>10 DEF DeleteReserveFails, CommitDeleteFails, Move, TypeOK
<1>11. ASSUME NEW o \in Objs, Die(o) PROVE OrphansHaveDied'
  <2>1. PICK k \in Kinds : \A j \in Kinds \ {k} : ~Uses(o, j)
    OBVIOUS
  <2>2. Mishap /\ pc' = [pc EXCEPT ![o] = Abandoned(pc[o])] /\ resv' = resv
    BY <1>11 DEF Die
  <2>3. QED
    BY <1>2, <2>1, <2>2
<1>12. ASSUME UNCHANGED <<resv, pc, mishaps>> PROVE OrphansHaveDied'
  BY <1>12, NoOrphanMore
<1>13. QED
  BY <1>3, <1>4, <1>5, <1>6, <1>7, <1>8, <1>9, <1>10, <1>11, <1>12
     DEF Next, Step, CreateStep, DeleteStep, CreateRefused, ReserveRefused, Tick, vars

\* nothing is reserved at first
LEMMA OrphanInit == Init => OrphansHaveDied
<1> SUFFICES ASSUME Init PROVE OrphansHaveDied
  OBVIOUS
<1>1. Orphans = {}
  BY DEF Init, Orphans
<1>2. QED
  BY <1>1, FS_EmptySet DEF Init, OrphansHaveDied

\* In every configuration there are no more reservations that nobody will end
\* than there were deaths and failed quota calls: failed insertions, reverts,
\* refused requests and refreshes, interleaved in any way, orphan none.
THEOREM OrphansCorrect == Spec => []OrphansHaveDied
  BY TypeInit, TypeStep, OrphanInit, OrphanStep, PTL DEF Spec
=============================================================================
