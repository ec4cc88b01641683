-------------------------- MODULE QuotaReservation --------------------------
(***************************************************************************)
(* The quota of one project in the storage service: the usage rows and the *)
(* reservations on them (reserve, commit, rollback, refresh), used by the  *)
(* requests that create an object (a volume or a snapshot) and by those    *)
(* that delete it.  Reserve, commit and rollback are each one database     *)
(* transaction under the lock on the project's usage rows, hence one step; *)
(* between two of them, and around the insertion and the destruction of    *)
(* the object's own row, the requests interleave and die.  Nothing in the  *)
(* storage service calls expire (reservation_expire, which takes no lock), *)
(* so it is not an action here: what is orphaned stays.                    *)
(***************************************************************************)
EXTENDS Integers, FiniteSets

CONSTANTS
    Objs,          \* volumes and snapshots that may exist
    Resources,     \* 'volumes', 'snapshots', 'gigabytes', ...
    Of,            \* per object: the resources it takes one unit of
    Limit,         \* per resource: the quota, negative for unlimited
    Day,           \* ticks in a day
    MaxClock,      \* bound on the age of a usage row that is looked at
    Settings       \* configurations, and what may happen under them: one of these

AllFaults == {"entry", "quota", "cast"}

ASSUME ConstantsAssumption ==
    /\ IsFiniteSet(Objs)
    /\ Of \in [Objs -> SUBSET Resources]
    /\ Limit \in [Resources -> Int]
    /\ MaxClock \in Nat /\ Day \in Nat \ {0}
    /\ \A s \in Settings :
          s \in [objs : SUBSET Objs, untilRefresh : Nat, maxAge : Nat,
                faults : SUBSET AllFaults, mishaps : Nat]

VARIABLES
    inUse,      \* quota_usages.in_use
    reserved,   \* quota_usages.reserved
    countdown,  \* quota_usages.until_refresh, 0 for NULL
    age,        \* ticks since quota_usages.updated_at
    resv,       \* reservations that are neither committed nor rolled back
    pc,         \* per object: where the request that works on it stands
    mishaps,    \* requests that died or failed unnoticed
    setting     \* one of Settings, chosen at the start

usage == <<inUse, reserved, countdown, age>>
vars  == <<usage, resv, pc, mishaps, setting>>

Wanted       == setting.objs          \* the objects users create
UntilRefresh == setting.untilRefresh  \* reservations between refreshes, 0 for off
MaxAge       == setting.maxAge        \* max_age: ticks between refreshes, 0 for off
Faults       == setting.faults        \* what may go wrong
MaxMishaps   == setting.mishaps       \* bounds requests that die or fail unnoticed

Kinds == {"create", "undo", "delete"}
Pcs == {"none", "reserved", "rollback", "inserted", "committed", "undo",
        "undo_commit", "live", "deleting", "destroyed"}

TypeOK ==
    /\ inUse \in [Resources -> Int] /\ reserved \in [Resources -> Int]
    /\ countdown \in [Resources -> 0..UntilRefresh]
    /\ age \in [Resources -> 0..MaxClock]
    /\ resv \subseteq Objs \X Kinds
    /\ pc \in [Objs -> Pcs]
    /\ mishaps \in 0..MaxMishaps
    /\ setting \in Settings

Init ==
    /\ setting \in Settings
    /\ inUse = [r \in Resources |-> 0] /\ reserved = [r \in Resources |-> 0]
    /\ countdown = [r \in Resources |-> UntilRefresh]
    /\ age = [r \in Resources |-> 0]
    /\ resv = {}
    /\ pc = [o \in Objs |-> "none"]
    /\ mishaps = 0

----------------------------------------------------------------------------
(* What the sync functions count.                                          *)

\* the object's row exists and is not soft-deleted
Row(o) == pc[o] \in {"inserted", "committed", "undo", "undo_commit",
                     "live", "deleting"}

Takers(r) == {o \in Objs : r \in Of[o]}
Actual(r) == Cardinality({o \in Takers(r) : Row(o)})

Pending(kind, r) == {o \in Takers(r) : <<o, kind>> \in resv}

----------------------------------------------------------------------------
(* The quota driver's transactions.                                        *)

\* (updated_at - utcnow()).seconds: the seconds of a negative timedelta are
\* counted from the start of the day before
SecondsSince(a) == (Day - (a % Day)) % Day

\* mutant: a counter at 0 is taken for a counter and not for none
CountsDownFromZero(r) == inUse[r] >= 0

CountsDown(r) == inUse[r] >= 0 /\ countdown[r] > 0

NeedsRefresh(r) ==
    \/ inUse[r] < 0
    \/ CountsDown(r) /\ countdown[r] = 1
    \/ inUse[r] >= 0 /\ countdown[r] = 0
       /\ MaxAge > 0 /\ SecondsSince(age[r]) >= MaxAge

\* in_use as the reservation sees it
Refreshed(r) == IF NeedsRefresh(r) THEN Actual(r) ELSE inUse[r]

\* mutant: what others have reserved is not counted
FitsUsageOnly(o) == \A r \in Of[o] : Limit[r] < 0 \/ Refreshed(r) + 1 <= Limit[r]

\* only positive deltas are checked against the limit
Fits(o) == \A r \in Of[o] : Limit[r] < 0 \/ Refreshed(r) + reserved[r] + 1 <= Limit[r]

\* a usage row that is written is as old as the transaction
Touch(R) == age' = [r \in Resources |-> IF r \in R THEN 0 ELSE age[r]]

\* quota_reserve: refreshed usages are kept also when the limit is exceeded
RefreshUsages(o) ==
    /\ inUse' = [r \in Resources |-> IF r \in Of[o] THEN Refreshed(r) ELSE inUse[r]]
    /\ countdown' = [r \in Resources |->
                        IF r \notin Of[o] THEN countdown[r]
                        ELSE IF NeedsRefresh(r) THEN UntilRefresh
                        ELSE IF CountsDown(r) THEN countdown[r] - 1
                        ELSE countdown[r]]

Written(o) == {r \in Of[o] : NeedsRefresh(r) \/ CountsDown(r)}

ReservePositive(o) ==
    /\ RefreshUsages(o)
    /\ reserved' = [r \in Resources |-> reserved[r] + IF r \in Of[o] THEN 1 ELSE 0]
    /\ resv' = resv \cup {<<o, "create">>}
    /\ Touch(Of[o])

\* negative deltas are never refused and hold nothing back
ReserveNegative(o, kind) ==
    /\ RefreshUsages(o)
    /\ resv' = resv \cup {<<o, kind>>}
    /\ Touch(Written(o))
    /\ UNCHANGED reserved

ReserveRefused(o) ==
    /\ RefreshUsages(o)
    /\ Touch(Written(o))
    /\ UNCHANGED <<reserved, resv>>

\* give back what a positive reservation holds
Release(o) ==
    reserved' = [r \in Resources |-> reserved[r] - IF r \in Of[o] THEN 1 ELSE 0]

\* mutant: a negative reservation releases too
CommitReleasesAll(o, kind) ==
    IF <<o, kind>> \in resv
    THEN /\ inUse' = [r \in Resources |->
                        IF r \notin Of[o] THEN inUse[r]
                        ELSE IF kind = "create" THEN inUse[r] + 1 ELSE inUse[r] - 1]
         /\ Release(o) /\ Touch(Of[o])
         /\ resv' = resv \ {<<o, kind>>}
         /\ UNCHANGED countdown
    ELSE UNCHANGED <<usage, resv>>

\* reservation_commit: reservations that are gone are skipped
Commit(o, kind) ==
    IF <<o, kind>> \in resv
    THEN /\ inUse' = [r \in Resources |->
                        IF r \notin Of[o] THEN inUse[r]
                        ELSE IF kind = "create" THEN inUse[r] + 1 ELSE inUse[r] - 1]
         /\ IF kind = "create" THEN Release(o) ELSE UNCHANGED reserved
         /\ resv' = resv \ {<<o, kind>>}
         /\ Touch(Of[o])
         /\ UNCHANGED countdown
    ELSE UNCHANGED <<usage, resv>>

\* reservation_rollback
Drop(o, kind) ==
    IF <<o, kind>> \in resv
    THEN /\ IF kind = "create" THEN Release(o) /\ Touch(Of[o])
            ELSE UNCHANGED <<reserved, age>>
         /\ resv' = resv \ {<<o, kind>>}
         /\ UNCHANGED <<inUse, countdown>>
    ELSE UNCHANGED <<usage, resv>>

----------------------------------------------------------------------------
(* Creating an object: the API flow's tasks and their reverts.             *)

Move(o, from, to) == pc[o] = from /\ pc' = [pc EXCEPT ![o] = to]
Goto(o, from, to) == Move(o, from, to) /\ UNCHANGED mishaps

\* the request dies, or a failure in it is logged and ignored
Mishap == mishaps < MaxMishaps /\ mishaps' = mishaps + 1

\* an object id is fresh: nothing of an earlier one is left
CreateReserve(o) ==
    /\ Goto(o, "none", "reserved") /\ \A k \in Kinds : <<o, k>> \notin resv
    /\ o \in Wanted /\ Fits(o) /\ ReservePositive(o)

\* OverQuota: the request ends
CreateRefused(o) ==
    /\ pc[o] = "none" /\ \A k \in Kinds : <<o, k>> \notin resv
    /\ o \in Wanted /\ ~Fits(o) /\ ReserveRefused(o)
    /\ UNCHANGED <<pc, mishaps>>

CreateEntry(o) ==
    /\ Goto(o, "reserved", "inserted")
    /\ UNCHANGED <<usage, resv>>

CreateEntryFails(o) ==
    /\ "entry" \in Faults /\ Goto(o, "reserved", "rollback")
    /\ UNCHANGED <<usage, resv>>

\* mutant: the reservation is left behind
RollbackCreateSkips(o) ==
    /\ Goto(o, "rollback", "none")
    /\ UNCHANGED <<usage, resv>>

RollbackCreate(o) ==
    /\ Goto(o, "rollback", "none")
    /\ Drop(o, "create")

\* QUOTAS.rollback logs its failure and returns
RollbackCreateFails(o) ==
    /\ "quota" \in Faults /\ Mishap /\ Move(o, "rollback", "none")
    /\ UNCHANGED <<usage, resv>>

\* mutant: a create gives its reservation back and is not added to the usage
CommitCreateDrops(o) ==
    /\ Goto(o, "inserted", "committed")
    /\ Drop(o, "create")

CommitCreate(o) ==
    /\ Goto(o, "inserted", "committed")
    /\ Commit(o, "create")

\* QUOTAS.commit logs its failure and returns as if nothing happened
CommitCreateFails(o) ==
    /\ "quota" \in Faults /\ Mishap /\ Move(o, "inserted", "committed")
    /\ UNCHANGED <<usage, resv>>

Cast(o) ==
    /\ Goto(o, "committed", "live")
    /\ UNCHANGED <<usage, resv>>

\* the flow is reverted: the quota is taken back, the row stays
CastFails(o) ==
    /\ "cast" \in Faults /\ Goto(o, "committed", "undo")
    /\ UNCHANGED <<usage, resv>>

UndoReserve(o) ==
    /\ Goto(o, "undo", "undo_commit")
    /\ ReserveNegative(o, "undo")

UndoCommit(o) ==
    /\ Goto(o, "undo_commit", "live")
    /\ Commit(o, "undo")

\* whatever fails in the revert is logged
UndoFails(o) ==
    /\ "quota" \in Faults /\ Mishap
    /\ Move(o, "undo", "live") \/ Move(o, "undo_commit", "live")
    /\ UNCHANGED <<usage, resv>>

----------------------------------------------------------------------------
(* Deleting an object: the end of the manager's handler.                   *)

DeleteReserve(o) ==
    /\ Goto(o, "live", "deleting")
    /\ ReserveNegative(o, "delete")

\* "Failed to update usages deleting volume": the volume goes all the same.
\* What an earlier delete of it has left reserved belongs to nobody and holds
\* nothing back; it is forgotten here, lest this delete commit it (the code
\* tells the two apart by their ids)
DeleteReserveFails(o) ==
    /\ "quota" \in Faults /\ Mishap /\ Move(o, "live", "deleting")
    /\ resv' = resv \ {<<o, "delete">>}
    /\ UNCHANGED usage

DestroyRow(o) ==
    /\ Goto(o, "deleting", "destroyed")
    /\ UNCHANGED <<usage, resv>>

CommitDelete(o) ==
    /\ Goto(o, "destroyed", "none")
    /\ Commit(o, "delete")

CommitDeleteFails(o) ==
    /\ "quota" \in Faults /\ Mishap /\ Move(o, "destroyed", "none")
    /\ UNCHANGED <<usage, resv>>

----------------------------------------------------------------------------
(* A request dies where it stands; time passes.                            *)

Abandoned(p) == CASE p \in {"reserved", "rollback", "destroyed"} -> "none"
                  [] p \in {"inserted", "committed", "undo", "undo_commit",
                            "deleting"} -> "live"

Die(o) ==
    /\ Mishap /\ pc[o] \notin {"none", "live"}
    /\ pc' = [pc EXCEPT ![o] = Abandoned(pc[o])]
    /\ UNCHANGED <<usage, resv>>

\* a resource that nobody takes has no usage row
Used == UNION {Of[o] : o \in Wanted}

Tick ==
    /\ MaxAge > 0 /\ \A r \in Used : age[r] < MaxClock
    /\ age' = [r \in Resources |-> IF r \in Used THEN age[r] + 1 ELSE age[r]]
    /\ UNCHANGED <<inUse, reserved, countdown, resv, pc, mishaps>>

----------------------------------------------------------------------------
CreateStep(o) ==
    \/ CreateEntry(o) \/ CreateEntryFails(o)
    \/ RollbackCreate(o) \/ RollbackCreateFails(o)
    \/ CommitCreate(o) \/ CommitCreateFails(o)
    \/ Cast(o) \/ CastFails(o)
    \/ UndoReserve(o) \/ UndoCommit(o) \/ UndoFails(o)

DeleteStep(o) == DestroyRow(o) \/ CommitDelete(o) \/ CommitDeleteFails(o)

Step ==
    \/ \E o \in Objs :
         \/ CreateReserve(o) \/ CreateRefused(o) \/ CreateStep(o)
         \/ DeleteReserve(o) \/ DeleteReserveFails(o) \/ DeleteStep(o) \/ Die(o)
    \/ Tick

Next == Step /\ UNCHANGED setting

Spec == Init /\ [][Next]_vars

----------------------------------------------------------------------------
(* Properties.                                                             *)

\* What a usage row holds back is what the creations under way reserved,
\* neither less (over quota) nor more (lost for ever), whatever fails, dies or
\* is refreshed.
ReservedIsPending ==
    \A r \in Resources : reserved[r] = Cardinality(Pending("create", r))

\* the rows of the project are in use or reserved
NeverUndercounts == \A r \in Resources : Actual(r) <= inUse[r] + reserved[r]

\* "as the volume has already been created and the quota has already been
\* absorbed" (the creation flow): a row counts from its insertion to its
\* destruction, also when its request fails after the quota was committed.
RowsStayCounted ==
    UntilRefresh = 0 /\ MaxAge = 0 /\ MaxMishaps = 0 => NeverUndercounts

\* The configuration as it comes: no resynchronisation but of negative usages;
\* no committed creation is reverted.
DefaultConfiguration ==
    UntilRefresh = 0 /\ MaxAge = 0 /\ "cast" \notin Faults

\* Who may still count on a unit of the quota: the rows, those that will be
\* inserted, and those whose destruction will be taken off the usage.
Claimants(r) ==
    {o \in Takers(r) : \/ Row(o) \/ pc[o] \in {"reserved", "rollback"}
                       \/ pc[o] = "destroyed" /\ <<o, "delete">> \in resv}

\* "Races do not cause under counting": the usage and the reservations cover
\* all of them, the rows first of all, in the middle of requests and after some
\* have failed or died, so that no commit still to come undercounts the rows.
ClaimsCovered ==
    DefaultConfiguration =>
        \A r \in Resources : Cardinality(Claimants(r)) <= inUse[r] + reserved[r]

\* The project never gets more than its quota, whatever is granted at once.
WithinLimit ==
    DefaultConfiguration => \A r \in Resources : Limit[r] >= 0 => Actual(r) <= Limit[r]

\* When the last request is over, the usage is the number of rows, the failed
\* insertions included, if none of the requests died or failed unnoticed.
QuietIsExact ==
    /\ DefaultConfiguration
    /\ mishaps = 0 /\ \A o \in Objs : pc[o] \in {"none", "live"}
    => \A r \in Resources : inUse[r] = Actual(r) /\ reserved[r] = 0

\* the request that made a reservation will still commit it or roll it back
Uses(o, kind) ==
    \/ kind = "create" /\ pc[o] \in {"reserved", "rollback", "inserted"}
    \/ kind = "undo" /\ pc[o] = "undo_commit"
    \/ kind = "delete" /\ pc[o] \in {"deleting", "destroyed"}

Orphans == {x \in resv : ~Uses(x[1], x[2])}

\* "The reservation will never be rolled back" (the creation flow): what nobody
\* will end stays, and a creation's holds its quota back for ever.  It is left
\* only by a request that died or by a quota call that failed, one by each: not
\* by failed insertions, reverts, refreshes or refused requests.
OrphansHaveDied == Cardinality(Orphans) <= mishaps
=============================================================================
