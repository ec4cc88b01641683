-------------------------- MODULE VolumeLifecycle --------------------------
(***************************************************************************)
(* What the storage service promises about one volume, whoever creates it  *)
(* and whatever fails: its status, and the copies of it that the provider  *)
(* keeps because nobody has asked for their removal.  VolumeProvision is   *)
(* shown to implement this specification.                                  *)
(***************************************************************************)
EXTENDS Naturals

VARIABLES
    status,  \* volumes.status; "deleted" once the row is soft-deleted
    copies,  \* copies the provider keeps
    extra    \* creations that were asked for again, unanswered

vars == <<status, copies, extra>>

Building == status \in {"creating", "downloading"}
Leaving  == status \in {"deleting", "error_deleting"}

Init == status = "creating" /\ copies = 0 /\ extra = 0

Download == status = "creating" /\ status' = "downloading" /\ UNCHANGED <<copies, extra>>

\* a copy is made, perhaps one that its client hears nothing of
Copy ==
    /\ Building /\ copies' = copies + 1
    /\ extra' \in {extra, extra + 1} /\ UNCHANGED status

\* a volume that is offered has a copy, ...
Offer == Building /\ copies > 0 /\ status' = "available" /\ UNCHANGED <<copies, extra>>

Abandon == Building /\ status' = "error" /\ UNCHANGED <<copies, extra>>

\* ... and keeps it as long as it is offered
Remove ==
    /\ status # "available" /\ copies > 0 /\ copies' = copies - 1
    /\ UNCHANGED <<status, extra>>

Request ==
    /\ ~Building /\ status # "deleted" /\ status' = "deleting"
    /\ UNCHANGED <<copies, extra>>

FailDelete == Leaving /\ status' = "error_deleting" /\ UNCHANGED <<copies, extra>>

\* the row goes when the provider keeps nothing, but for what a repeated
\* request may have made
Destroy ==
    /\ Leaving /\ copies <= extra
    /\ status' = "deleted" /\ UNCHANGED <<copies, extra>>

Next == Download \/ Copy \/ Offer \/ Abandon \/ Remove \/ Request \/ FailDelete \/ Destroy

Spec == Init /\ [][Next]_vars
=============================================================================
