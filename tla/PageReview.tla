----------------------------- MODULE PageReview -----------------------------
(***************************************************************************)
(* The review states of ADR-0004 for the pages of one document, without    *)
(* editors, snapshots or gates: what a page delivers changes only while    *)
(* the page is pending, a human approves, excludes and reopens it, and a   *)
(* new version keeps a review together with what was reviewed or starts    *)
(* over.                                                                   *)
(***************************************************************************)
EXTENDS Naturals

CONSTANT Pages

VARIABLES
    version,    \* current version of the document
    status,     \* page -> review status of its current page version
    content     \* page -> what the page would deliver, repeated footers aside

vars == <<version, status, content>>

Statuses == {"pending", "approved", "excluded"}

Init ==
    /\ version = 1
    /\ status = [p \in Pages |-> "pending"]

Edit(p) ==
    /\ status[p] = "pending"
    /\ \A q \in Pages \ {p} : content'[q] = content[q]
    /\ UNCHANGED <<version, status>>

Approve(p) ==
    /\ status[p] = "pending"
    /\ status' = [status EXCEPT ![p] = "approved"]
    /\ UNCHANGED <<version, content>>

Exclude(p) ==
    /\ status[p] = "pending"
    /\ status' = [status EXCEPT ![p] = "excluded"]
    /\ UNCHANGED <<version, content>>

Reopen(p) ==
    /\ status[p] # "pending"
    /\ status' = [status EXCEPT ![p] = "pending"]
    /\ UNCHANGED <<version, content>>

\* Unchanged pages inherit their review and what was reviewed.
NewVersion ==
    /\ version' = version + 1
    /\ status' \in [Pages -> Statuses]
    /\ \A p \in Pages : status'[p] # "pending" =>
        status'[p] = status[p] /\ content'[p] = content[p]

Next ==
    \/ \E p \in Pages : Edit(p) \/ Approve(p) \/ Exclude(p) \/ Reopen(p)
    \/ NewVersion

Spec == Init /\ [][Next]_vars
=============================================================================
