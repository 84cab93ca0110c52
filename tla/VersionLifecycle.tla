-------------------------- MODULE VersionLifecycle --------------------------
(***************************************************************************)
(* What ADR-0004 and the document_versions / documents tables promise      *)
(* about versions, with no worker, lease, attempt or API request in sight: *)
(* a version is processing once, may pause for a human page mapping,       *)
(* becomes ready at most once, and ends failed or voided for good; the     *)
(* current version of a document is always the ready version that became   *)
(* ready last.  Ingestion is shown to implement this module.               *)
(***************************************************************************)
EXTENDS Naturals

CONSTANTS
    Documents,      \* document identities
    Versions,       \* version identities
    None            \* "no document" / "no version"

VARIABLES
    status,         \* document_versions.status, "absent" before the INSERT
    owner,          \* document_versions.document_id
    readyAt,        \* document_versions.ready_at, 0 while NULL
    current,        \* documents.current_version_id
    activations     \* how many versions have become ready so far

vars == <<status, owner, readyAt, current, activations>>

Ready(d) == {v \in Versions : owner[v] = d /\ status[v] = "ready"}

\* The ready versions of a set that became ready last; None for the empty set.
Latest(S) ==
    IF S = {} THEN {None}
    ELSE {v \in S : \A u \in S : readyAt[u] <= readyAt[v]}

Init ==
    /\ status = [v \in Versions |-> "absent"]
    /\ owner = [v \in Versions |-> None]
    /\ readyAt = [v \in Versions |-> 0]
    /\ current = [d \in Documents |-> None]
    /\ activations = 0

\* A new version of d starts processing.  Versions never move to another document.
Accept(v, d) ==
    /\ status[v] = "absent"
    /\ status' = [status EXCEPT ![v] = "processing"]
    /\ owner' = [owner EXCEPT ![v] = d]
    /\ UNCHANGED <<readyAt, current, activations>>

\* The page correspondence is ambiguous: wait for a human.
Pause(v) ==
    /\ status[v] = "processing"
    /\ status' = [status EXCEPT ![v] = "awaiting_mapping"]
    /\ UNCHANGED <<owner, readyAt, current, activations>>

\* The version becomes ready and, in the same step, current.
Activate(v) ==
    /\ status[v] \in {"processing", "awaiting_mapping"}
    /\ status' = [status EXCEPT ![v] = "ready"]
    /\ readyAt' = [readyAt EXCEPT ![v] = activations + 1]
    /\ activations' = activations + 1
    /\ current' = [current EXCEPT ![owner[v]] = v]
    /\ UNCHANGED owner

\* Processing is given up for some versions at once.
Fail(S) ==
    /\ \A v \in S : status[v] = "processing"
    /\ status' = [v \in Versions |-> IF v \in S THEN "failed" ELSE status[v]]
    /\ UNCHANGED <<owner, readyAt, current, activations>>

\* A mistaken version is voided; the document falls back to the ready version
\* that became ready last, if there is one.
Void(v) ==
    /\ status[v] \in {"processing", "awaiting_mapping", "ready"}
    /\ status' = [status EXCEPT ![v] = "voided"]
    /\ IF current[owner[v]] = v
       THEN \E f \in Latest(Ready(owner[v]) \ {v}) :
                current' = [current EXCEPT ![owner[v]] = f]
       ELSE UNCHANGED current
    /\ UNCHANGED <<owner, readyAt, activations>>

Next ==
    \/ \E v \in Versions, d \in Documents : Accept(v, d)
    \/ \E v \in Versions : Pause(v) \/ Activate(v) \/ Void(v)
    \/ \E S \in SUBSET Versions : Fail(S)

Spec == Init /\ [][Next]_vars
=============================================================================
