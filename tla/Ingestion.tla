------------------------------ MODULE Ingestion ------------------------------
(***************************************************************************)
(* The ingestion core of PPTExtract: documents, their versions, the one    *)
(* document.ingest job of every version, the worker processes that claim   *)
(* jobs under a lease, and the API commands that race with them.           *)
(*                                                                         *)
(* Every write of the program is one `BEGIN IMMEDIATE` transaction         *)
(* (db.transaction), so every action below is one committed transaction.   *)
(* What a process remembers between two of its transactions is in `claim`; *)
(* it may be arbitrarily stale when the next transaction starts.           *)
(*                                                                         *)
(* Abstractions.  A job and its version are created together and share an  *)
(* identity, so a job is indexed by its version.  lease_token is fresh at  *)
(* every claim, and every claim increments attempts, so "the row still     *)
(* carries my token" is "the row is running at my attempt".  Commands      *)
(* carry fresh idempotency keys: a redelivered command only reads its      *)
(* recorded answer, and so do the coalesced and no_change answers of an    *)
(* upload; none of them changes the state kept here.                       *)
(***************************************************************************)
EXTENDS Naturals, FiniteSets

CONSTANTS
    Documents,      \* document identities
    Versions,       \* version (and job) identities; bounds the history
    Workers,        \* worker processes; two stand for a hung one and its successor
    None,           \* NULL
    MaxAttempts,    \* jobs.max_attempts
    Steps           \* recorded stage results a version needs before it can activate

ASSUME IngestionAssumption ==
    /\ None \notin Documents
    /\ None \notin Versions
    /\ MaxAttempts \in Nat \ {0}
    /\ Steps \in Nat

VARIABLES
    document,       \* documents row: "absent", "active" or "deleted" (deleted_at)
    current,        \* documents.current_version_id
    owner,          \* document_versions.document_id
    status,         \* document_versions.status
    readyAt,        \* document_versions.ready_at as a rank, 0 while NULL
    activations,    \* the rank the latest activation got
    job,            \* jobs.status of the version's document.ingest job
    attempts,       \* jobs.attempts
    timer,          \* lease_expires_at / next_attempt_at of the job, as seen now
    recorded,       \* stage results persisted in ingestion_page_results
    claim           \* per worker: the ClaimedJob it works on, in memory

domainVars == <<document, current, owner, status, readyAt, activations>>
jobVars == <<job, attempts, timer, recorded>>
vars == <<domainVars, jobVars, claim>>

Idle == [version |-> None, attempt |-> 0, step |-> 0]

\* Mutant: a paused job is not thought of as active.
JobUnfinished == {"queued", "running"}
JobActive == {"queued", "running", "requires_action"}

TypeOK ==
    /\ document \in [Documents -> {"absent", "active", "deleted"}]
    /\ current \in [Documents -> Versions \cup {None}]
    /\ owner \in [Versions -> Documents \cup {None}]
    /\ status \in [Versions -> {"absent", "processing", "awaiting_mapping",
                                "ready", "failed", "voided"}]
    /\ readyAt \in [Versions -> Nat]
    /\ activations \in Nat
    /\ job \in [Versions -> JobActive \cup {"absent", "succeeded", "failed", "cancelled"}]
    /\ attempts \in [Versions -> 0..MaxAttempts]
    /\ timer \in [Versions -> {"none", "lease", "lapsed", "backoff"}]
    /\ recorded \in [Versions -> 0..Steps]
    /\ claim \in [Workers -> [version : Versions \cup {None},
                              attempt : 0..MaxAttempts, step : 0..Steps]]

-----------------------------------------------------------------------------
(* Queries the transactions make. *)

VersionsOf(d) == {v \in Versions : owner[v] = d}

\* Uploads look for an active version, retry and rollback for an active job.
\* Mutant: an upload overlooks the version that waits for its mapping.
HasProcessingVersion(d) == \E v \in VersionsOf(d) : status[v] = "processing"
HasActiveVersion(d) ==
    \E v \in VersionsOf(d) : status[v] \in {"processing", "awaiting_mapping"}
HasActiveJob(d) == \E v \in VersionsOf(d) : job[v] \in JobActive

Ready(d) == {v \in VersionsOf(d) : status[v] = "ready"}

\* ORDER BY ready_at DESC LIMIT 1, None when there is no row.
Latest(S) ==
    IF S = {} THEN {None}
    ELSE {v \in S : \A u \in S : readyAt[u] <= readyAt[v]}

\* The job row still carries this worker's owner and token.
Holds(w) ==
    /\ claim[w].version # None
    /\ job[claim[w].version] = "running"
    /\ attempts[claim[w].version] = claim[w].attempt

\* Mutant: the owner's name is compared, its token is not.
HoldsByName(w) ==
    /\ claim[w].version # None
    /\ job[claim[w].version] = "running"
    /\ timer[claim[w].version] = "lease"

\* ... and the lease has not expired at a clock read inside the transaction.
HoldsLive(w) == Holds(w) /\ timer[claim[w].version] = "lease"

Init ==
    /\ document = [d \in Documents |-> "absent"]
    /\ current = [d \in Documents |-> None]
    /\ owner = [v \in Versions |-> None]
    /\ status = [v \in Versions |-> "absent"]
    /\ readyAt = [v \in Versions |-> 0]
    /\ activations = 0
    /\ job = [v \in Versions |-> "absent"]
    /\ attempts = [v \in Versions |-> 0]
    /\ timer = [v \in Versions |-> "none"]
    /\ recorded = [v \in Versions |-> 0]
    /\ claim = [w \in Workers |-> Idle]

-----------------------------------------------------------------------------
(* API commands. *)

\* Insert the version row and its queued job.
CreateIngestion(d, v) ==
    /\ status[v] = "absent"
    /\ owner' = [owner EXCEPT ![v] = d]
    /\ status' = [status EXCEPT ![v] = "processing"]
    /\ job' = [job EXCEPT ![v] = "queued"]
    /\ UNCHANGED <<current, readyAt, activations, attempts, timer, recorded, claim>>

\* POST /documents.
AcceptFirstUpload(d, v) ==
    /\ document[d] = "absent"
    /\ document' = [document EXCEPT ![d] = "active"]
    /\ CreateIngestion(d, v)

\* POST /documents/{d}/versions, when it is neither coalesced, busy nor no_change.
AcceptDocumentVersion(d, v) ==
    /\ document[d] = "active"
    /\ ~HasActiveVersion(d)
    /\ CreateIngestion(d, v)
    /\ UNCHANGED document

\* POST .../versions/{source}/retry.
RetryFailedVersion(source, v) ==
    /\ document[owner[source]] = "active"
    /\ status[source] = "failed"
    /\ ~HasActiveJob(owner[source])
    /\ CreateIngestion(owner[source], v)
    /\ UNCHANGED document

\* POST .../versions/{source}/rollback.
RollbackToVersion(source, v) ==
    /\ document[owner[source]] = "active"
    /\ status[source] = "ready"
    /\ current[owner[source]] # source
    /\ ~HasActiveJob(owner[source])
    /\ CreateIngestion(owner[source], v)
    /\ UNCHANGED document

\* What a voided current version hands over to: the version that was ready last.
\* Mutant: the query loses its ORDER BY.
AnyReady(v) ==
    LET others == Ready(owner[v]) \ {v} IN IF others = {} THEN {None} ELSE others
Fallbacks(v) == Latest(Ready(owner[v]) \ {v})

\* POST .../versions/{v}/void.
VoidVersion(v) ==
    LET d == owner[v] IN
    /\ status[v] \in {"processing", "awaiting_mapping", "ready"}
    /\ document[d] = "active"
    /\ status' = [status EXCEPT ![v] = "voided"]
    /\ IF job[v] \in JobActive
       THEN /\ job' = [job EXCEPT ![v] = "cancelled"]
            /\ timer' = [timer EXCEPT ![v] = "none"]
       ELSE UNCHANGED <<job, timer>>
    /\ IF current[d] = v
       THEN \E f \in Fallbacks(v) : current' = [current EXCEPT ![d] = f]
       ELSE UNCHANGED current
    /\ UNCHANGED <<document, owner, readyAt, activations, attempts, recorded, claim>>

\* The ingestions a soft delete cancels: an awaiting_mapping version is not among them.
\* Mutant: it is.
UnfinishedOrPaused(d) == {v \in VersionsOf(d) : job[v] \in JobActive}
Unfinished(d) ==
    {v \in VersionsOf(d) : job[v] \in JobActive /\ status[v] = "processing"}

\* DELETE /documents/{d}.
SoftDeleteDocument(d) ==
    /\ document[d] = "active"
    /\ document' = [document EXCEPT ![d] = "deleted"]
    /\ LET cancelled == Unfinished(d) IN
       /\ job' = [v \in Versions |-> IF v \in cancelled THEN "cancelled" ELSE job[v]]
       /\ timer' = [v \in Versions |-> IF v \in cancelled THEN "none" ELSE timer[v]]
       /\ status' = [v \in Versions |-> IF v \in cancelled THEN "failed" ELSE status[v]]
    /\ UNCHANGED <<current, owner, readyAt, activations, attempts, recorded, claim>>

\* POST /documents/{d}/restore.
RestoreDocument(d) ==
    /\ document[d] = "deleted"
    /\ document' = [document EXCEPT ![d] = "active"]
    /\ UNCHANGED <<current, owner, status, readyAt, activations, jobVars, claim>>

\* The version becomes ready and its document's current version.
SwitchCurrent(v) ==
    /\ status' = [status EXCEPT ![v] = "ready"]
    /\ readyAt' = [readyAt EXCEPT ![v] = activations + 1]
    /\ activations' = activations + 1
    /\ current' = [current EXCEPT ![owner[v]] = v]
    /\ UNCHANGED <<document, owner>>

\* POST .../versions/{v}/page-mapping/confirm, every case decided.  The handler
\* reads the version and its job, never documents.deleted_at.
ConfirmPageMapping(v) ==
    /\ status[v] = "awaiting_mapping"
    /\ job[v] = "requires_action"
    /\ SwitchCurrent(v)
    /\ job' = [job EXCEPT ![v] = "succeeded"]
    /\ UNCHANGED <<attempts, timer, recorded, claim>>

-----------------------------------------------------------------------------
(* The queue and the workers. *)

\* Time passes: a lease expires, or the backoff of a requeued job is over.
TimerFires(v) ==
    /\ timer[v] \in {"lease", "backoff"}
    /\ timer' = [timer EXCEPT ![v] = IF @ = "lease" THEN "lapsed" ELSE "none"]
    /\ UNCHANGED <<domainVars, job, attempts, recorded, claim>>

\* Mutant: one attempt too late.
ExhaustedLate ==
    {v \in Versions : /\ job[v] = "running"
                      /\ attempts[v] > MaxAttempts
                      /\ timer[v] = "lapsed"}
Exhausted ==
    {v \in Versions : /\ job[v] = "running"
                      /\ attempts[v] >= MaxAttempts
                      /\ timer[v] = "lapsed"}

\* Mutant: the attempts are not counted.
ClaimableForEver ==
    {v \in Versions : \/ job[v] = "queued" /\ timer[v] = "none"
                      \/ job[v] = "running" /\ timer[v] = "lapsed"}
Claimable ==
    {v \in Versions : /\ attempts[v] < MaxAttempts
                      /\ \/ job[v] = "queued" /\ timer[v] = "none"
                         \/ job[v] = "running" /\ timer[v] = "lapsed"}

\* A claim counts an attempt and issues a fresh token.
NextAttempt(u) == attempts[u] + 1

\* claim_next_job: fail every exhausted expired job, then take a claimable one.
ClaimNextJob(w) ==
    /\ claim[w].version = None
    /\ status' = [v \in Versions |-> IF v \in Exhausted /\ status[v] = "processing"
                                     THEN "failed" ELSE status[v]]
    /\ \/ /\ Claimable = {}
          /\ Exhausted # {}
          /\ job' = [v \in Versions |-> IF v \in Exhausted THEN "failed" ELSE job[v]]
          /\ timer' = [v \in Versions |-> IF v \in Exhausted THEN "none" ELSE timer[v]]
          /\ UNCHANGED <<attempts, claim>>
       \/ \E u \in Claimable :
          /\ job' = [v \in Versions |-> IF v = u THEN "running"
                                        ELSE IF v \in Exhausted THEN "failed" ELSE job[v]]
          /\ timer' = [v \in Versions |-> IF v = u THEN "lease"
                                          ELSE IF v \in Exhausted THEN "none" ELSE timer[v]]
          /\ attempts' = [attempts EXCEPT ![u] = NextAttempt(u)]
          /\ claim' = [claim EXCEPT ![w] =
                          [version |-> u, attempt |-> NextAttempt(u), step |-> 0]]
    /\ UNCHANGED <<document, current, owner, readyAt, activations, recorded>>

\* One stage result (conversion, render, fingerprint of a page) is written under
\* _assert_job_lease, or found recorded by an earlier attempt and reused.
\* Mutant: the lease is not asserted.
RecordLate(w) ==
    LET v == claim[w].version IN
    /\ v # None
    /\ claim[w].step < Steps
    /\ recorded[v] = claim[w].step
    /\ recorded' = [recorded EXCEPT ![v] = @ + 1]
    /\ UNCHANGED <<domainVars, job, attempts, timer, claim>>
RecordResult(w) ==
    LET v == claim[w].version IN
    /\ HoldsLive(w)
    /\ claim[w].step < Steps
    /\ recorded[v] = claim[w].step
    /\ recorded' = [recorded EXCEPT ![v] = @ + 1]
    /\ UNCHANGED <<domainVars, job, attempts, timer, claim>>

\* _checkpoint renews the lease.  Its `now` is read before the transaction waits
\* for the write lock, so an expired lease nobody reclaimed may still be renewed.
Checkpoint(w) ==
    LET v == claim[w].version IN
    /\ Holds(w)
    /\ claim[w].step < recorded[v]
    /\ timer' = [timer EXCEPT ![v] = "lease"]
    /\ claim' = [claim EXCEPT ![w].step = @ + 1]
    /\ UNCHANGED <<domainVars, job, attempts, recorded>>

\* _activate_first_version, mapping plan without cases.
ActivateVersion(w) ==
    LET v == claim[w].version IN
    /\ HoldsLive(w)
    /\ claim[w].step = Steps
    /\ status[v] = "processing"
    /\ SwitchCurrent(v)
    /\ job' = [job EXCEPT ![v] = "succeeded"]
    /\ timer' = [timer EXCEPT ![v] = "none"]
    /\ claim' = [claim EXCEPT ![w] = Idle]
    /\ UNCHANGED <<attempts, recorded>>

\* _activate_first_version, ambiguous plan: a case needs a page of a ready version.
PauseForMapping(w) ==
    LET v == claim[w].version IN
    /\ HoldsLive(w)
    /\ claim[w].step = Steps
    /\ status[v] = "processing"
    /\ Ready(owner[v]) # {}
    /\ status' = [status EXCEPT ![v] = "awaiting_mapping"]
    /\ job' = [job EXCEPT ![v] = "requires_action"]
    /\ timer' = [timer EXCEPT ![v] = "none"]
    /\ claim' = [claim EXCEPT ![w] = Idle]
    /\ UNCHANGED <<document, current, owner, readyAt, activations, attempts, recorded>>

\* fail_ingestion_job after an error of a stage.  A retryable error requeues the
\* job with a backoff while attempts are left; `now` is read before the lock.
FailIngestionJob(w) ==
    LET v == claim[w].version IN
    /\ Holds(w)
    /\ claim' = [claim EXCEPT ![w] = Idle]
    /\ \/ /\ claim[w].attempt < MaxAttempts
          /\ job' = [job EXCEPT ![v] = "queued"]
          /\ timer' = [timer EXCEPT ![v] = "backoff"]
          /\ UNCHANGED status
       \/ /\ job' = [job EXCEPT ![v] = "failed"]
          /\ timer' = [timer EXCEPT ![v] = "none"]
          /\ status' = [status EXCEPT ![v] = IF @ = "processing" THEN "failed" ELSE @]
    /\ UNCHANGED <<document, current, owner, readyAt, activations, attempts, recorded>>

\* A transaction of the worker finds the lease gone; fail_ingestion_job's own
\* guarded UPDATE then matches no row either, and the worker moves on.
AbandonJob(w) ==
    /\ claim[w].version # None
    /\ ~HoldsLive(w)
    /\ claim' = [claim EXCEPT ![w] = Idle]
    /\ UNCHANGED <<domainVars, jobVars>>

\* The process dies, or the recovery gate closes under it: the row stays running.
Crash(w) ==
    /\ claim[w].version # None
    /\ claim' = [claim EXCEPT ![w] = Idle]
    /\ UNCHANGED <<domainVars, jobVars>>

-----------------------------------------------------------------------------
Command ==
    \/ \E d \in Documents, v \in Versions :
          AcceptFirstUpload(d, v) \/ AcceptDocumentVersion(d, v)
    \/ \E s \in Versions, v \in Versions :
          s # v /\ owner[s] # None /\ (RetryFailedVersion(s, v) \/ RollbackToVersion(s, v))
    \/ \E v \in Versions : VoidVersion(v) \/ ConfirmPageMapping(v)
    \/ \E d \in Documents : SoftDeleteDocument(d) \/ RestoreDocument(d)

Work(w) == RecordResult(w) \/ Checkpoint(w) \/ ActivateVersion(w) \/ PauseForMapping(w)
           \/ AbandonJob(w)

Next ==
    \/ Command
    \/ \E v \in Versions : TimerFires(v)
    \/ \E w \in Workers : ClaimNextJob(w) \/ Work(w) \/ FailIngestionJob(w) \/ Crash(w)

Spec == Init /\ [][Next]_vars

\* Time passes, and the worker loop keeps polling and executing what it claimed.
\* Nothing is assumed of users, of failures or of crashes.
Fairness ==
    /\ \A v \in Versions : WF_vars(TimerFires(v))
    /\ \A w \in Workers : WF_vars(ClaimNextJob(w)) /\ WF_vars(Work(w))

FairSpec == Spec /\ Fairness

-----------------------------------------------------------------------------
(* Safety. *)

\* The version and its job tell the same story.  They are updated by a dozen
\* transactions of two processes; a row of one left behind by the other would
\* block the document (busy for ever) or let it be ingested twice.
JobMatchesVersion ==
    \A v \in Versions :
        /\ status[v] = "absent" <=> job[v] = "absent"
        /\ status[v] = "absent" <=> owner[v] = None
        /\ status[v] = "processing" <=> job[v] \in {"queued", "running"}
        /\ status[v] = "awaiting_mapping" <=> job[v] = "requires_action"
        /\ status[v] = "ready" => job[v] = "succeeded"
        /\ status[v] = "failed" => job[v] \in {"failed", "cancelled"}
        /\ timer[v] # "none" => job[v] \in {"queued", "running"}
        /\ timer[v] \in {"lease", "lapsed"} <=> job[v] = "running"

\* A document never has two active ingestion jobs: the commands' own checks (some
\* look at versions, some at jobs) never run into the unique index
\* one_active_ingestion_job_per_document.
OneActiveIngestionPerDocument ==
    \A u, v \in Versions :
        /\ job[u] \in JobActive
        /\ job[v] \in JobActive
        /\ owner[u] = owner[v]
        => u = v

\* The current version of a document is its ready version that became ready last,
\* whatever activations, confirmations, voids and rollbacks came before; without
\* ready versions there is none (ADR-0004, current version).
CurrentIsLatestReady ==
    \A d \in Documents : current[d] \in Latest(Ready(d))

\* A version leaves processing for activation or mapping only with every stage
\* result recorded, although attempts crash, lapse and overlap.
ActivatedIsComplete ==
    \A v \in Versions :
        status[v] \in {"awaiting_mapping", "ready"} => recorded[v] = Steps

\* No job is queued or running for a document that is soft-deleted.
DeletedDocumentIsQuiet ==
    \A v \in Versions :
        job[v] \in {"queued", "running"} => document[owner[v]] = "active"

\* Two workers never both carry the token the job row has: a token is issued once.
OneLeaseHolder ==
    \A w, x \in Workers :
        Holds(w) /\ Holds(x) /\ claim[w].version = claim[x].version => w = x

\* A worker whose lease was taken over, cancelled or finished changes nothing but
\* its own memory: no late activation or failure gets through, and a page result is
\* written while one worker alone holds the job, by that one: it is the next that this
\* worker needs.
StaleClaimIsHarmless ==
    [][/\ \A w \in Workers :
            claim[w].version # None /\ ~Holds(w) /\ claim'[w] # claim[w]
            => UNCHANGED <<domainVars, jobVars>>
       /\ \A v \in Versions : recorded'[v] # recorded[v] =>
            \E w \in Workers :
                /\ {x \in Workers : Holds(x) /\ claim[x].version = v} = {w}
                /\ timer[v] = "lease"
                /\ claim[w].step = recorded[v]
                /\ recorded'[v] = recorded[v] + 1]_vars

\* The versions live the life ADR-0004 draws: Ingestion implements VersionLifecycle.
Lifecycle == INSTANCE VersionLifecycle
ImplementsVersionLifecycle == Lifecycle!Spec

\* While a document is soft-deleted its current version stays what it was
\* (ADR-0004: the current version is kept, restoring brings the original back).
DeletedKeepsCurrent ==
    [][\A d \in Documents :
          document[d] = "deleted" => current'[d] = current[d]]_vars

(* Liveness. *)

\* An ingestion never hangs: whatever crashes and lapses, processing ends.
ProcessingEnds ==
    \A v \in Versions : status[v] = "processing" ~> status[v] # "processing"
=============================================================================
