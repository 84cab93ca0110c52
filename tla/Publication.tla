----------------------------- MODULE Publication -----------------------------
(***************************************************************************)
(* Publication: a candidate describes the business state, a confirmation   *)
(* freezes it and queues a job, a worker builds the archive and switches   *)
(* the pointer to it, failed jobs are retried, replaced archives expire,   *)
(* and a downstream system follows the pointer.                            *)
(*                                                                         *)
(* Every action is one BEGIN IMMEDIATE transaction or one request of the   *)
(* downstream system.  All job rows of a candidate but the last are failed *)
(* for good, so `job` holds the last one and how many there were.          *)
(***************************************************************************)
EXTENDS Naturals, FiniteSets

CONSTANTS
    Candidates,     \* candidate identities; bounds the history
    Workers,        \* worker processes
    States,         \* business states, as business_state_token tells them apart
    Content,        \* the content set of each state, None while preflight fails
    None,
    MaxAttempts,    \* jobs.max_attempts
    MaxRuns,        \* bound on the jobs of one candidate
    Phases          \* checkpoints of a job before it switches the pointer

ASSUME PublicationAssumption ==
    /\ None \notin Candidates
    /\ MaxAttempts \in Nat \ {0}
    /\ MaxRuns \in Nat \ {0}
    /\ Phases \in Nat \ {0}
    /\ DOMAIN Content = States

VARIABLES
    business,       \* the business state now
    candidate,      \* publication_candidates: [status, state, seq]
    nextSeq,        \* publication_sequences.next_value
    job,            \* the last publication.build job: [status, run, attempts, timer]
    artifact,       \* publication_artifacts: how far its retention has come
    current,        \* current_publication, None before the first
    claim,          \* per worker: the ClaimedJob it works on, in memory
    follower        \* DownstreamSimulator: [generation, pending]

jobVars == <<candidate, nextSeq, job>>
pointerVars == <<artifact, current>>
vars == <<business, jobVars, pointerVars, claim, follower>>

NoJob == [status |-> "none", run |-> 0, attempts |-> 0, timer |-> "none"]
Idle == [candidate |-> None, run |-> 0, attempt |-> 0, phase |-> 0]

Active == {c \in Candidates : job[c].status \in {"queued", "running"}}
Published == {c \in Candidates : artifact[c] # "absent"}
Seq(c) == IF c = None THEN 0 ELSE candidate[c].seq

Init ==
    /\ business \in States
    /\ candidate = [c \in Candidates |-> [status |-> "absent", state |-> None, seq |-> 0]]
    /\ nextSeq = 1
    /\ job = [c \in Candidates |-> NoJob]
    /\ artifact = [c \in Candidates |-> "absent"]
    /\ current = None
    /\ claim = [w \in Workers |-> Idle]
    /\ follower = [generation |-> None, pending |-> None]

-----------------------------------------------------------------------------
(* Commands. *)

\* Curation, ingestion and deletions change the business state, or change it back.
ChangeBusiness(s) ==
    /\ s # business
    /\ business' = s
    /\ UNCHANGED <<jobVars, pointerVars, claim, follower>>

CreateCandidate(c) ==
    /\ candidate[c].status = "absent"
    /\ Content[business] # None
    /\ candidate' = [candidate EXCEPT ![c] = [status |-> "ready", state |-> business, seq |-> 0]]
    /\ UNCHANGED <<business, nextSeq, job, pointerVars, claim, follower>>

\* The business state has moved on since the candidate was created.
\* Mutant: only the content is compared with what was shown to the human.
ContentMoved(c) == Content[candidate[c].state] # Content[business]
Stale(c) == candidate[c].state # business

Busy == Active # {}

\* A fresh job row for the candidate.
Enqueue(c) ==
    job' = [job EXCEPT ![c] = [status |-> "queued", run |-> @.run + 1,
                               attempts |-> 0, timer |-> "none"]]

\* Confirming a candidate: it is stale, it changes nothing, or it is frozen, gets the
\* next sequence number and a job.  Anything else is an error that changes nothing.
ConfirmCandidate(c) ==
    /\ candidate[c].status = "ready"
    /\ Content[business] # None
    /\ \/ /\ Stale(c)
          /\ candidate' = [candidate EXCEPT ![c].status = "stale"]
          /\ UNCHANGED <<nextSeq, job>>
       \/ /\ ~Stale(c) /\ ~Busy
          /\ current # None
          /\ Content[candidate[current].state] = Content[candidate[c].state]
          /\ candidate' = [candidate EXCEPT ![c].status = "no_change"]
          /\ UNCHANGED <<nextSeq, job>>
       \/ /\ ~Stale(c) /\ ~Busy
          /\ current # None => Content[candidate[current].state] # Content[candidate[c].state]
          /\ candidate' = [candidate EXCEPT ![c].status = "confirmed", ![c].seq = nextSeq]
          /\ nextSeq' = nextSeq + 1
          /\ Enqueue(c)
    /\ UNCHANGED <<business, pointerVars, claim, follower>>

\* A newer release is out already.
\* Mutant: the sequence numbers are not compared.
NeverSuperseded(c) == FALSE
Superseded(c) == Seq(current) > Seq(c)

RetryPublicationJob(c) ==
    /\ job[c].status = "failed"
    /\ job[c].run < MaxRuns
    /\ candidate[c].status # "succeeded"
    /\ c \notin Published
    /\ ~Superseded(c)
    /\ ~Busy
    /\ Enqueue(c)
    /\ candidate' = [candidate EXCEPT ![c].status = "confirmed"]
    /\ UNCHANGED <<business, nextSeq, pointerVars, claim, follower>>

-----------------------------------------------------------------------------
(* The worker. *)

\* The job row still carries this worker's owner and token.
\* Mutant: the row is found by its job_id alone.
HoldsById(w) == claim[w].candidate # None
Holds(w) ==
    LET c == claim[w].candidate IN
    /\ c # None
    /\ job[c].status = "running"
    /\ job[c].run = claim[w].run
    /\ job[c].attempts = claim[w].attempt

LeaseLapses(c) ==
    /\ job[c].timer = "lease"
    /\ job' = [job EXCEPT ![c].timer = "lapsed"]
    /\ UNCHANGED <<business, candidate, nextSeq, pointerVars, claim, follower>>

\* claim_next_job takes a queued job or one whose lease has lapsed ...
\* Mutant: a lapsed job is taken over whatever its attempts.
ClaimableAlways(c) ==
    \/ job[c].status = "queued"
    \/ job[c].status = "running" /\ job[c].timer = "lapsed"
Claimable(c) ==
    /\ job[c].attempts < MaxAttempts
    /\ \/ job[c].status = "queued"
       \/ job[c].status = "running" /\ job[c].timer = "lapsed"

ClaimNextJob(w, c) ==
    /\ claim[w] = Idle
    /\ Claimable(c)
    /\ job' = [job EXCEPT ![c] = [status |-> "running", run |-> @.run,
                                  attempts |-> @.attempts + 1, timer |-> "lease"]]
    /\ claim' = [claim EXCEPT ![w] = [candidate |-> c, run |-> job[c].run,
                                      attempt |-> job[c].attempts + 1, phase |-> 0]]
    /\ UNCHANGED <<business, candidate, nextSeq, pointerVars, follower>>

\* ... having failed one that has no attempt left; its candidate stays confirmed.
\* Mutant: one attempt too late.
OutOfAttemptsLate(c) == job[c].attempts > MaxAttempts
OutOfAttempts(c) == job[c].attempts >= MaxAttempts

FailExhaustedJob(w, c) ==
    /\ claim[w] = Idle
    /\ job[c].status = "running"
    /\ job[c].timer = "lapsed"
    /\ OutOfAttempts(c)
    /\ job' = [job EXCEPT ![c].status = "failed", ![c].timer = "none"]
    /\ UNCHANGED <<business, candidate, nextSeq, pointerVars, claim, follower>>

\* Build, validate and store the archive of the frozen input; every checkpoint renews
\* the lease.  Its `now` is read before the transaction waits for the write lock, so a
\* lapsed lease nobody took over may still be renewed, and so may a lapsed job be
\* failed below.  No artifact of the candidate exists while its job runs: the branch
\* that finds one and finishes early is never taken.
Checkpoint(w) ==
    /\ Holds(w)
    /\ claim[w].candidate \notin Published
    /\ claim[w].phase < Phases
    /\ job' = [job EXCEPT ![claim[w].candidate].timer = "lease"]
    /\ claim' = [claim EXCEPT ![w].phase = @ + 1]
    /\ UNCHANGED <<business, candidate, nextSeq, pointerVars, follower>>

\* The retention of replaced artifacts that ended by now.
Purged(kept) == [c \in Candidates |-> IF kept[c] = "expired" THEN "purged" ELSE kept[c]]

\* The release replaces the current one, unless that is newer.
\* Mutant: the replaced artifact is forgotten.
NotReplaced(c) == [artifact EXCEPT ![c] = "kept"]
Replaced(c) ==
    [artifact EXCEPT ![c] = "kept", ![IF current = None THEN c ELSE current] =
        IF current = None THEN "kept" ELSE "replaced"]

\* The last transaction: artifact, pointer, retention, candidate and job at once.  It
\* compares the token and not the time of the lease.
SwitchPointer(w) ==
    LET c == claim[w].candidate IN
    /\ Holds(w)
    /\ claim[w].phase = Phases
    /\ IF Seq(current) < Seq(c)
       THEN /\ artifact' = Purged(Replaced(c))
            /\ current' = c
       ELSE /\ artifact' = [artifact EXCEPT ![c] = "kept"]
            /\ UNCHANGED current
    /\ candidate' = [candidate EXCEPT ![c].status = "succeeded"]
    /\ job' = [job EXCEPT ![c].status = "succeeded", ![c].timer = "none"]
    /\ claim' = [claim EXCEPT ![w] = Idle]
    /\ UNCHANGED <<business, nextSeq, follower>>

FailPublicationJob(w) ==
    LET c == claim[w].candidate IN
    /\ Holds(w)
    /\ job' = [job EXCEPT ![c].status = "failed", ![c].timer = "none"]
    /\ candidate' = [candidate EXCEPT ![c].status = IF @ = "confirmed" THEN "failed" ELSE @]
    /\ claim' = [claim EXCEPT ![w] = Idle]
    /\ UNCHANGED <<business, nextSeq, pointerVars, follower>>

\* The worker finds its lease gone or lapsed and changes nothing; or it dies.
AbandonJob(w) ==
    /\ claim[w].candidate # None
    /\ Holds(w) => job[claim[w].candidate].timer # "lease"
    /\ claim' = [claim EXCEPT ![w] = Idle]
    /\ UNCHANGED <<business, jobVars, pointerVars, follower>>

Crash(w) ==
    /\ claim[w].candidate # None
    /\ claim' = [claim EXCEPT ![w] = Idle]
    /\ UNCHANGED <<business, jobVars, pointerVars, follower>>

-----------------------------------------------------------------------------
(* Retention: a replaced artifact stays public for a while, then internal. *)

RetentionPasses(c) ==
    /\ artifact[c] \in {"replaced", "withdrawn"}
    /\ artifact' = [artifact EXCEPT ![c] = IF @ = "replaced" THEN "withdrawn" ELSE "expired"]
    /\ UNCHANGED <<business, jobVars, current, claim, follower>>

PurgeExpired ==
    /\ \E c \in Candidates : artifact[c] = "expired"
    /\ artifact' = Purged(artifact)
    /\ UNCHANGED <<business, jobVars, current, claim, follower>>

-----------------------------------------------------------------------------
(* Downstream: read the pointer, download what it named, switch generations. *)

\* The ETag names the release, so a pointer that has not moved answers 304.
\* Mutant: no release may be skipped.
NextInLine == Seq(current) = Seq(follower.generation) + 1
Newer == Seq(current) > Seq(follower.generation)

ReadPointer ==
    /\ follower.pending = None
    /\ current # None
    /\ Newer
    /\ follower' = [follower EXCEPT !.pending = current]
    /\ UNCHANGED <<business, jobVars, pointerVars, claim>>

DownloadArtifact ==
    /\ follower.pending # None
    /\ artifact[follower.pending] \in {"kept", "replaced"}
    /\ follower' = [generation |-> follower.pending, pending |-> None]
    /\ UNCHANGED <<business, jobVars, pointerVars, claim>>

\* The artifact is gone, or the download or the import fails: nothing is switched.
SynchronizeFails ==
    /\ follower.pending # None
    /\ follower' = [follower EXCEPT !.pending = None]
    /\ UNCHANGED <<business, jobVars, pointerVars, claim>>

-----------------------------------------------------------------------------
Work(w) ==
    \/ \E c \in Candidates : ClaimNextJob(w, c) \/ FailExhaustedJob(w, c)
    \/ Checkpoint(w) \/ SwitchPointer(w) \/ AbandonJob(w)

Next ==
    \/ \E s \in States : ChangeBusiness(s)
    \/ \E c \in Candidates :
          \/ CreateCandidate(c) \/ ConfirmCandidate(c) \/ RetryPublicationJob(c)
          \/ LeaseLapses(c) \/ RetentionPasses(c)
    \/ PurgeExpired
    \/ \E w \in Workers : Work(w) \/ FailPublicationJob(w) \/ Crash(w)
    \/ ReadPointer \/ DownloadArtifact \/ SynchronizeFails

Spec == Init /\ [][Next]_vars

\* Time passes, the worker loop polls and executes, the downstream system polls, every
\* synchronisation ends, and not all of them fail.
Fairness ==
    /\ \A c \in Candidates : WF_vars(LeaseLapses(c))
    /\ \A w \in Workers : WF_vars(Work(w))
    /\ WF_vars(ReadPointer)
    /\ WF_vars(DownloadArtifact \/ SynchronizeFails)
    /\ SF_vars(DownloadArtifact)

FairSpec == Spec /\ Fairness

-----------------------------------------------------------------------------
TypeOK ==
    /\ business \in States
    /\ candidate \in [Candidates ->
            [status : {"absent", "ready", "stale", "confirmed", "no_change", "succeeded", "failed"},
             state : States \cup {None}, seq : Nat]]
    /\ nextSeq \in Nat \ {0}
    /\ job \in [Candidates ->
            [status : {"none", "queued", "running", "succeeded", "failed"},
             run : 0..MaxRuns, attempts : 0..MaxAttempts, timer : {"none", "lease", "lapsed"}]]
    /\ artifact \in [Candidates ->
            {"absent", "kept", "replaced", "withdrawn", "expired", "purged"}]
    /\ current \in Candidates \cup {None}
    /\ claim \in [Workers -> [candidate : Candidates \cup {None}, run : 0..MaxRuns,
                              attempt : 0..MaxAttempts, phase : 0..Phases]]
    /\ follower \in [generation : Candidates \cup {None}, pending : Candidates \cup {None}]

\* At most one publication is queued or running: confirmation and retry never run into
\* the unique index one_active_publication_job.
OneActivePublication == Cardinality(Active) <= 1

\* Candidate, job and artifact tell the same story, across retries, lapsed leases and
\* attempts that end late: an artifact exists exactly for the candidates whose last
\* job succeeded, and never while a job may still build it again.
CandidateMatchesJob ==
    \A c \in Candidates :
        /\ c \in Published <=> job[c].status = "succeeded"
        /\ c \in Published <=> candidate[c].status = "succeeded"
        /\ c \in Active => candidate[c].status = "confirmed"
        /\ candidate[c].status = "failed" => job[c].status = "failed"
        /\ candidate[c].status = "confirmed" => job[c].status \in {"queued", "running", "failed"}

\* The current release is the newest one and it is kept; every other one is on its way
\* out: no retry of an older candidate leaves two releases kept or none.
CurrentIsKept ==
    \A c \in Published :
        /\ c # current => artifact[c] # "kept" /\ Seq(c) < Seq(current)
        /\ c = current => artifact[c] = "kept"

\* A candidate is confirmed only as the business state it was shown for, and when it is
\* confirmed it is not what consumers have already.
ConfirmedAsShown ==
    [][\A c \in Candidates :
          candidate[c].status = "ready" /\ candidate'[c].status = "confirmed" =>
             /\ candidate[c].state = business
             /\ current # None => Content[candidate[current].state] # Content[business]]_vars

\* A job is ended by the attempt that has its lease, or, lapsed for the last time, by a
\* poll: never by an attempt that was taken over or of an earlier job of the candidate.
EndedByHolder ==
    [][\A c \in Candidates :
          job[c].status = "running" /\ job'[c].status # "running" =>
             \/ job[c].timer = "lapsed" /\ job[c].attempts = MaxAttempts
             \/ \E w \in Workers :
                   /\ claim[w].candidate = c
                   /\ claim[w].run = job[c].run
                   /\ claim[w].attempt = job[c].attempts
                   /\ claim'[w] = Idle]_vars

\* Consumers see a log of immutable, ever newer releases: Publication implements it.
Log == INSTANCE ReleaseLog WITH
    Contents <- {Content[s] : s \in States},
    releases <- {[seq |-> Seq(c), content |-> Content[candidate[c].state]] : c \in Published},
    latest <- Seq(current),
    followed <- Seq(follower.generation)
ImplementsReleaseLog == Log!Spec

\* A confirmed publication ends, whatever crashes and lapses.
PublicationEnds == \A c \in Candidates : c \in Active ~> c \notin Active

\* When publication comes to rest, the downstream system serves the current release.
FollowerCatchesUp ==
    \A c \in Candidates : <>[](current = c) => <>(follower.generation = c)
=============================================================================
