-------------------------- MODULE PublicationProofs --------------------------
(***************************************************************************)
(* Proofs about Publication, for every set of candidates, workers and      *)
(* business states and every limit on attempts and retries.                *)
(***************************************************************************)
EXTENDS Publication, FiniteSetTheorems, TLAPS

OneIsActive == \A c, d \in Active : c = d

\* A candidate has a sequence number from its confirmation on, and keeps it to itself.
Sequenced ==
    \A c \in Candidates :
        /\ candidate[c].seq < nextSeq
        /\ job[c].status = "none" <=> candidate[c].seq = 0
        /\ job[c].status = "none" => job[c].run = 0
        /\ job[c].status = "none" <=> candidate[c].status \in {"absent", "ready", "stale", "no_change"}
        /\ candidate[c].status # "absent" => candidate[c].state \in States
        /\ \A d \in Candidates : candidate[c].seq = candidate[d].seq /\ candidate[c].seq # 0 => c = d

\* There is a current release as soon as there is a release.
CurrentIsRelease ==
    /\ current # None => artifact[current] # "absent"
    /\ current = None => \A c \in Candidates : artifact[c] = "absent"

\* What is being published is newer than all that is published.
Ahead ==
    \A c, d \in Candidates :
        c \in Active /\ artifact[d] # "absent" => candidate[d].seq < candidate[c].seq

\* The follower has and takes releases, the latter newer than the former.
FollowsReleases ==
    /\ follower.generation # None => artifact[follower.generation] # "absent"
    /\ follower.pending # None =>
         /\ artifact[follower.pending] # "absent"
         /\ Seq(follower.generation) < Seq(follower.pending)

\* The inductive invariant.
PubInv ==
    /\ TypeOK
    /\ OneIsActive
    /\ CandidateMatchesJob
    /\ CurrentIsKept
    /\ Sequenced
    /\ CurrentIsRelease
    /\ Ahead
    /\ FollowsReleases

-----------------------------------------------------------------------------
(* Type correctness. *)

Statuses == {"absent", "ready", "stale", "confirmed", "no_change", "succeeded", "failed"}
JobStatuses == {"none", "queued", "running", "succeeded", "failed"}
Retentions == {"absent", "kept", "replaced", "withdrawn", "expired", "purged"}
CandidateRows == [status : Statuses, state : States \cup {None}, seq : Nat]
JobRows == [status : JobStatuses, run : 0..MaxRuns, attempts : 0..MaxAttempts,
            timer : {"none", "lease", "lapsed"}]
Claims == [candidate : Candidates \cup {None}, run : 0..MaxRuns,
           attempt : 0..MaxAttempts, phase : 0..Phases]

LEMMA Types ==
    TypeOK <=>
        /\ business \in States /\ nextSeq \in Nat \ {0} /\ current \in Candidates \cup {None}
        /\ candidate \in [Candidates -> CandidateRows]
        /\ job \in [Candidates -> JobRows]
        /\ artifact \in [Candidates -> Retentions]
        /\ claim \in [Workers -> Claims]
        /\ follower \in [generation : Candidates \cup {None}, pending : Candidates \cup {None}]
  BY DEF TypeOK, CandidateRows, JobRows, Retentions, Claims, Statuses, JobStatuses

LEMMA TypesNext ==
    ASSUME business' \in States, nextSeq' \in Nat \ {0}, current' \in Candidates \cup {None},
           candidate' \in [Candidates -> CandidateRows],
           job' \in [Candidates -> JobRows],
           artifact' \in [Candidates -> Retentions],
           claim' \in [Workers -> Claims],
           follower' \in [generation : Candidates \cup {None}, pending : Candidates \cup {None}]
    PROVE  TypeOK'
  BY DEF TypeOK, CandidateRows, JobRows, Retentions, Claims, Statuses, JobStatuses

LEMMA IdleType == Idle \in Claims
  BY PublicationAssumption DEF Idle, Claims

LEMMA EnqueueType ==
    ASSUME TypeOK, NEW c \in Candidates, job[c].run < MaxRuns, Enqueue(c)
    PROVE  job' \in [Candidates -> JobRows]
<1>1. job \in [Candidates -> JobRows] /\ job[c].run \in 0..MaxRuns
  BY DEF TypeOK, JobRows, JobStatuses
<1>2. [status |-> "queued", run |-> job[c].run + 1, attempts |-> 0, timer |-> "none"] \in JobRows
  BY <1>1, PublicationAssumption DEF JobRows, JobStatuses
<1> QED
  BY <1>1, <1>2 DEF Enqueue

LEMMA PurgedType ==
    ASSUME NEW kept \in [Candidates -> Retentions]
    PROVE  Purged(kept) \in [Candidates -> Retentions]
  BY DEF Purged, Retentions

LEMMA ReplacedType ==
    ASSUME TypeOK, NEW c \in Candidates
    PROVE  Replaced(c) \in [Candidates -> Retentions]
<1>1. artifact \in [Candidates -> Retentions] /\ current \in Candidates \cup {None}
  BY DEF TypeOK, Retentions
<1> QED
  BY <1>1 DEF Replaced, Retentions

LEMMA HoldsType ==
    ASSUME TypeOK, NEW w \in Workers, Holds(w)
    PROVE  claim[w].candidate \in Candidates /\ claim[w].candidate \in Active
  BY DEF TypeOK, Holds, Active

LEMMA JobEnds ==
    ASSUME TypeOK, NEW c \in Candidates, NEW st \in JobStatuses
    PROVE  [job EXCEPT ![c].status = st, ![c].timer = "none"] \in [Candidates -> JobRows]
<1>1. job \in [Candidates -> JobRows]
  BY Types
<1> QED
  BY <1>1 DEF JobRows

LEMMA CandidateTurns ==
    ASSUME TypeOK, NEW c \in Candidates, NEW st \in Statuses
    PROVE  [candidate EXCEPT ![c].status = st] \in [Candidates -> CandidateRows]
<1>1. candidate \in [Candidates -> CandidateRows]
  BY Types
<1> QED
  BY <1>1 DEF CandidateRows

LEMMA CommandType ==
    ASSUME TypeOK, CandidateMatchesJob, Sequenced, NEW c \in Candidates,
           CreateCandidate(c) \/ ConfirmCandidate(c) \/ RetryPublicationJob(c)
    PROVE  TypeOK'
<1>0. /\ business \in States /\ nextSeq \in Nat \ {0} /\ current \in Candidates \cup {None}
      /\ candidate \in [Candidates -> CandidateRows] /\ job \in [Candidates -> JobRows]
      /\ artifact \in [Candidates -> Retentions] /\ claim \in [Workers -> Claims]
      /\ follower \in [generation : Candidates \cup {None}, pending : Candidates \cup {None}]
  BY Types
<1>1. CASE CreateCandidate(c)
  <2>1. candidate' \in [Candidates -> CandidateRows]
    BY <1>0, <1>1 DEF CreateCandidate, CandidateRows, Statuses
  <2> QED
    BY <1>0, <1>1, <2>1, TypesNext DEF CreateCandidate, pointerVars
<1>2. CASE ConfirmCandidate(c)
  <2>1. candidate' \in [Candidates -> CandidateRows] /\ nextSeq' \in Nat \ {0}
    BY <1>0, <1>2 DEF ConfirmCandidate, CandidateRows, Statuses
  <2>2. job' = job \/ Enqueue(c)
    BY <1>2 DEF ConfirmCandidate
  <2>3. candidate[c].status = "ready"
    BY <1>2 DEF ConfirmCandidate
  <2>4. ASSUME Enqueue(c) PROVE job' \in [Candidates -> JobRows]
    <3>1. job[c].run < MaxRuns
      BY <2>3, PublicationAssumption DEF Sequenced
    <3> QED
      BY <2>4, <3>1, EnqueueType
  <2> QED
    BY <1>0, <1>2, <2>1, <2>2, <2>4, TypesNext DEF ConfirmCandidate, pointerVars
<1>3. CASE RetryPublicationJob(c)
  <2>1. candidate' \in [Candidates -> CandidateRows]
    BY <1>0, <1>3 DEF RetryPublicationJob, CandidateRows, Statuses
  <2>2. job' \in [Candidates -> JobRows]
    BY <1>3, EnqueueType DEF RetryPublicationJob
  <2> QED
    BY <1>0, <1>3, <2>1, <2>2, TypesNext DEF RetryPublicationJob, pointerVars
<1> QED
  BY <1>1, <1>2, <1>3

LEMMA WorkerType ==
    ASSUME TypeOK, NEW w \in Workers, Work(w) \/ FailPublicationJob(w) \/ Crash(w)
    PROVE  TypeOK'
<1>0. /\ business \in States /\ nextSeq \in Nat \ {0} /\ current \in Candidates \cup {None}
      /\ candidate \in [Candidates -> CandidateRows] /\ job \in [Candidates -> JobRows]
      /\ artifact \in [Candidates -> Retentions] /\ claim \in [Workers -> Claims]
      /\ follower \in [generation : Candidates \cup {None}, pending : Candidates \cup {None}]
  BY Types
<1>1. ASSUME NEW c \in Candidates, ClaimNextJob(w, c) PROVE TypeOK'
  <2>1. /\ job[c].attempts \in 0..MaxAttempts /\ job[c].attempts < MaxAttempts
        /\ job[c].run \in 0..MaxRuns
    BY <1>0, <1>1 DEF ClaimNextJob, Claimable, JobRows
  <2>2. [status |-> "running", run |-> job[c].run, attempts |-> job[c].attempts + 1, timer |-> "lease"] \in JobRows
    BY <1>0, <2>1, PublicationAssumption DEF JobRows, JobStatuses
  <2>3. [candidate |-> c, run |-> job[c].run, attempt |-> job[c].attempts + 1, phase |-> 0] \in Claims
    BY <2>1, PublicationAssumption DEF Claims
  <2>4. job' \in [Candidates -> JobRows] /\ claim' \in [Workers -> Claims]
    BY <1>0, <1>1, <2>2, <2>3 DEF ClaimNextJob
  <2> QED
    BY <1>0, <1>1, <2>4, TypesNext DEF ClaimNextJob, pointerVars
<1>2. ASSUME NEW c \in Candidates, FailExhaustedJob(w, c) PROVE TypeOK'
  <2>1. job' \in [Candidates -> JobRows]
    BY <1>0, <1>2 DEF FailExhaustedJob, JobRows, JobStatuses
  <2> QED
    BY <1>0, <1>2, <2>1, TypesNext DEF FailExhaustedJob, pointerVars
<1>3. CASE Checkpoint(w)
  <2>1. job' \in [Candidates -> JobRows]
    BY <1>0, <1>3 DEF Checkpoint, JobRows, JobStatuses
  <2>2. claim' \in [Workers -> Claims]
    BY <1>0, <1>3, PublicationAssumption DEF Checkpoint, Claims
  <2> QED
    BY <1>0, <1>3, <2>1, <2>2, TypesNext DEF Checkpoint, pointerVars
<1>4. CASE SwitchPointer(w)
  <2>1. claim[w].candidate \in Candidates
    BY <1>4, HoldsType DEF SwitchPointer
  <2>2. job' \in [Candidates -> JobRows]
    BY <1>4, <2>1, JobEnds DEF SwitchPointer, JobStatuses
  <2>3. candidate' \in [Candidates -> CandidateRows]
    BY <1>4, <2>1, CandidateTurns DEF SwitchPointer, Statuses
  <2>4. claim' \in [Workers -> Claims] /\ UNCHANGED <<business, nextSeq, follower>>
    BY <1>0, <1>4, IdleType DEF SwitchPointer
  <2>5. artifact' \in [Candidates -> Retentions] /\ current' \in Candidates \cup {None}
    <3>1. CASE Seq(current) < Seq(claim[w].candidate)
      BY <1>4, <2>1, <3>1, ReplacedType, PurgedType DEF SwitchPointer
    <3>2. CASE ~(Seq(current) < Seq(claim[w].candidate))
      BY <1>0, <1>4, <3>2 DEF SwitchPointer, Retentions
    <3> QED
      BY <3>1, <3>2
  <2> QED
    BY <1>0, <2>2, <2>3, <2>4, <2>5, TypesNext
<1>5. CASE FailPublicationJob(w)
  <2>0. claim[w].candidate \in Candidates
    BY <1>5, HoldsType DEF FailPublicationJob
  <2>1. job' \in [Candidates -> JobRows]
    BY <1>5, <2>0, JobEnds DEF FailPublicationJob, JobStatuses
  <2>2. candidate' \in [Candidates -> CandidateRows]
    <3>1. candidate[claim[w].candidate].status \in Statuses
      BY <1>0, <2>0 DEF CandidateRows
    <3>2. (IF candidate[claim[w].candidate].status = "confirmed" THEN "failed"
           ELSE candidate[claim[w].candidate].status) \in Statuses
      BY <3>1 DEF Statuses
    <3> QED
      BY <1>5, <2>0, <3>2, CandidateTurns DEF FailPublicationJob
  <2>3. claim' \in [Workers -> Claims]
    BY <1>0, <1>5, IdleType DEF FailPublicationJob
  <2> QED
    BY <1>0, <1>5, <2>1, <2>2, <2>3, TypesNext DEF FailPublicationJob, pointerVars
<1>6. CASE AbandonJob(w) \/ Crash(w)
  <2>1. claim' \in [Workers -> Claims]
    BY <1>0, <1>6, IdleType DEF AbandonJob, Crash
  <2> QED
    BY <1>0, <1>6, <2>1, TypesNext DEF AbandonJob, Crash, jobVars, pointerVars
<1> QED
  BY <1>1, <1>2, <1>3, <1>4, <1>5, <1>6 DEF Work

LEMMA StepType ==
    ASSUME TypeOK, CandidateMatchesJob, Sequenced, [Next]_vars
    PROVE  TypeOK'
<1>0. /\ business \in States /\ nextSeq \in Nat \ {0} /\ current \in Candidates \cup {None}
      /\ candidate \in [Candidates -> CandidateRows] /\ job \in [Candidates -> JobRows]
      /\ artifact \in [Candidates -> Retentions] /\ claim \in [Workers -> Claims]
      /\ follower \in [generation : Candidates \cup {None}, pending : Candidates \cup {None}]
  BY Types
<1>1. ASSUME NEW s \in States, ChangeBusiness(s) PROVE TypeOK'
  BY <1>0, <1>1, TypesNext DEF ChangeBusiness, jobVars, pointerVars
<1>2. ASSUME NEW c \in Candidates, LeaseLapses(c) PROVE TypeOK'
  <2>1. job' \in [Candidates -> JobRows]
    BY <1>0, <1>2 DEF LeaseLapses, JobRows, JobStatuses
  <2> QED
    BY <1>0, <1>2, <2>1, TypesNext DEF LeaseLapses, pointerVars
<1>3. ASSUME NEW c \in Candidates, RetentionPasses(c) PROVE TypeOK'
  <2>1. artifact' \in [Candidates -> Retentions]
    BY <1>0, <1>3 DEF RetentionPasses, Retentions
  <2> QED
    BY <1>0, <1>3, <2>1, TypesNext DEF RetentionPasses, jobVars
<1>4. ASSUME PurgeExpired PROVE TypeOK'
  <2>1. artifact' \in [Candidates -> Retentions]
    BY <1>0, <1>4, PurgedType DEF PurgeExpired
  <2> QED
    BY <1>0, <1>4, <2>1, TypesNext DEF PurgeExpired, jobVars
<1>5. ASSUME ReadPointer \/ DownloadArtifact \/ SynchronizeFails PROVE TypeOK'
  <2>1. follower' \in [generation : Candidates \cup {None}, pending : Candidates \cup {None}]
    BY <1>0, <1>5 DEF ReadPointer, DownloadArtifact, SynchronizeFails
  <2> QED
    BY <1>0, <1>5, <2>1, TypesNext DEF ReadPointer, DownloadArtifact, SynchronizeFails, jobVars, pointerVars
<1>6. UNCHANGED vars => TypeOK'
  BY <1>0, TypesNext DEF vars, jobVars, pointerVars
<1> QED
  BY <1>1, <1>2, <1>3, <1>4, <1>5, <1>6, CommandType, WorkerType DEF Next

-----------------------------------------------------------------------------
(* The invariant, for the shapes that steps have. *)

LEMMA Rows ==
    ASSUME TypeOK
    PROVE  /\ nextSeq \in Nat \ {0}
           /\ current \in Candidates \cup {None} /\ None \notin Candidates
           /\ follower.generation \in Candidates \cup {None}
           /\ follower.pending \in Candidates \cup {None}
           /\ \A c \in Candidates :
                /\ candidate[c].seq \in Nat /\ candidate[c].status \in Statuses
                /\ job[c].status \in JobStatuses /\ artifact[c] \in Retentions
  BY Types, PublicationAssumption DEF CandidateRows, JobRows

\* Jobs run, queue and lapse, artifacts lose the public; nothing else happens.
LEMMA QuietKeeps ==
    ASSUME PubInv, TypeOK',
           UNCHANGED <<candidate, nextSeq, current, follower>>,
           \A c \in Candidates :
              /\ job'[c].run = job[c].run
              /\ \/ job'[c].status = job[c].status
                 \/ job[c].status \in {"queued", "running"} /\ job'[c].status \in {"queued", "running"}
              /\ artifact'[c] = "absent" <=> artifact[c] = "absent"
              /\ artifact'[c] = "kept" <=> artifact[c] = "kept"
    PROVE  PubInv'
<1>1. Active' = Active /\ Published' = Published
  BY DEF Active, Published
<1>2. \A c : Seq(c)' = Seq(c)
  BY DEF Seq
<1>3. OneIsActive' /\ CandidateMatchesJob'
  BY <1>1 DEF PubInv, OneIsActive, CandidateMatchesJob, Active
<1>4. CurrentIsKept'
  BY <1>1, <1>2 DEF PubInv, CurrentIsKept, Published
<1>5. Sequenced'
  BY DEF PubInv, Sequenced
<1>6. CurrentIsRelease' /\ Ahead' /\ FollowsReleases'
  BY <1>1, <1>2, Rows DEF PubInv, CurrentIsRelease, Ahead, FollowsReleases
<1> QED
  BY <1>3, <1>4, <1>5, <1>6 DEF PubInv

LEMMA FollowerKeeps ==
    ASSUME PubInv, TypeOK', UNCHANGED <<candidate, nextSeq, job, artifact, current>>, FollowsReleases'
    PROVE  PubInv'
<1>1. Active' = Active /\ Published' = Published /\ \A c : Seq(c)' = Seq(c)
  BY DEF Active, Published, Seq
<1> QED
  BY <1>1 DEF PubInv, OneIsActive, CandidateMatchesJob, CurrentIsKept, Sequenced, CurrentIsRelease, Ahead

\* Only candidate c changes its status, before it is confirmed.
LEMMA WaitingKeeps ==
    ASSUME PubInv, TypeOK', NEW c \in Candidates,
           UNCHANGED <<nextSeq, job, artifact, current, follower>>,
           candidate[c].status \in {"absent", "ready"},
           candidate'[c].status \in {"ready", "stale", "no_change"},
           candidate'[c].seq = candidate[c].seq, candidate'[c].state \in States,
           \A d \in Candidates \ {c} : candidate'[d] = candidate[d]
    PROVE  PubInv'
<1>1. Active' = Active /\ Published' = Published
  BY DEF Active, Published
<1>2. \A d \in Candidates : candidate'[d].seq = candidate[d].seq
  OBVIOUS
<1>3. \A d \in Candidates \cup {None} : Seq(d)' = Seq(d)
  BY <1>2 DEF Seq
<1>4. OneIsActive'
  BY <1>1 DEF PubInv, OneIsActive
<1>5. CandidateMatchesJob'
  BY <1>1 DEF PubInv, CandidateMatchesJob, Sequenced, Active
<1>6. CurrentIsKept'
  BY <1>1, <1>3, Rows DEF PubInv, CurrentIsKept, Published
<1>7. Sequenced'
  BY <1>2 DEF PubInv, Sequenced
<1>8. CurrentIsRelease' /\ Ahead'
  BY <1>1, <1>2 DEF PubInv, CurrentIsRelease, Ahead
<1>9. FollowsReleases'
  BY <1>3, Rows DEF PubInv, FollowsReleases
<1> QED
  BY <1>4, <1>5, <1>6, <1>7, <1>8, <1>9 DEF PubInv

\* Candidate c gets a job; it is confirmed now, or again.
LEMMA EnqueueKeeps ==
    ASSUME PubInv, TypeOK', NEW c \in Candidates, Active = {},
           UNCHANGED <<artifact, current, follower>>,
           job'[c].status = "queued", candidate'[c].status = "confirmed",
           candidate'[c].state = candidate[c].state,
           \A d \in Candidates \ {c} : job'[d] = job[d] /\ candidate'[d] = candidate[d],
           \/ /\ candidate[c].status = "ready" /\ candidate'[c].seq = nextSeq /\ nextSeq' = nextSeq + 1
           \/ /\ job[c].status = "failed" /\ ~Superseded(c)
              /\ candidate'[c].seq = candidate[c].seq /\ nextSeq' = nextSeq
    PROVE  PubInv'
<1>1. artifact[c] = "absent" /\ c # None /\ c # current
  BY Rows DEF PubInv, CandidateMatchesJob, Sequenced, Published, CurrentIsRelease
<1>2. Active' = {c} /\ Published' = Published
  BY DEF Active, Published
<1>3. \A d \in Candidates \ {c} : candidate'[d].seq = candidate[d].seq
  OBVIOUS
<1>4. \A d \in Published \cup {current, None} : d # c /\ Seq(d)' = Seq(d)
  BY <1>1, <1>3, Rows DEF PubInv, Seq, Published
<1>5. OneIsActive'
  BY <1>2 DEF OneIsActive
<1>6. CandidateMatchesJob'
  BY <1>1, <1>2 DEF PubInv, CandidateMatchesJob, Published, Active
<1>7. CurrentIsKept'
  BY <1>2, <1>4 DEF PubInv, CurrentIsKept
<1>8. Sequenced'
  <2>1. CASE candidate[c].status = "ready" /\ candidate'[c].seq = nextSeq /\ nextSeq' = nextSeq + 1
    BY <1>3, <2>1, Rows DEF PubInv, Sequenced
  <2>2. CASE job[c].status = "failed" /\ candidate'[c].seq = candidate[c].seq /\ nextSeq' = nextSeq
    BY <1>3, <2>2, Rows DEF PubInv, Sequenced
  <2> QED
    BY <2>1, <2>2
<1>9. CurrentIsRelease'
  BY DEF PubInv, CurrentIsRelease
<1>10. ASSUME NEW d \in Candidates, artifact[d] # "absent" PROVE candidate[d].seq < candidate'[c].seq
  <2>1. CASE candidate'[c].seq = nextSeq
    BY <2>1 DEF PubInv, Sequenced
  <2>2. CASE ~Superseded(c) /\ candidate'[c].seq = candidate[c].seq /\ job[c].status = "failed"
    <3>1. current # None /\ current \in Candidates
      BY <1>10, Rows DEF PubInv, CurrentIsRelease
    <3>2. candidate[d].seq <= candidate[current].seq
      BY <1>10, <3>1, Rows DEF PubInv, CurrentIsKept, Published, Seq
    <3>3. candidate[current].seq <= candidate[c].seq
      BY <1>1, <2>2, <3>1, Rows DEF Superseded, Seq, PubInv
    <3>4. candidate[current].seq # candidate[c].seq
      BY <1>1, <2>2, <3>1 DEF PubInv, Sequenced
    <3> QED
      BY <2>2, <3>1, <3>2, <3>3, <3>4, <1>10, Rows DEF PubInv
  <2> QED
    BY <2>1, <2>2
<1>11. Ahead'
  BY <1>1, <1>2, <1>3, <1>10 DEF Ahead
<1>12. FollowsReleases'
  <2>1. follower.generation # None => follower.generation \in Published
    BY Rows DEF PubInv, FollowsReleases, Published
  <2>2. follower.pending # None => follower.pending \in Published
    BY Rows DEF PubInv, FollowsReleases, Published
  <2> QED
    BY <1>4, <2>1, <2>2 DEF PubInv, FollowsReleases, Published
<1> QED
  BY <1>5, <1>6, <1>7, <1>8, <1>9, <1>11, <1>12 DEF PubInv

\* The job of c fails; its candidate may be told.
LEMMA FailKeeps ==
    ASSUME PubInv, TypeOK', NEW c \in Candidates, job[c].status \in {"queued", "running"},
           UNCHANGED <<nextSeq, artifact, current, follower>>,
           job'[c].status = "failed", candidate'[c].status \in {"confirmed", "failed"},
           candidate'[c].seq = candidate[c].seq, candidate'[c].state = candidate[c].state,
           \A d \in Candidates \ {c} : job'[d] = job[d] /\ candidate'[d] = candidate[d]
    PROVE  PubInv'
<1>1. Active' \subseteq Active /\ Published' = Published
  BY DEF Active, Published
<1>2. \A d \in Candidates : candidate'[d].seq = candidate[d].seq
  OBVIOUS
<1>3. \A d \in Candidates \cup {None} : Seq(d)' = Seq(d)
  BY <1>2 DEF Seq
<1>4. OneIsActive'
  BY <1>1 DEF PubInv, OneIsActive
<1>5. CandidateMatchesJob'
  BY DEF PubInv, CandidateMatchesJob, Published, Active
<1>6. CurrentIsKept'
  BY <1>1, <1>3, Rows DEF PubInv, CurrentIsKept, Published
<1>7. Sequenced'
  BY <1>2 DEF PubInv, Sequenced, CandidateMatchesJob, Active
<1>8. CurrentIsRelease' /\ Ahead'
  BY <1>1, <1>2 DEF PubInv, CurrentIsRelease, Ahead
<1>9. FollowsReleases'
  BY <1>3, Rows DEF PubInv, FollowsReleases
<1> QED
  BY <1>4, <1>5, <1>6, <1>7, <1>8, <1>9 DEF PubInv

\* Candidate c is released.
LEMMA ReleaseKeeps ==
    ASSUME PubInv, TypeOK', NEW c \in Candidates, job[c].status = "running",
           UNCHANGED <<nextSeq, follower>>, current' = c,
           job'[c].status = "succeeded", candidate'[c].status = "succeeded",
           candidate'[c].seq = candidate[c].seq, candidate'[c].state = candidate[c].state,
           \A d \in Candidates \ {c} : job'[d] = job[d] /\ candidate'[d] = candidate[d],
           artifact'[c] = "kept",
           \A d \in Candidates \ {c} :
              /\ artifact'[d] = "absent" <=> artifact[d] = "absent"
              /\ artifact'[d] # "kept"
    PROVE  PubInv'
<1>1. Active' = {} /\ c \in Active
  BY DEF PubInv, OneIsActive, Active
<1>2. \A d \in Candidates : candidate'[d].seq = candidate[d].seq
  OBVIOUS
<1>3. \A d \in Candidates \cup {None} : Seq(d)' = Seq(d)
  BY <1>2 DEF Seq
<1>4. OneIsActive' /\ Ahead'
  BY <1>1 DEF OneIsActive, Ahead
<1>5. CandidateMatchesJob'
  <2>1. \A d \in Candidates : d \in Published' <=> d \in Published \/ d = c
    BY DEF Published
  <2> QED
    BY <1>1, <2>1 DEF PubInv, CandidateMatchesJob
<1>6. CurrentIsKept'
  BY <1>1, <1>2, Rows DEF PubInv, CurrentIsKept, Ahead, Published, Seq
<1>7. Sequenced'
  BY <1>1, <1>2 DEF PubInv, Sequenced, CandidateMatchesJob
<1>8. CurrentIsRelease'
  BY Rows DEF PubInv, CurrentIsRelease
<1>9. FollowsReleases'
  BY <1>3, Rows DEF PubInv, FollowsReleases
<1> QED
  BY <1>4, <1>5, <1>6, <1>7, <1>8, <1>9 DEF PubInv

-----------------------------------------------------------------------------
(* Every step has one of these shapes. *)

LEMMA JobRun ==
    ASSUME TypeOK, NEW c \in Candidates, NEW st \in {"lease", "lapsed"},
           job' = [job EXCEPT ![c].timer = st]
    PROVE  \A d \in Candidates : job'[d].run = job[d].run /\ job'[d].status = job[d].status
<1>1. job \in [Candidates -> JobRows]
  BY Types
<1> QED
  BY <1>1 DEF JobRows

LEMMA StepCommand ==
    ASSUME PubInv, TypeOK', NEW c \in Candidates,
           CreateCandidate(c) \/ ConfirmCandidate(c) \/ RetryPublicationJob(c)
    PROVE  PubInv'
<1>0. /\ candidate \in [Candidates -> CandidateRows] /\ job \in [Candidates -> JobRows]
      /\ business \in States
  BY Types DEF PubInv
<1>1. CASE CreateCandidate(c)
  BY <1>0, <1>1, WaitingKeeps DEF CreateCandidate, pointerVars, PubInv, Sequenced
<1>2. CASE ConfirmCandidate(c)
  <2>0. candidate[c].status = "ready" /\ UNCHANGED <<artifact, current, follower>>
    BY <1>2 DEF ConfirmCandidate, pointerVars
  <2>1. ASSUME NEW st \in {"stale", "no_change"}, candidate' = [candidate EXCEPT ![c].status = st],
               UNCHANGED <<nextSeq, job>>
        PROVE  PubInv'
    <3>1. candidate'[c].status = st /\ candidate'[c].seq = candidate[c].seq
          /\ candidate'[c].state = candidate[c].state
          /\ \A d \in Candidates \ {c} : candidate'[d] = candidate[d]
      BY <1>0, <2>1 DEF CandidateRows
    <3>2. candidate[c].state \in States
      BY <2>0 DEF PubInv, Sequenced
    <3> QED
      BY <2>0, <2>1, <3>1, <3>2, WaitingKeeps
  <2>2. ASSUME ~Busy, candidate' = [candidate EXCEPT ![c].status = "confirmed", ![c].seq = nextSeq],
               nextSeq' = nextSeq + 1, Enqueue(c)
        PROVE  PubInv'
    <3>1. candidate'[c].status = "confirmed" /\ candidate'[c].seq = nextSeq
          /\ candidate'[c].state = candidate[c].state
          /\ \A d \in Candidates \ {c} : candidate'[d] = candidate[d]
      BY <1>0, <2>2 DEF CandidateRows
    <3>2. job'[c].status = "queued" /\ \A d \in Candidates \ {c} : job'[d] = job[d]
      BY <1>0, <2>2 DEF Enqueue
    <3> QED
      BY <2>0, <2>2, <3>1, <3>2, EnqueueKeeps DEF Busy
  <2> QED
    BY <1>2, <2>1, <2>2 DEF ConfirmCandidate
<1>3. CASE RetryPublicationJob(c)
  <2>1. candidate'[c].status = "confirmed" /\ candidate'[c].seq = candidate[c].seq
        /\ candidate'[c].state = candidate[c].state
        /\ \A d \in Candidates \ {c} : candidate'[d] = candidate[d]
    BY <1>0, <1>3 DEF RetryPublicationJob, CandidateRows
  <2>2. job'[c].status = "queued" /\ \A d \in Candidates \ {c} : job'[d] = job[d]
    BY <1>0, <1>3 DEF RetryPublicationJob, Enqueue
  <2> QED
    BY <1>3, <2>1, <2>2, EnqueueKeeps DEF RetryPublicationJob, Busy, pointerVars
<1> QED
  BY <1>1, <1>2, <1>3

\* The last transaction of a job always replaces the current release.
LEMMA SwitchReleases ==
    ASSUME PubInv, NEW w \in Workers, SwitchPointer(w)
    PROVE  LET c == claim[w].candidate IN
           /\ c \in Candidates /\ job[c].status = "running"
           /\ Seq(current) < Seq(c) /\ current # c
           /\ current' = c /\ artifact' = Purged(Replaced(c))
<1> DEFINE c == claim[w].candidate
<1>1. c \in Candidates /\ c \in Active /\ job[c].status = "running"
  BY HoldsType DEF SwitchPointer, PubInv, Holds
<1>2. candidate[c].seq \in Nat \ {0} /\ c # None
  BY <1>1, Rows DEF PubInv, Sequenced
<1>3. Seq(current) < Seq(c)
  <2>1. CASE current = None
    BY <1>2, <2>1 DEF Seq
  <2>2. CASE current # None
    BY <1>1, <1>2, <2>2, Rows DEF PubInv, CurrentIsRelease, Ahead, Seq
  <2> QED
    BY <2>1, <2>2
<1>4. current # c
  BY <1>2, <1>3 DEF Seq
<1> QED
  BY <1>1, <1>3, <1>4 DEF SwitchPointer

LEMMA ReplacedArtifacts ==
    ASSUME PubInv, NEW c \in Candidates, current # c, artifact' = Purged(Replaced(c))
    PROVE  /\ artifact'[c] = "kept"
           /\ \A d \in Candidates \ {c} :
                /\ artifact'[d] = "absent" <=> artifact[d] = "absent"
                /\ artifact'[d] # "kept"
<1>1. artifact \in [Candidates -> Retentions] /\ current \in Candidates \cup {None} /\ None \notin Candidates
  BY Types, PublicationAssumption DEF PubInv
<1>2. \A d \in Candidates \ {c} : d # current => artifact[d] # "kept"
  BY DEF PubInv, CurrentIsKept, Published
<1>3. current # None => artifact[current] # "absent"
  BY DEF PubInv, CurrentIsRelease
<1>4. Replaced(c)[c] = "kept"
  BY <1>1 DEF Replaced
<1>5. \A d \in Candidates \ {c} : Replaced(c)[d] = IF d = current THEN "replaced" ELSE artifact[d]
  BY <1>1 DEF Replaced
<1>6. \A d \in Candidates : artifact'[d] = IF Replaced(c)[d] = "expired" THEN "purged" ELSE Replaced(c)[d]
  BY DEF Purged
<1>7. artifact'[c] = "kept"
  BY <1>4, <1>6
<1>8. ASSUME NEW d \in Candidates \ {c}
      PROVE  (artifact'[d] = "absent" <=> artifact[d] = "absent") /\ artifact'[d] # "kept"
  <2>1. CASE d = current
    BY <1>3, <1>5, <1>6, <2>1, PublicationAssumption
  <2>2. CASE d # current
    BY <1>2, <1>5, <1>6, <2>2
  <2> QED
    BY <2>1, <2>2
<1> QED
  BY <1>7, <1>8

LEMMA StepWorker ==
    ASSUME PubInv, TypeOK', NEW w \in Workers, Work(w) \/ FailPublicationJob(w) \/ Crash(w)
    PROVE  PubInv'
<1>0. /\ candidate \in [Candidates -> CandidateRows] /\ job \in [Candidates -> JobRows]
  BY Types DEF PubInv
<1>1. ASSUME NEW c \in Candidates, ClaimNextJob(w, c) PROVE PubInv'
  <2>1. /\ job'[c].status = "running" /\ job'[c].run = job[c].run
        /\ job[c].status \in {"queued", "running"}
        /\ \A d \in Candidates \ {c} : job'[d] = job[d]
    BY <1>0, <1>1 DEF ClaimNextJob, Claimable
  <2> QED
    BY <1>1, <2>1, QuietKeeps DEF ClaimNextJob, pointerVars
<1>2. ASSUME NEW c \in Candidates, FailExhaustedJob(w, c) PROVE PubInv'
  <2>1. job'[c].status = "failed" /\ \A d \in Candidates \ {c} : job'[d] = job[d]
    BY <1>0, <1>2 DEF FailExhaustedJob, JobRows
  <2>2. candidate[c].status = "confirmed" /\ job[c].status = "running"
    BY <1>2 DEF FailExhaustedJob, PubInv, CandidateMatchesJob, Active
  <2> QED
    BY <1>2, <2>1, <2>2, FailKeeps DEF FailExhaustedJob, pointerVars
<1>3. CASE Checkpoint(w)
  <2>1. claim[w].candidate \in Candidates
    BY <1>3, HoldsType DEF Checkpoint, PubInv
  <2>2. \A d \in Candidates : job'[d].run = job[d].run /\ job'[d].status = job[d].status
    BY <1>3, <2>1, JobRun DEF Checkpoint, PubInv
  <2> QED
    BY <1>3, <2>2, QuietKeeps DEF Checkpoint, pointerVars
<1>4. CASE SwitchPointer(w)
  <2> DEFINE c == claim[w].candidate
  <2>1. /\ c \in Candidates /\ job[c].status = "running" /\ current # c
        /\ current' = c /\ artifact' = Purged(Replaced(c))
    BY <1>4, SwitchReleases
  <2>2. /\ job' = [job EXCEPT ![c].status = "succeeded", ![c].timer = "none"]
        /\ candidate' = [candidate EXCEPT ![c].status = "succeeded"]
        /\ UNCHANGED <<nextSeq, follower>>
    BY <1>4 DEF SwitchPointer
  <2> HIDE DEF c
  <2>3. job'[c].status = "succeeded" /\ \A d \in Candidates \ {c} : job'[d] = job[d]
    BY <1>0, <2>1, <2>2 DEF JobRows
  <2>4. /\ candidate'[c].status = "succeeded" /\ candidate'[c].seq = candidate[c].seq
        /\ candidate'[c].state = candidate[c].state
        /\ \A d \in Candidates \ {c} : candidate'[d] = candidate[d]
    BY <1>0, <2>1, <2>2 DEF CandidateRows
  <2> QED
    BY <2>1, <2>2, <2>3, <2>4, ReplacedArtifacts, ReleaseKeeps
<1>5. CASE FailPublicationJob(w)
  <2> DEFINE c == claim[w].candidate
  <2>1. c \in Candidates /\ job[c].status = "running" /\ candidate[c].status = "confirmed"
    BY <1>5, HoldsType DEF FailPublicationJob, Holds, PubInv, CandidateMatchesJob, Active
  <2>2. /\ job' = [job EXCEPT ![c].status = "failed", ![c].timer = "none"]
        /\ candidate' = [candidate EXCEPT ![c].status = "failed"]
        /\ UNCHANGED <<nextSeq, artifact, current, follower>>
    BY <1>5, <2>1 DEF FailPublicationJob, pointerVars
  <2> HIDE DEF c
  <2>3. job'[c].status = "failed" /\ \A d \in Candidates \ {c} : job'[d] = job[d]
    BY <1>0, <2>1, <2>2 DEF JobRows
  <2>4. /\ candidate'[c].status = "failed" /\ candidate'[c].seq = candidate[c].seq
        /\ candidate'[c].state = candidate[c].state
        /\ \A d \in Candidates \ {c} : candidate'[d] = candidate[d]
    BY <1>0, <2>1, <2>2 DEF CandidateRows
  <2> QED
    BY <2>1, <2>2, <2>3, <2>4, FailKeeps
<1>6. CASE AbandonJob(w) \/ Crash(w)
  BY <1>6, QuietKeeps DEF AbandonJob, Crash, jobVars, pointerVars
<1> QED
  BY <1>1, <1>2, <1>3, <1>4, <1>5, <1>6 DEF Work

LEMMA StepPubInv == PubInv /\ [Next]_vars => PubInv'
<1> SUFFICES ASSUME PubInv, [Next]_vars PROVE PubInv'
  OBVIOUS
<1>0. TypeOK'
  BY StepType DEF PubInv
<1>00. artifact \in [Candidates -> Retentions]
  BY Types DEF PubInv
<1>1. ASSUME NEW s \in States, ChangeBusiness(s) PROVE PubInv'
  BY <1>0, <1>1, QuietKeeps DEF ChangeBusiness, jobVars, pointerVars
<1>2. ASSUME NEW c \in Candidates, LeaseLapses(c) PROVE PubInv'
  <2>1. \A d \in Candidates : job'[d].run = job[d].run /\ job'[d].status = job[d].status
    BY <1>2, JobRun DEF LeaseLapses, PubInv
  <2> QED
    BY <1>0, <1>2, <2>1, QuietKeeps DEF LeaseLapses, pointerVars
<1>3. ASSUME NEW c \in Candidates, RetentionPasses(c) PROVE PubInv'
  <2>1. \A d \in Candidates : /\ artifact'[d] = "absent" <=> artifact[d] = "absent"
                              /\ artifact'[d] = "kept" <=> artifact[d] = "kept"
    BY <1>00, <1>3 DEF RetentionPasses
  <2> QED
    BY <1>0, <1>3, <2>1, QuietKeeps DEF RetentionPasses, jobVars
<1>4. ASSUME PurgeExpired PROVE PubInv'
  <2>1. \A d \in Candidates : /\ artifact'[d] = "absent" <=> artifact[d] = "absent"
                              /\ artifact'[d] = "kept" <=> artifact[d] = "kept"
    BY <1>4 DEF PurgeExpired, Purged
  <2> QED
    BY <1>0, <1>4, <2>1, QuietKeeps DEF PurgeExpired, jobVars
<1>5. ASSUME ReadPointer PROVE PubInv'
  <2>1. follower'.pending = current /\ follower'.generation = follower.generation
    BY <1>5, Types DEF ReadPointer, PubInv
  <2>2. FollowsReleases'
    BY <1>5, <2>1 DEF ReadPointer, Newer, PubInv, FollowsReleases, CurrentIsRelease, jobVars, pointerVars, Seq
  <2> QED
    BY <1>0, <1>5, <2>2, FollowerKeeps DEF ReadPointer, jobVars, pointerVars
<1>6. ASSUME DownloadArtifact PROVE PubInv'
  <2>1. FollowsReleases'
    BY <1>6 DEF DownloadArtifact, PubInv, FollowsReleases, pointerVars
  <2> QED
    BY <1>0, <1>6, <2>1, FollowerKeeps DEF DownloadArtifact, jobVars, pointerVars
<1>7. ASSUME SynchronizeFails PROVE PubInv'
  <2>1. follower'.pending = None /\ follower'.generation = follower.generation
    BY <1>7, Types DEF SynchronizeFails, PubInv
  <2>2. FollowsReleases'
    BY <1>7, <2>1 DEF SynchronizeFails, PubInv, FollowsReleases, pointerVars
  <2> QED
    BY <1>0, <1>7, <2>2, FollowerKeeps DEF SynchronizeFails, jobVars, pointerVars
<1>8. CASE UNCHANGED vars
  BY <1>0, <1>8, QuietKeeps DEF vars, jobVars, pointerVars
<1> QED
  BY <1>0, <1>1, <1>2, <1>3, <1>4, <1>5, <1>6, <1>7, <1>8, StepCommand, StepWorker DEF Next

LEMMA InitPubInv == Init => PubInv
<1> SUFFICES ASSUME Init PROVE PubInv
  OBVIOUS
<1>1. TypeOK
  BY PublicationAssumption DEF Init, TypeOK, NoJob, Idle
<1>2. Active = {} /\ Published = {}
  BY DEF Init, Active, Published, NoJob
<1>3. OneIsActive /\ CurrentIsKept /\ Ahead
  BY <1>2 DEF OneIsActive, CurrentIsKept, Ahead
<1>4. CandidateMatchesJob
  BY <1>2 DEF CandidateMatchesJob, Init, NoJob
<1>5. Sequenced /\ CurrentIsRelease /\ FollowsReleases
  BY DEF Sequenced, CurrentIsRelease, FollowsReleases, Init, NoJob
<1> QED
  BY <1>1, <1>3, <1>4, <1>5 DEF PubInv

LEMMA PubInductive == Spec => []PubInv
  BY InitPubInv, StepPubInv, PTL DEF Spec

-----------------------------------------------------------------------------
(* What holds of Publication. *)

\* Every variable keeps its type; attempts never pass their limit.
THEOREM TypeCorrect == Spec => []TypeOK
<1>1. PubInv => TypeOK
  BY DEF PubInv
<1> QED
  BY <1>1, PubInductive, PTL

\* At most one publication is queued or running.
THEOREM OneActive == Spec => []OneActivePublication
<1>1. PubInv => OneActivePublication
  <2> SUFFICES ASSUME PubInv PROVE OneActivePublication
    OBVIOUS
  <2>1. CASE Active = {}
    BY <2>1, FS_EmptySet DEF OneActivePublication
  <2>2. ASSUME NEW c \in Active PROVE OneActivePublication
    <3>1. Active = {c}
      BY <2>2 DEF PubInv, OneIsActive
    <3> QED
      BY <3>1, FS_Singleton DEF OneActivePublication
  <2> QED
    BY <2>1, <2>2
<1> QED
  BY <1>1, PubInductive, PTL

\* Candidate, job and artifact never disagree.
THEOREM CandidatesMatchJobs == Spec => []CandidateMatchesJob
<1>1. PubInv => CandidateMatchesJob
  BY DEF PubInv
<1> QED
  BY <1>1, PubInductive, PTL

\* The newest release is the current one and the only one kept.
THEOREM CurrentKept == Spec => []CurrentIsKept
<1>1. PubInv => CurrentIsKept
  BY DEF PubInv
<1> QED
  BY <1>1, PubInductive, PTL

\* A candidate is confirmed for the business state it was shown for, if that is news.
THEOREM Confirmed == Spec => ConfirmedAsShown
<1> DEFINE Shown ==
        \A c \in Candidates :
          candidate[c].status = "ready" /\ candidate'[c].status = "confirmed" =>
             /\ candidate[c].state = business
             /\ current # None => Content[candidate[current].state] # Content[business]
<1>0. ASSUME PubInv, NEW c \in Candidates, NEW d \in Candidates, c # d,
             CreateCandidate(d) \/ ConfirmCandidate(d) \/ RetryPublicationJob(d)
      PROVE  candidate'[c] = candidate[c]
  <2>1. candidate \in [Candidates -> CandidateRows]
    BY <1>0, Types DEF PubInv
  <2> QED
    BY <1>0, <2>1 DEF CreateCandidate, ConfirmCandidate, RetryPublicationJob
<1>1. ASSUME PubInv, NEW d \in Candidates, CreateCandidate(d) \/ ConfirmCandidate(d) \/ RetryPublicationJob(d)
      PROVE  Shown
  <2> SUFFICES ASSUME candidate[d].status = "ready", candidate'[d].status = "confirmed"
               PROVE  /\ candidate[d].state = business
                      /\ current # None => Content[candidate[current].state] # Content[business]
    BY <1>0, <1>1
  <2>1. candidate \in [Candidates -> CandidateRows]
    BY <1>1, Types DEF PubInv
  <2>2. ConfirmCandidate(d)
    BY <1>1 DEF CreateCandidate, RetryPublicationJob, PubInv, Sequenced
  <2>3. ASSUME NEW st \in {"stale", "no_change"}, candidate' = [candidate EXCEPT ![d].status = st] PROVE FALSE
    BY <2>1, <2>3 DEF CandidateRows
  <2> QED
    BY <2>2, <2>3 DEF ConfirmCandidate, Stale
<1>2. ASSUME PubInv, NEW w \in Workers, Work(w) \/ FailPublicationJob(w) \/ Crash(w) PROVE Shown
  <2>1. candidate \in [Candidates -> CandidateRows]
    BY <1>2, Types DEF PubInv
  <2>2. candidate' = candidate \/ \E c \in Candidates, st \in {"succeeded", "failed"} :
            candidate[c].status = "confirmed" /\ candidate' = [candidate EXCEPT ![c].status = st]
    BY <1>2, HoldsType DEF Work, ClaimNextJob, FailExhaustedJob, Checkpoint, SwitchPointer,
        AbandonJob, FailPublicationJob, Crash, jobVars, PubInv, CandidateMatchesJob
  <2> QED
    BY <2>1, <2>2 DEF CandidateRows
<1>3. ASSUME PubInv, [Next]_vars PROVE Shown
  <2>1. UNCHANGED candidate => Shown
    OBVIOUS
  <2> HIDE DEF Shown
  <2>2. CASE UNCHANGED vars
    BY <2>1, <2>2 DEF vars, jobVars
  <2>3. ASSUME NEW s \in States, ChangeBusiness(s) PROVE Shown
    BY <2>1, <2>3 DEF ChangeBusiness, jobVars
  <2>4. ASSUME NEW c \in Candidates, LeaseLapses(c) \/ RetentionPasses(c) PROVE Shown
    BY <2>1, <2>4 DEF LeaseLapses, RetentionPasses, jobVars
  <2>5. ASSUME PurgeExpired \/ ReadPointer \/ DownloadArtifact \/ SynchronizeFails PROVE Shown
    BY <2>1, <2>5 DEF PurgeExpired, ReadPointer, DownloadArtifact, SynchronizeFails, jobVars
  <2> QED
    BY <1>1, <1>2, <1>3, <2>2, <2>3, <2>4, <2>5 DEF Next
<1>4. PubInv /\ [Next]_vars => [Shown]_vars
  BY <1>3
<1> QED
  BY <1>4, PubInductive, PTL DEF Spec, ConfirmedAsShown

-----------------------------------------------------------------------------
(* Publication implements ReleaseLog. *)

Release(c) == [seq |-> Seq(c), content |-> Content[candidate[c].state]]
Releases == {Release(c) : c \in Published}

\* The consumers see nothing of a step.
SameLog ==
    /\ Published' = Published
    /\ \A c \in Published : candidate'[c].seq = candidate[c].seq /\ candidate'[c].state = candidate[c].state
    /\ current' = current
    /\ follower'.generation = follower.generation

LEMMA SameLogStutters ==
    ASSUME PubInv, SameLog
    PROVE  UNCHANGED <<Releases, Seq(current), Seq(follower.generation)>>
<1>1. \A c \in Published \cup {None} : Seq(c)' = Seq(c)
  BY DEF SameLog, Seq
<1>2. \A c \in Published : Release(c)' = Release(c)
  BY <1>1 DEF SameLog, Release
<1>3. Releases' = Releases
  BY <1>2 DEF SameLog, Releases
<1>4. current \in Published \cup {None} /\ follower.generation \in Published \cup {None}
  BY Rows DEF PubInv, CurrentIsRelease, FollowsReleases, Published
<1> QED
  BY <1>1, <1>3, <1>4 DEF SameLog

LEMMA CommandSameLog ==
    ASSUME PubInv, NEW c \in Candidates,
           CreateCandidate(c) \/ ConfirmCandidate(c) \/ RetryPublicationJob(c)
    PROVE  SameLog
<1>1. candidate \in [Candidates -> CandidateRows]
  BY Types DEF PubInv
<1>2. UNCHANGED <<artifact, current, follower>>
  BY DEF CreateCandidate, ConfirmCandidate, RetryPublicationJob, pointerVars
<1>3. c \notin Published
  BY DEF CreateCandidate, ConfirmCandidate, RetryPublicationJob, PubInv, CandidateMatchesJob
<1>4. \A d \in Candidates \ {c} : candidate'[d] = candidate[d]
  BY <1>1 DEF CreateCandidate, ConfirmCandidate, RetryPublicationJob
<1> QED
  BY <1>2, <1>3, <1>4 DEF SameLog, Published

LEMMA WorkerSameLog ==
    ASSUME PubInv, NEW w \in Workers, Work(w) \/ FailPublicationJob(w) \/ Crash(w), ~SwitchPointer(w)
    PROVE  SameLog
<1>1. candidate \in [Candidates -> CandidateRows]
  BY Types DEF PubInv
<1>2. CASE FailPublicationJob(w)
  <2>1. candidate' = candidate \/ \E c \in Candidates : candidate' = [candidate EXCEPT ![c].status = "failed"]
    BY <1>2, HoldsType DEF FailPublicationJob, PubInv, CandidateMatchesJob
  <2>2. \A c \in Candidates : candidate'[c].seq = candidate[c].seq /\ candidate'[c].state = candidate[c].state
    BY <1>1, <2>1 DEF CandidateRows
  <2> QED
    BY <1>2, <2>2 DEF FailPublicationJob, pointerVars, SameLog, Published
<1>3. CASE UNCHANGED <<candidate, artifact, current, follower>>
  BY <1>3 DEF SameLog, Published
<1> QED
  BY <1>2, <1>3 DEF Work, ClaimNextJob, FailExhaustedJob, Checkpoint, AbandonJob, Crash, jobVars, pointerVars

LEMMA SwitchPublishes ==
    ASSUME PubInv, TypeOK', NEW w \in Workers, SwitchPointer(w)
    PROVE  /\ Seq(current)' \in Nat
           /\ \A r \in Releases : r.seq < Seq(current)'
           /\ \E x \in {Content[s] : s \in States} :
                 Releases' = Releases \cup {[seq |-> Seq(current)', content |-> x]}
           /\ Seq(follower.generation)' = Seq(follower.generation)
<1> DEFINE c == claim[w].candidate
<1>1. /\ c \in Candidates /\ job[c].status = "running"
      /\ Seq(current) < Seq(c) /\ current # c /\ current' = c /\ artifact' = Purged(Replaced(c))
  BY SwitchReleases
<1>2. /\ candidate' = [candidate EXCEPT ![c].status = "succeeded"] /\ follower' = follower
  BY DEF SwitchPointer
<1> HIDE DEF c
<1>3. candidate \in [Candidates -> CandidateRows] /\ None \notin Candidates
  BY Types, PublicationAssumption DEF PubInv
<1>4. \A d \in Candidates : candidate'[d].seq = candidate[d].seq /\ candidate'[d].state = candidate[d].state
  BY <1>2, <1>3 DEF CandidateRows
<1>5. \A d \in Candidates \cup {None} : Seq(d)' = Seq(d)
  BY <1>4 DEF Seq
<1>6. \A d \in Candidates : Release(d)' = Release(d)
  BY <1>4, <1>5 DEF Release
<1>7. Published' = Published \cup {c}
  BY <1>1, ReplacedArtifacts DEF Published
<1>8. Releases' = Releases \cup {Release(c)}
  <2>1. Published \subseteq Candidates
    BY DEF Published
  <2> QED
    BY <1>1, <1>6, <1>7, <2>1 DEF Releases
<1>9. Seq(current)' = Seq(c) /\ Seq(c) \in Nat
  BY <1>1, <1>5, Rows DEF PubInv, Seq
<1>10. candidate[c].state \in States
  BY <1>1 DEF PubInv, Sequenced
<1>11. \A d \in Published : Seq(d) < Seq(c)
  BY <1>1, Rows DEF PubInv, Ahead, Active, Published, Seq
<1>12. \A r \in Releases : r.seq < Seq(c)
  BY <1>11 DEF Releases, Release
<1>13. Seq(follower.generation)' = Seq(follower.generation)
  BY <1>2, <1>5, Rows DEF PubInv
<1> QED
  BY <1>8, <1>9, <1>10, <1>12, <1>13 DEF Release

LEMMA DownloadFollows ==
    ASSUME PubInv, DownloadArtifact
    PROVE  \E r \in Releases : /\ Seq(follower.generation) < r.seq
                               /\ Seq(follower.generation)' = r.seq
                               /\ UNCHANGED <<Releases, Seq(current)>>
<1> DEFINE p == follower.pending
<1>1. p \in Published /\ Seq(follower.generation) < Seq(p)
  BY Rows DEF DownloadArtifact, PubInv, FollowsReleases, Published
<1>2. UNCHANGED <<candidate, artifact, current>> /\ follower'.generation = p
  BY DEF DownloadArtifact, jobVars, pointerVars
<1>3. \A d : Seq(d)' = Seq(d)
  BY <1>2 DEF Seq
<1>4. UNCHANGED <<Releases, Seq(current)>>
  BY <1>2, <1>3 DEF Releases, Release, Published
<1>5. Seq(follower.generation)' = Seq(p)
  BY <1>2, <1>3
<1>6. Release(p) \in Releases /\ Release(p).seq = Seq(p)
  BY <1>1 DEF Release, Releases
<1> QED
  BY <1>1, <1>4, <1>5, <1>6

LEMMA OtherSameLog ==
    ASSUME PubInv, \/ \E s \in States : ChangeBusiness(s)
                   \/ \E c \in Candidates : LeaseLapses(c) \/ RetentionPasses(c)
                   \/ PurgeExpired \/ ReadPointer \/ SynchronizeFails \/ UNCHANGED vars
    PROVE  SameLog
<1>0. artifact \in [Candidates -> Retentions]
      /\ follower \in [generation : Candidates \cup {None}, pending : Candidates \cup {None}]
  BY Types DEF PubInv
<1>1. ASSUME NEW s \in States, ChangeBusiness(s) PROVE SameLog
  BY <1>1 DEF ChangeBusiness, jobVars, pointerVars, SameLog, Published
<1>2. ASSUME NEW c \in Candidates, LeaseLapses(c) PROVE SameLog
  BY <1>2 DEF LeaseLapses, jobVars, pointerVars, SameLog, Published
<1>3. ASSUME NEW c \in Candidates, RetentionPasses(c) PROVE SameLog
  BY <1>0, <1>3 DEF RetentionPasses, jobVars, SameLog, Published
<1>4. ASSUME PurgeExpired PROVE SameLog
  BY <1>0, <1>4 DEF PurgeExpired, Purged, jobVars, SameLog, Published
<1>5. ASSUME ReadPointer \/ SynchronizeFails PROVE SameLog
  BY <1>0, <1>5 DEF ReadPointer, SynchronizeFails, jobVars, pointerVars, SameLog, Published
<1>6. ASSUME UNCHANGED vars PROVE SameLog
  BY <1>6 DEF vars, jobVars, pointerVars, SameLog, Published
<1> QED
  BY <1>1, <1>2, <1>3, <1>4, <1>5, <1>6

\* Consumers see an immutable log of ever newer releases and move forward in it.
THEOREM Refinement == Spec => ImplementsReleaseLog
<1>1. Init => Log!Init
  BY DEF Init, Log!Init, Published, Seq
<1>2. ASSUME PubInv, SameLog PROVE [Log!Next]_Log!vars
  BY <1>2, SameLogStutters DEF Log!vars, Releases, Release
<1>3. ASSUME PubInv, TypeOK', NEW w \in Workers, SwitchPointer(w) PROVE [Log!Next]_Log!vars
  BY <1>3, SwitchPublishes DEF Log!Next, Log!Publish, Releases, Release
<1>4. ASSUME PubInv, DownloadArtifact PROVE [Log!Next]_Log!vars
  BY <1>4, DownloadFollows DEF Log!Next, Log!Follow, Releases, Release
<1>5. ASSUME PubInv, [Next]_vars PROVE [Log!Next]_Log!vars
  <2>1. TypeOK'
    BY <1>5, StepType DEF PubInv
  <2> QED
    BY <1>2, <1>3, <1>4, <1>5, <2>1, CommandSameLog, WorkerSameLog, OtherSameLog DEF Next
<1>6. PubInv /\ [Next]_vars => [Log!Next]_Log!vars
  BY <1>5
<1> QED
  BY <1>1, <1>6, PubInductive, PTL DEF Spec, ImplementsReleaseLog, Log!Spec

\* A running job is ended by the attempt that holds it, or by a poll after its last lapse.
THEOREM EndedByOwner == Spec => EndedByHolder
<1> DEFINE Ended ==
        \A c \in Candidates :
          job[c].status = "running" /\ job'[c].status # "running" =>
             \/ job[c].timer = "lapsed" /\ job[c].attempts = MaxAttempts
             \/ \E w \in Workers :
                   /\ claim[w].candidate = c
                   /\ claim[w].run = job[c].run
                   /\ claim[w].attempt = job[c].attempts
                   /\ claim'[w] = Idle
<1>1. ASSUME PubInv, NEW w \in Workers, SwitchPointer(w) \/ FailPublicationJob(w) PROVE Ended
  <2>1. job \in [Candidates -> JobRows] /\ claim \in [Workers -> Claims]
    BY <1>1, Types DEF PubInv
  <2>2. claim[w].candidate \in Candidates /\ Holds(w) /\ claim'[w] = Idle
    BY <1>1, <2>1, HoldsType DEF SwitchPointer, FailPublicationJob, PubInv
  <2>3. \A c \in Candidates \ {claim[w].candidate} : job'[c] = job[c]
    BY <1>1, <2>1, <2>2 DEF SwitchPointer, FailPublicationJob
  <2> QED
    BY <2>2, <2>3 DEF Holds
<1>2. ASSUME PubInv, NEW w \in Workers, NEW d \in Candidates, FailExhaustedJob(w, d) PROVE Ended
  <2>1. job \in [Candidates -> JobRows]
    BY <1>2, Types DEF PubInv
  <2>2. job[d].timer = "lapsed" /\ job[d].attempts = MaxAttempts
    BY <1>2, <2>1, PublicationAssumption DEF FailExhaustedJob, OutOfAttempts, JobRows
  <2>3. \A c \in Candidates \ {d} : job'[c] = job[c]
    BY <1>2, <2>1 DEF FailExhaustedJob
  <2> QED
    BY <2>2, <2>3
<1>3. ASSUME PubInv, \A c \in Candidates : job[c].status = "running" => job'[c].status = "running" PROVE Ended
  BY <1>3
<1> HIDE DEF Ended
<1>4. ASSUME PubInv, NEW w \in Workers, Work(w) \/ FailPublicationJob(w) \/ Crash(w) PROVE Ended
  <2>1. job \in [Candidates -> JobRows]
    BY <1>4, Types DEF PubInv
  <2>2. ASSUME NEW c \in Candidates, ClaimNextJob(w, c) PROVE Ended
    BY <1>3, <1>4, <2>1, <2>2 DEF ClaimNextJob
  <2>3. CASE Checkpoint(w)
    <3>1. \A d \in Candidates : job'[d].status = job[d].status
      BY <1>4, <2>3, JobRun, HoldsType DEF Checkpoint, PubInv
    <3> QED
      BY <1>3, <1>4, <3>1
  <2>4. CASE AbandonJob(w) \/ Crash(w)
    BY <1>3, <1>4, <2>4 DEF AbandonJob, Crash, jobVars
  <2> QED
    BY <1>1, <1>2, <1>4, <2>2, <2>3, <2>4 DEF Work
<1>5. ASSUME PubInv, NEW c \in Candidates,
             CreateCandidate(c) \/ ConfirmCandidate(c) \/ RetryPublicationJob(c)
      PROVE  Ended
  <2>1. job \in [Candidates -> JobRows]
    BY <1>5, Types DEF PubInv
  <2>2. job' = job \/ (Enqueue(c) /\ job[c].status # "running")
    BY <1>5 DEF CreateCandidate, ConfirmCandidate, RetryPublicationJob, PubInv, Sequenced
  <2> QED
    BY <1>3, <1>5, <2>1, <2>2 DEF Enqueue
<1>6. ASSUME PubInv, NEW c \in Candidates, LeaseLapses(c) PROVE Ended
  <2>1. \A d \in Candidates : job'[d].status = job[d].status
    BY <1>6, JobRun DEF LeaseLapses, PubInv
  <2> QED
    BY <1>3, <1>6, <2>1
<1>7. ASSUME PubInv, UNCHANGED job PROVE Ended
  BY <1>3, <1>7
<1>8. ASSUME PubInv, [Next]_vars PROVE Ended
  BY <1>4, <1>5, <1>6, <1>7, <1>8
    DEF Next, ChangeBusiness, RetentionPasses, PurgeExpired, ReadPointer, DownloadArtifact,
        SynchronizeFails, vars, jobVars
<1>9. PubInv /\ [Next]_vars => [Ended]_vars
  BY <1>8
<1> QED
  BY <1>9, PubInductive, PTL DEF Spec, EndedByHolder, Ended
===============================================================================
