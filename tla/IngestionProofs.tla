--------------------------- MODULE IngestionProofs ---------------------------
(***************************************************************************)
(* Proofs about Ingestion, for every set of documents, versions and        *)
(* workers, every number of attempts and of stage results.                 *)
(***************************************************************************)
EXTENDS Ingestion, TLAPS

\* Ranks never exceed the number of activations, so a new activation is the latest.
RanksBounded == \A v \in Versions : readyAt[v] <= activations

\* A document that does not exist has no versions.
OwnersExist == \A v \in Versions : owner[v] # None => document[owner[v]] # "absent"

\* What a worker remembers was true once: its attempt was issued, its steps recorded.
ClaimsWereIssued ==
    \A w \in Workers :
        claim[w].version # None =>
            /\ claim[w].attempt <= attempts[claim[w].version]
            /\ claim[w].step <= recorded[claim[w].version]

\* No token is issued twice.
TokensAreUnique ==
    \A w, x \in Workers :
        /\ claim[w].version # None
        /\ claim[w].version = claim[x].version
        /\ claim[w].attempt = claim[x].attempt
        => w = x

\* The inductive invariant.
IInv ==
    /\ TypeOK
    /\ JobMatchesVersion
    /\ OneActiveIngestionPerDocument
    /\ CurrentIsLatestReady
    /\ ActivatedIsComplete
    /\ DeletedDocumentIsQuiet
    /\ RanksBounded
    /\ OwnersExist
    /\ ClaimsWereIssued
    /\ TokensAreUnique

-----------------------------------------------------------------------------
(* Type correctness. *)

LEMMA ClaimsType ==
    ASSUME TypeOK, NEW w \in Workers, claim[w].version # None
    PROVE  /\ claim[w].version \in Versions
           /\ claim[w].attempt \in 0..MaxAttempts
           /\ claim[w].step \in 0..Steps
           /\ claim[w].attempt \in Nat
           /\ claim[w].step \in Nat
  BY IngestionAssumption DEF TypeOK

LEMMA IdleType == Idle \in [version : Versions \cup {None}, attempt : 0..MaxAttempts, step : 0..Steps]
  BY IngestionAssumption DEF Idle

LEMMA SwitchType ==
    ASSUME TypeOK, NEW v \in Versions, SwitchCurrent(v)
    PROVE  /\ status' \in [Versions -> {"absent", "processing", "awaiting_mapping",
                                        "ready", "failed", "voided"}]
           /\ readyAt' \in [Versions -> Nat]
           /\ activations' \in Nat
           /\ current' \in [Documents -> Versions \cup {None}]
           /\ document' = document /\ owner' = owner
<1>1. status' \in [Versions -> {"absent", "processing", "awaiting_mapping",
                                "ready", "failed", "voided"}]
  BY DEF TypeOK, SwitchCurrent
<1>2. readyAt' \in [Versions -> Nat] /\ activations' \in Nat
  BY DEF TypeOK, SwitchCurrent
<1>3. current' \in [Documents -> Versions \cup {None}]
  BY DEF TypeOK, SwitchCurrent
<1> QED
  BY <1>1, <1>2, <1>3 DEF SwitchCurrent

LEMMA CommandType == TypeOK /\ Command => TypeOK'
<1> SUFFICES ASSUME TypeOK, Command PROVE TypeOK'
  OBVIOUS
<1> USE IngestionAssumption DEF TypeOK, JobActive
<1>1. ASSUME NEW d \in Documents, NEW v \in Versions, AcceptFirstUpload(d, v) PROVE TypeOK'
  BY <1>1 DEF AcceptFirstUpload, CreateIngestion
<1>2. ASSUME NEW d \in Documents, NEW v \in Versions, AcceptDocumentVersion(d, v) PROVE TypeOK'
  BY <1>2 DEF AcceptDocumentVersion, CreateIngestion
<1>3. ASSUME NEW s \in Versions, NEW v \in Versions, owner[s] # None, RetryFailedVersion(s, v)
      PROVE TypeOK'
  BY <1>3 DEF RetryFailedVersion, CreateIngestion
<1>4. ASSUME NEW s \in Versions, NEW v \in Versions, owner[s] # None, RollbackToVersion(s, v)
      PROVE TypeOK'
  BY <1>4 DEF RollbackToVersion, CreateIngestion
<1>5. ASSUME NEW v \in Versions, VoidVersion(v) PROVE TypeOK'
  <2>1. Latest(Ready(owner[v]) \ {v}) \subseteq Versions \cup {None}
    BY DEF Latest, Ready, VersionsOf
  <2>2. current' \in [Documents -> Versions \cup {None}]
    BY <1>5, <2>1 DEF VoidVersion, Fallbacks
  <2>3. job' \in [Versions -> JobActive \cup {"absent", "succeeded", "failed", "cancelled"}]
        /\ timer' \in [Versions -> {"none", "lease", "lapsed", "backoff"}]
    BY <1>5 DEF VoidVersion, Fallbacks
  <2> QED
    BY <1>5, <2>2, <2>3 DEF VoidVersion, Fallbacks
<1>6. ASSUME NEW v \in Versions, ConfirmPageMapping(v) PROVE TypeOK'
  BY <1>6, SwitchType DEF ConfirmPageMapping
<1>7. ASSUME NEW d \in Documents, SoftDeleteDocument(d) PROVE TypeOK'
  BY <1>7 DEF SoftDeleteDocument, Unfinished
<1>8. ASSUME NEW d \in Documents, RestoreDocument(d) PROVE TypeOK'
  BY <1>8 DEF RestoreDocument, jobVars
<1> QED
  BY <1>1, <1>2, <1>3, <1>4, <1>5, <1>6, <1>7, <1>8 DEF Command

LEMMA WorkerType ==
    ASSUME TypeOK, NEW w \in Workers,
           ClaimNextJob(w) \/ Work(w) \/ FailIngestionJob(w) \/ Crash(w)
    PROVE  TypeOK'
<1> USE IngestionAssumption, IdleType DEF TypeOK, JobActive
<1>1. CASE ClaimNextJob(w)
  <2>1. status' \in [Versions -> {"absent", "processing", "awaiting_mapping",
                                  "ready", "failed", "voided"}]
    BY <1>1 DEF ClaimNextJob, NextAttempt
  <2>2. CASE Claimable = {} /\ UNCHANGED <<attempts, claim>>
             /\ job' = [v \in Versions |-> IF v \in Exhausted THEN "failed" ELSE job[v]]
             /\ timer' = [v \in Versions |-> IF v \in Exhausted THEN "none" ELSE timer[v]]
    BY <1>1, <2>1, <2>2 DEF ClaimNextJob, NextAttempt
  <2>3. ASSUME NEW u \in Claimable,
               job' = [v \in Versions |-> IF v = u THEN "running"
                                          ELSE IF v \in Exhausted THEN "failed" ELSE job[v]],
               timer' = [v \in Versions |-> IF v = u THEN "lease"
                                            ELSE IF v \in Exhausted THEN "none" ELSE timer[v]],
               attempts' = [attempts EXCEPT ![u] = @ + 1],
               claim' = [claim EXCEPT ![w] =
                            [version |-> u, attempt |-> attempts[u] + 1, step |-> 0]]
        PROVE  TypeOK'
    <3>1. u \in Versions /\ attempts[u] + 1 \in 0..MaxAttempts
      BY <2>3 DEF Claimable
    <3>2. claim' \in [Workers -> [version : Versions \cup {None},
                              attempt : 0..MaxAttempts, step : 0..Steps]]
      BY <2>3, <3>1
    <3>3. attempts' \in [Versions -> 0..MaxAttempts]
      BY <2>3, <3>1
    <3> QED
      BY <1>1, <2>1, <2>3, <3>1, <3>2, <3>3 DEF ClaimNextJob, NextAttempt
  <2> QED
    BY <1>1, <2>2, <2>3 DEF ClaimNextJob, NextAttempt
<1>2. CASE RecordResult(w)
  BY <1>2, ClaimsType DEF RecordResult, HoldsLive, Holds, domainVars
<1>3. CASE Checkpoint(w)
  <2>1. claim[w].version \in Versions /\ claim[w].step + 1 \in 0..Steps
    BY <1>3, ClaimsType DEF Checkpoint, Holds
  <2>2. claim' \in [Workers -> [version : Versions \cup {None},
                            attempt : 0..MaxAttempts, step : 0..Steps]]
    BY <1>3, <2>1 DEF Checkpoint
  <2> QED
    BY <1>3, <2>1, <2>2 DEF Checkpoint, domainVars
<1>4. CASE ActivateVersion(w)
  BY <1>4, ClaimsType, SwitchType DEF ActivateVersion, HoldsLive, Holds
<1>5. CASE PauseForMapping(w)
  BY <1>5, ClaimsType DEF PauseForMapping, HoldsLive, Holds
<1>6. CASE FailIngestionJob(w)
  <2>1. claim[w].version \in Versions
    BY <1>6, ClaimsType DEF FailIngestionJob, Holds
  <2>2. claim' \in [Workers -> [version : Versions \cup {None},
                            attempt : 0..MaxAttempts, step : 0..Steps]]
    BY <1>6 DEF FailIngestionJob
  <2>3. job' \in [Versions -> JobActive \cup {"absent", "succeeded", "failed", "cancelled"}]
    BY <1>6, <2>1 DEF FailIngestionJob
  <2>4. timer' \in [Versions -> {"none", "lease", "lapsed", "backoff"}]
    BY <1>6, <2>1 DEF FailIngestionJob
  <2>5. status' \in [Versions -> {"absent", "processing", "awaiting_mapping",
                                  "ready", "failed", "voided"}]
    BY <1>6, <2>1 DEF FailIngestionJob
  <2> QED
    BY <1>6, <2>2, <2>3, <2>4, <2>5 DEF FailIngestionJob
<1>7. CASE AbandonJob(w) \/ Crash(w)
  BY <1>7 DEF AbandonJob, Crash, domainVars, jobVars
<1> QED
  BY <1>1, <1>2, <1>3, <1>4, <1>5, <1>6, <1>7 DEF Work

LEMMA StepType == TypeOK /\ [Next]_vars => TypeOK'
<1>1. ASSUME TypeOK, NEW v \in Versions, TimerFires(v) PROVE TypeOK'
  BY <1>1 DEF TypeOK, TimerFires, domainVars
<1>2. TypeOK /\ UNCHANGED vars => TypeOK'
  BY DEF TypeOK, vars, domainVars, jobVars
<1> QED
  BY <1>1, <1>2, CommandType, WorkerType DEF Next

LEMMA InitType == Init => TypeOK
  BY IngestionAssumption DEF Init, TypeOK, Idle, JobActive

\* Every reachable state is well typed.
THEOREM TypeCorrect == Spec => []TypeOK
  BY InitType, StepType, PTL DEF Spec

-----------------------------------------------------------------------------
(* Each conjunct of the inductive invariant is preserved by every step. *)

LEMMA StepJobMatches ==
    ASSUME IInv, TypeOK', [Next]_vars
    PROVE  JobMatchesVersion'
<1> USE IngestionAssumption DEF IInv, TypeOK, JobActive, JobMatchesVersion
<1>1. ASSUME NEW d \in Documents, NEW v \in Versions, AcceptFirstUpload(d, v) PROVE JobMatchesVersion'
  BY <1>1 DEF AcceptFirstUpload, CreateIngestion
<1>2. ASSUME NEW d \in Documents, NEW v \in Versions, AcceptDocumentVersion(d, v) PROVE JobMatchesVersion'
  BY <1>2 DEF AcceptDocumentVersion, CreateIngestion
<1>3. ASSUME NEW s \in Versions, NEW v \in Versions, owner[s] # None, RetryFailedVersion(s, v) PROVE JobMatchesVersion'
  BY <1>3 DEF RetryFailedVersion, CreateIngestion
<1>4. ASSUME NEW s \in Versions, NEW v \in Versions, owner[s] # None, RollbackToVersion(s, v) PROVE JobMatchesVersion'
  BY <1>4 DEF RollbackToVersion, CreateIngestion
<1>5. ASSUME NEW v \in Versions, VoidVersion(v) PROVE JobMatchesVersion'
  BY <1>5 DEF VoidVersion, Fallbacks
<1>6. ASSUME NEW v \in Versions, ConfirmPageMapping(v) PROVE JobMatchesVersion'
  BY <1>6 DEF ConfirmPageMapping, SwitchCurrent
<1>7. ASSUME NEW d \in Documents, SoftDeleteDocument(d) PROVE JobMatchesVersion'
  BY <1>7 DEF SoftDeleteDocument, Unfinished, VersionsOf
<1>8. ASSUME NEW d \in Documents, RestoreDocument(d) PROVE JobMatchesVersion'
  BY <1>8 DEF RestoreDocument, jobVars
<1>9. ASSUME NEW v \in Versions, TimerFires(v) PROVE JobMatchesVersion'
  BY <1>9 DEF TimerFires, domainVars
<1>10. ASSUME NEW w \in Workers, ClaimNextJob(w) PROVE JobMatchesVersion'
  BY <1>10 DEF ClaimNextJob, NextAttempt, Exhausted, Claimable
<1>11. ASSUME NEW w \in Workers, RecordResult(w) PROVE JobMatchesVersion'
  BY <1>11, ClaimsType DEF RecordResult, HoldsLive, Holds, domainVars
<1>12. ASSUME NEW w \in Workers, Checkpoint(w) PROVE JobMatchesVersion'
  BY <1>12, ClaimsType DEF Checkpoint, Holds, domainVars
<1>13. ASSUME NEW w \in Workers, ActivateVersion(w) PROVE JobMatchesVersion'
  BY <1>13, ClaimsType DEF ActivateVersion, SwitchCurrent, HoldsLive, Holds
<1>14. ASSUME NEW w \in Workers, PauseForMapping(w) PROVE JobMatchesVersion'
  BY <1>14, ClaimsType DEF PauseForMapping, HoldsLive, Holds
<1>15. ASSUME NEW w \in Workers, FailIngestionJob(w) PROVE JobMatchesVersion'
  BY <1>15, ClaimsType DEF FailIngestionJob, Holds
<1>16. ASSUME NEW w \in Workers, AbandonJob(w) \/ Crash(w) PROVE JobMatchesVersion'
  BY <1>16, ClaimsType DEF AbandonJob, Crash, domainVars, jobVars
<1>17. ASSUME UNCHANGED vars PROVE JobMatchesVersion'
  BY <1>17 DEF vars, domainVars, jobVars
<1> QED
  BY <1>1, <1>2, <1>3, <1>4, <1>5, <1>6, <1>7, <1>8, <1>9, <1>10, <1>11, <1>12, <1>13, <1>14, <1>15, <1>16, <1>17 DEF Next, Command, Work

LEMMA StepRanks ==
    ASSUME IInv, TypeOK', [Next]_vars
    PROVE  RanksBounded'
<1> USE IngestionAssumption DEF IInv, TypeOK, RanksBounded
<1>1. ASSUME NEW d \in Documents, NEW v \in Versions, AcceptFirstUpload(d, v) PROVE RanksBounded'
  BY <1>1 DEF AcceptFirstUpload, CreateIngestion
<1>2. ASSUME NEW d \in Documents, NEW v \in Versions, AcceptDocumentVersion(d, v) PROVE RanksBounded'
  BY <1>2 DEF AcceptDocumentVersion, CreateIngestion
<1>3. ASSUME NEW s \in Versions, NEW v \in Versions, owner[s] # None, RetryFailedVersion(s, v) PROVE RanksBounded'
  BY <1>3 DEF RetryFailedVersion, CreateIngestion
<1>4. ASSUME NEW s \in Versions, NEW v \in Versions, owner[s] # None, RollbackToVersion(s, v) PROVE RanksBounded'
  BY <1>4 DEF RollbackToVersion, CreateIngestion
<1>5. ASSUME NEW v \in Versions, VoidVersion(v) PROVE RanksBounded'
  BY <1>5 DEF VoidVersion, Fallbacks
<1>6. ASSUME NEW v \in Versions, ConfirmPageMapping(v) PROVE RanksBounded'
  BY <1>6 DEF ConfirmPageMapping, SwitchCurrent
<1>7. ASSUME NEW d \in Documents, SoftDeleteDocument(d) PROVE RanksBounded'
  BY <1>7 DEF SoftDeleteDocument, Unfinished, VersionsOf
<1>8. ASSUME NEW d \in Documents, RestoreDocument(d) PROVE RanksBounded'
  BY <1>8 DEF RestoreDocument, jobVars
<1>9. ASSUME NEW v \in Versions, TimerFires(v) PROVE RanksBounded'
  BY <1>9 DEF TimerFires, domainVars
<1>10. ASSUME NEW w \in Workers, ClaimNextJob(w) PROVE RanksBounded'
  BY <1>10 DEF ClaimNextJob, NextAttempt, Exhausted, Claimable
<1>11. ASSUME NEW w \in Workers, RecordResult(w) PROVE RanksBounded'
  BY <1>11, ClaimsType DEF RecordResult, HoldsLive, Holds, domainVars
<1>12. ASSUME NEW w \in Workers, Checkpoint(w) PROVE RanksBounded'
  BY <1>12, ClaimsType DEF Checkpoint, Holds, domainVars
<1>13. ASSUME NEW w \in Workers, ActivateVersion(w) PROVE RanksBounded'
  BY <1>13, ClaimsType DEF ActivateVersion, SwitchCurrent, HoldsLive, Holds
<1>14. ASSUME NEW w \in Workers, PauseForMapping(w) PROVE RanksBounded'
  BY <1>14, ClaimsType DEF PauseForMapping, HoldsLive, Holds
<1>15. ASSUME NEW w \in Workers, FailIngestionJob(w) PROVE RanksBounded'
  BY <1>15, ClaimsType DEF FailIngestionJob, Holds
<1>16. ASSUME NEW w \in Workers, AbandonJob(w) \/ Crash(w) PROVE RanksBounded'
  BY <1>16, ClaimsType DEF AbandonJob, Crash, domainVars, jobVars
<1>17. ASSUME UNCHANGED vars PROVE RanksBounded'
  BY <1>17 DEF vars, domainVars, jobVars
<1> QED
  BY <1>1, <1>2, <1>3, <1>4, <1>5, <1>6, <1>7, <1>8, <1>9, <1>10, <1>11, <1>12, <1>13, <1>14, <1>15, <1>16, <1>17 DEF Next, Command, Work

LEMMA StepOwners ==
    ASSUME IInv, TypeOK', [Next]_vars
    PROVE  OwnersExist'
<1> USE IngestionAssumption DEF IInv, TypeOK, OwnersExist
<1>1. ASSUME NEW d \in Documents, NEW v \in Versions, AcceptFirstUpload(d, v) PROVE OwnersExist'
  BY <1>1 DEF AcceptFirstUpload, CreateIngestion
<1>2. ASSUME NEW d \in Documents, NEW v \in Versions, AcceptDocumentVersion(d, v) PROVE OwnersExist'
  BY <1>2 DEF AcceptDocumentVersion, CreateIngestion
<1>3. ASSUME NEW s \in Versions, NEW v \in Versions, owner[s] # None, RetryFailedVersion(s, v) PROVE OwnersExist'
  BY <1>3 DEF RetryFailedVersion, CreateIngestion
<1>4. ASSUME NEW s \in Versions, NEW v \in Versions, owner[s] # None, RollbackToVersion(s, v) PROVE OwnersExist'
  BY <1>4 DEF RollbackToVersion, CreateIngestion
<1>5. ASSUME NEW v \in Versions, VoidVersion(v) PROVE OwnersExist'
  BY <1>5 DEF VoidVersion, Fallbacks
<1>6. ASSUME NEW v \in Versions, ConfirmPageMapping(v) PROVE OwnersExist'
  BY <1>6 DEF ConfirmPageMapping, SwitchCurrent
<1>7. ASSUME NEW d \in Documents, SoftDeleteDocument(d) PROVE OwnersExist'
  BY <1>7 DEF SoftDeleteDocument, Unfinished, VersionsOf
<1>8. ASSUME NEW d \in Documents, RestoreDocument(d) PROVE OwnersExist'
  BY <1>8 DEF RestoreDocument, jobVars
<1>9. ASSUME NEW v \in Versions, TimerFires(v) PROVE OwnersExist'
  BY <1>9 DEF TimerFires, domainVars
<1>10. ASSUME NEW w \in Workers, ClaimNextJob(w) PROVE OwnersExist'
  BY <1>10 DEF ClaimNextJob, NextAttempt, Exhausted, Claimable
<1>11. ASSUME NEW w \in Workers, RecordResult(w) PROVE OwnersExist'
  BY <1>11, ClaimsType DEF RecordResult, HoldsLive, Holds, domainVars
<1>12. ASSUME NEW w \in Workers, Checkpoint(w) PROVE OwnersExist'
  BY <1>12, ClaimsType DEF Checkpoint, Holds, domainVars
<1>13. ASSUME NEW w \in Workers, ActivateVersion(w) PROVE OwnersExist'
  BY <1>13, ClaimsType DEF ActivateVersion, SwitchCurrent, HoldsLive, Holds
<1>14. ASSUME NEW w \in Workers, PauseForMapping(w) PROVE OwnersExist'
  BY <1>14, ClaimsType DEF PauseForMapping, HoldsLive, Holds
<1>15. ASSUME NEW w \in Workers, FailIngestionJob(w) PROVE OwnersExist'
  BY <1>15, ClaimsType DEF FailIngestionJob, Holds
<1>16. ASSUME NEW w \in Workers, AbandonJob(w) \/ Crash(w) PROVE OwnersExist'
  BY <1>16, ClaimsType DEF AbandonJob, Crash, domainVars, jobVars
<1>17. ASSUME UNCHANGED vars PROVE OwnersExist'
  BY <1>17 DEF vars, domainVars, jobVars
<1> QED
  BY <1>1, <1>2, <1>3, <1>4, <1>5, <1>6, <1>7, <1>8, <1>9, <1>10, <1>11, <1>12, <1>13, <1>14, <1>15, <1>16, <1>17 DEF Next, Command, Work

\* A worker that is through all its steps has all results on record.
LEMMA AllRecorded ==
    ASSUME TypeOK, ClaimsWereIssued, NEW w \in Workers, claim[w].version # None,
           claim[w].step = Steps
    PROVE  claim[w].version \in Versions /\ recorded[claim[w].version] = Steps
<1>1. claim[w].version \in Versions
  BY ClaimsType
<1>2. recorded[claim[w].version] \in 0..Steps
  BY <1>1 DEF TypeOK
<1>3. Steps <= recorded[claim[w].version]
  BY DEF ClaimsWereIssued
<1> QED
  BY <1>1, <1>2, <1>3, IngestionAssumption

LEMMA OneMoreComplete ==
    ASSUME ActivatedIsComplete, UNCHANGED recorded, NEW u \in Versions, recorded[u] = Steps,
           \A v \in Versions \ {u} : status'[v] = status[v]
    PROVE  ActivatedIsComplete'
  BY DEF ActivatedIsComplete

LEMMA StepComplete ==
    ASSUME IInv, TypeOK', [Next]_vars
    PROVE  ActivatedIsComplete'
<1> USE IngestionAssumption DEF IInv, TypeOK, JobMatchesVersion, ActivatedIsComplete, ClaimsWereIssued
<1>1. ASSUME NEW d \in Documents, NEW v \in Versions, AcceptFirstUpload(d, v) PROVE ActivatedIsComplete'
  BY <1>1 DEF AcceptFirstUpload, CreateIngestion
<1>2. ASSUME NEW d \in Documents, NEW v \in Versions, AcceptDocumentVersion(d, v) PROVE ActivatedIsComplete'
  BY <1>2 DEF AcceptDocumentVersion, CreateIngestion
<1>3. ASSUME NEW s \in Versions, NEW v \in Versions, owner[s] # None, RetryFailedVersion(s, v) PROVE ActivatedIsComplete'
  BY <1>3 DEF RetryFailedVersion, CreateIngestion
<1>4. ASSUME NEW s \in Versions, NEW v \in Versions, owner[s] # None, RollbackToVersion(s, v) PROVE ActivatedIsComplete'
  BY <1>4 DEF RollbackToVersion, CreateIngestion
<1>5. ASSUME NEW v \in Versions, VoidVersion(v) PROVE ActivatedIsComplete'
  BY <1>5 DEF VoidVersion, Fallbacks
<1>6. ASSUME NEW v \in Versions, ConfirmPageMapping(v) PROVE ActivatedIsComplete'
  BY <1>6 DEF ConfirmPageMapping, SwitchCurrent
<1>7. ASSUME NEW d \in Documents, SoftDeleteDocument(d) PROVE ActivatedIsComplete'
  BY <1>7 DEF SoftDeleteDocument, Unfinished, VersionsOf
<1>8. ASSUME NEW d \in Documents, RestoreDocument(d) PROVE ActivatedIsComplete'
  BY <1>8 DEF RestoreDocument, jobVars
<1>9. ASSUME NEW v \in Versions, TimerFires(v) PROVE ActivatedIsComplete'
  BY <1>9 DEF TimerFires, domainVars
<1>10. ASSUME NEW w \in Workers, ClaimNextJob(w) PROVE ActivatedIsComplete'
  BY <1>10 DEF ClaimNextJob, NextAttempt, Exhausted, Claimable
<1>11. ASSUME NEW w \in Workers, RecordResult(w) PROVE ActivatedIsComplete'
  BY <1>11, ClaimsType DEF RecordResult, HoldsLive, Holds, domainVars
<1>12. ASSUME NEW w \in Workers, Checkpoint(w) PROVE ActivatedIsComplete'
  BY <1>12, ClaimsType DEF Checkpoint, Holds, domainVars
<1>13. ASSUME NEW w \in Workers, ActivateVersion(w) PROVE ActivatedIsComplete'
  <2>1. claim[w].version \in Versions /\ recorded[claim[w].version] = Steps
    BY <1>13, AllRecorded DEF ActivateVersion, HoldsLive, Holds
  <2>2. UNCHANGED recorded /\ \A v \in Versions \ {claim[w].version} : status'[v] = status[v]
    BY <1>13 DEF ActivateVersion, SwitchCurrent
  <2> QED
    BY <2>1, <2>2, OneMoreComplete
<1>14. ASSUME NEW w \in Workers, PauseForMapping(w) PROVE ActivatedIsComplete'
  <2>1. claim[w].version \in Versions /\ recorded[claim[w].version] = Steps
    BY <1>14, AllRecorded DEF PauseForMapping, HoldsLive, Holds
  <2>2. UNCHANGED recorded /\ \A v \in Versions \ {claim[w].version} : status'[v] = status[v]
    BY <1>14 DEF PauseForMapping
  <2> QED
    BY <2>1, <2>2, OneMoreComplete
<1>15. ASSUME NEW w \in Workers, FailIngestionJob(w) PROVE ActivatedIsComplete'
  BY <1>15, ClaimsType DEF FailIngestionJob, Holds
<1>16. ASSUME NEW w \in Workers, AbandonJob(w) \/ Crash(w) PROVE ActivatedIsComplete'
  BY <1>16, ClaimsType DEF AbandonJob, Crash, domainVars, jobVars
<1>17. ASSUME UNCHANGED vars PROVE ActivatedIsComplete'
  BY <1>17 DEF vars, domainVars, jobVars
<1> QED
  BY <1>1, <1>2, <1>3, <1>4, <1>5, <1>6, <1>7, <1>8, <1>9, <1>10, <1>11, <1>12, <1>13, <1>14, <1>15, <1>16, <1>17 DEF Next, Command, Work

LEMMA StepQuiet ==
    ASSUME IInv, TypeOK', [Next]_vars
    PROVE  DeletedDocumentIsQuiet'
<1> USE IngestionAssumption DEF IInv, TypeOK, JobActive, JobMatchesVersion, DeletedDocumentIsQuiet
<1>1. ASSUME NEW d \in Documents, NEW v \in Versions, AcceptFirstUpload(d, v) PROVE DeletedDocumentIsQuiet'
  BY <1>1 DEF AcceptFirstUpload, CreateIngestion
<1>2. ASSUME NEW d \in Documents, NEW v \in Versions, AcceptDocumentVersion(d, v) PROVE DeletedDocumentIsQuiet'
  BY <1>2 DEF AcceptDocumentVersion, CreateIngestion
<1>3. ASSUME NEW s \in Versions, NEW v \in Versions, owner[s] # None, RetryFailedVersion(s, v) PROVE DeletedDocumentIsQuiet'
  BY <1>3 DEF RetryFailedVersion, CreateIngestion
<1>4. ASSUME NEW s \in Versions, NEW v \in Versions, owner[s] # None, RollbackToVersion(s, v) PROVE DeletedDocumentIsQuiet'
  BY <1>4 DEF RollbackToVersion, CreateIngestion
<1>5. ASSUME NEW v \in Versions, VoidVersion(v) PROVE DeletedDocumentIsQuiet'
  BY <1>5 DEF VoidVersion, Fallbacks
<1>6. ASSUME NEW v \in Versions, ConfirmPageMapping(v) PROVE DeletedDocumentIsQuiet'
  BY <1>6 DEF ConfirmPageMapping, SwitchCurrent
<1>7. ASSUME NEW d \in Documents, SoftDeleteDocument(d) PROVE DeletedDocumentIsQuiet'
  BY <1>7 DEF SoftDeleteDocument, Unfinished, VersionsOf
<1>8. ASSUME NEW d \in Documents, RestoreDocument(d) PROVE DeletedDocumentIsQuiet'
  BY <1>8 DEF RestoreDocument, jobVars
<1>9. ASSUME NEW v \in Versions, TimerFires(v) PROVE DeletedDocumentIsQuiet'
  BY <1>9 DEF TimerFires, domainVars
<1>10. ASSUME NEW w \in Workers, ClaimNextJob(w) PROVE DeletedDocumentIsQuiet'
  BY <1>10 DEF ClaimNextJob, NextAttempt, Exhausted, Claimable
<1>11. ASSUME NEW w \in Workers, RecordResult(w) PROVE DeletedDocumentIsQuiet'
  BY <1>11, ClaimsType DEF RecordResult, HoldsLive, Holds, domainVars
<1>12. ASSUME NEW w \in Workers, Checkpoint(w) PROVE DeletedDocumentIsQuiet'
  BY <1>12, ClaimsType DEF Checkpoint, Holds, domainVars
<1>13. ASSUME NEW w \in Workers, ActivateVersion(w) PROVE DeletedDocumentIsQuiet'
  BY <1>13, ClaimsType DEF ActivateVersion, SwitchCurrent, HoldsLive, Holds
<1>14. ASSUME NEW w \in Workers, PauseForMapping(w) PROVE DeletedDocumentIsQuiet'
  BY <1>14, ClaimsType DEF PauseForMapping, HoldsLive, Holds
<1>15. ASSUME NEW w \in Workers, FailIngestionJob(w) PROVE DeletedDocumentIsQuiet'
  BY <1>15, ClaimsType DEF FailIngestionJob, Holds
<1>16. ASSUME NEW w \in Workers, AbandonJob(w) \/ Crash(w) PROVE DeletedDocumentIsQuiet'
  BY <1>16, ClaimsType DEF AbandonJob, Crash, domainVars, jobVars
<1>17. ASSUME UNCHANGED vars PROVE DeletedDocumentIsQuiet'
  BY <1>17 DEF vars, domainVars, jobVars
<1> QED
  BY <1>1, <1>2, <1>3, <1>4, <1>5, <1>6, <1>7, <1>8, <1>9, <1>10, <1>11, <1>12, <1>13, <1>14, <1>15, <1>16, <1>17 DEF Next, Command, Work

LEMMA StepClaims ==
    ASSUME IInv, TypeOK', [Next]_vars
    PROVE  ClaimsWereIssued'
<1> USE IngestionAssumption DEF IInv, TypeOK, ClaimsWereIssued, Idle
<1>1. ASSUME NEW d \in Documents, NEW v \in Versions, AcceptFirstUpload(d, v) PROVE ClaimsWereIssued'
  BY <1>1 DEF AcceptFirstUpload, CreateIngestion
<1>2. ASSUME NEW d \in Documents, NEW v \in Versions, AcceptDocumentVersion(d, v) PROVE ClaimsWereIssued'
  BY <1>2 DEF AcceptDocumentVersion, CreateIngestion
<1>3. ASSUME NEW s \in Versions, NEW v \in Versions, owner[s] # None, RetryFailedVersion(s, v) PROVE ClaimsWereIssued'
  BY <1>3 DEF RetryFailedVersion, CreateIngestion
<1>4. ASSUME NEW s \in Versions, NEW v \in Versions, owner[s] # None, RollbackToVersion(s, v) PROVE ClaimsWereIssued'
  BY <1>4 DEF RollbackToVersion, CreateIngestion
<1>5. ASSUME NEW v \in Versions, VoidVersion(v) PROVE ClaimsWereIssued'
  BY <1>5 DEF VoidVersion, Fallbacks
<1>6. ASSUME NEW v \in Versions, ConfirmPageMapping(v) PROVE ClaimsWereIssued'
  BY <1>6 DEF ConfirmPageMapping, SwitchCurrent
<1>7. ASSUME NEW d \in Documents, SoftDeleteDocument(d) PROVE ClaimsWereIssued'
  BY <1>7 DEF SoftDeleteDocument, Unfinished, VersionsOf
<1>8. ASSUME NEW d \in Documents, RestoreDocument(d) PROVE ClaimsWereIssued'
  BY <1>8 DEF RestoreDocument, jobVars
<1>9. ASSUME NEW v \in Versions, TimerFires(v) PROVE ClaimsWereIssued'
  BY <1>9 DEF TimerFires, domainVars
<1>10. ASSUME NEW w \in Workers, ClaimNextJob(w) PROVE ClaimsWereIssued'
  BY <1>10 DEF ClaimNextJob, NextAttempt, Exhausted, Claimable
<1>11. ASSUME NEW w \in Workers, RecordResult(w) PROVE ClaimsWereIssued'
  BY <1>11, ClaimsType DEF RecordResult, HoldsLive, Holds, domainVars
<1>12. ASSUME NEW w \in Workers, Checkpoint(w) PROVE ClaimsWereIssued'
  BY <1>12, ClaimsType DEF Checkpoint, Holds, domainVars
<1>13. ASSUME NEW w \in Workers, ActivateVersion(w) PROVE ClaimsWereIssued'
  BY <1>13, ClaimsType DEF ActivateVersion, SwitchCurrent, HoldsLive, Holds
<1>14. ASSUME NEW w \in Workers, PauseForMapping(w) PROVE ClaimsWereIssued'
  BY <1>14, ClaimsType DEF PauseForMapping, HoldsLive, Holds
<1>15. ASSUME NEW w \in Workers, FailIngestionJob(w) PROVE ClaimsWereIssued'
  BY <1>15, ClaimsType DEF FailIngestionJob, Holds
<1>16. ASSUME NEW w \in Workers, AbandonJob(w) \/ Crash(w) PROVE ClaimsWereIssued'
  BY <1>16, ClaimsType DEF AbandonJob, Crash, domainVars, jobVars
<1>17. ASSUME UNCHANGED vars PROVE ClaimsWereIssued'
  BY <1>17 DEF vars, domainVars, jobVars
<1> QED
  BY <1>1, <1>2, <1>3, <1>4, <1>5, <1>6, <1>7, <1>8, <1>9, <1>10, <1>11, <1>12, <1>13, <1>14, <1>15, <1>16, <1>17 DEF Next, Command, Work

LEMMA StepTokens ==
    ASSUME IInv, TypeOK', [Next]_vars
    PROVE  TokensAreUnique'
<1> USE IngestionAssumption DEF IInv, TypeOK, ClaimsWereIssued, TokensAreUnique, Idle
<1>1. ASSUME NEW d \in Documents, NEW v \in Versions, AcceptFirstUpload(d, v) PROVE TokensAreUnique'
  BY <1>1 DEF AcceptFirstUpload, CreateIngestion
<1>2. ASSUME NEW d \in Documents, NEW v \in Versions, AcceptDocumentVersion(d, v) PROVE TokensAreUnique'
  BY <1>2 DEF AcceptDocumentVersion, CreateIngestion
<1>3. ASSUME NEW s \in Versions, NEW v \in Versions, owner[s] # None, RetryFailedVersion(s, v) PROVE TokensAreUnique'
  BY <1>3 DEF RetryFailedVersion, CreateIngestion
<1>4. ASSUME NEW s \in Versions, NEW v \in Versions, owner[s] # None, RollbackToVersion(s, v) PROVE TokensAreUnique'
  BY <1>4 DEF RollbackToVersion, CreateIngestion
<1>5. ASSUME NEW v \in Versions, VoidVersion(v) PROVE TokensAreUnique'
  BY <1>5 DEF VoidVersion, Fallbacks
<1>6. ASSUME NEW v \in Versions, ConfirmPageMapping(v) PROVE TokensAreUnique'
  BY <1>6 DEF ConfirmPageMapping, SwitchCurrent
<1>7. ASSUME NEW d \in Documents, SoftDeleteDocument(d) PROVE TokensAreUnique'
  BY <1>7 DEF SoftDeleteDocument, Unfinished, VersionsOf
<1>8. ASSUME NEW d \in Documents, RestoreDocument(d) PROVE TokensAreUnique'
  BY <1>8 DEF RestoreDocument, jobVars
<1>9. ASSUME NEW v \in Versions, TimerFires(v) PROVE TokensAreUnique'
  BY <1>9 DEF TimerFires, domainVars
<1>10. ASSUME NEW w \in Workers, ClaimNextJob(w) PROVE TokensAreUnique'
  BY <1>10 DEF ClaimNextJob, NextAttempt, Exhausted, Claimable
<1>11. ASSUME NEW w \in Workers, RecordResult(w) PROVE TokensAreUnique'
  BY <1>11, ClaimsType DEF RecordResult, HoldsLive, Holds, domainVars
<1>12. ASSUME NEW w \in Workers, Checkpoint(w) PROVE TokensAreUnique'
  BY <1>12, ClaimsType DEF Checkpoint, Holds, domainVars
<1>13. ASSUME NEW w \in Workers, ActivateVersion(w) PROVE TokensAreUnique'
  BY <1>13, ClaimsType DEF ActivateVersion, SwitchCurrent, HoldsLive, Holds
<1>14. ASSUME NEW w \in Workers, PauseForMapping(w) PROVE TokensAreUnique'
  BY <1>14, ClaimsType DEF PauseForMapping, HoldsLive, Holds
<1>15. ASSUME NEW w \in Workers, FailIngestionJob(w) PROVE TokensAreUnique'
  BY <1>15, ClaimsType DEF FailIngestionJob, Holds
<1>16. ASSUME NEW w \in Workers, AbandonJob(w) \/ Crash(w) PROVE TokensAreUnique'
  BY <1>16, ClaimsType DEF AbandonJob, Crash, domainVars, jobVars
<1>17. ASSUME UNCHANGED vars PROVE TokensAreUnique'
  BY <1>17 DEF vars, domainVars, jobVars
<1> QED
  BY <1>1, <1>2, <1>3, <1>4, <1>5, <1>6, <1>7, <1>8, <1>9, <1>10, <1>11, <1>12, <1>13, <1>14, <1>15, <1>16, <1>17 DEF Next, Command, Work
LEMMA StepOneActive ==
    ASSUME IInv, TypeOK', [Next]_vars
    PROVE  OneActiveIngestionPerDocument'
<1> USE IngestionAssumption DEF IInv, TypeOK, JobActive, JobMatchesVersion, OneActiveIngestionPerDocument, OwnersExist
<1>1. ASSUME NEW d \in Documents, NEW v \in Versions, AcceptFirstUpload(d, v) PROVE OneActiveIngestionPerDocument'
  BY <1>1 DEF AcceptFirstUpload, CreateIngestion, HasActiveVersion, VersionsOf
<1>2. ASSUME NEW d \in Documents, NEW v \in Versions, AcceptDocumentVersion(d, v) PROVE OneActiveIngestionPerDocument'
  BY <1>2 DEF AcceptDocumentVersion, CreateIngestion, HasActiveVersion, VersionsOf
<1>3. ASSUME NEW s \in Versions, NEW v \in Versions, owner[s] # None, RetryFailedVersion(s, v) PROVE OneActiveIngestionPerDocument'
  BY <1>3 DEF RetryFailedVersion, CreateIngestion, HasActiveJob, VersionsOf
<1>4. ASSUME NEW s \in Versions, NEW v \in Versions, owner[s] # None, RollbackToVersion(s, v) PROVE OneActiveIngestionPerDocument'
  BY <1>4 DEF RollbackToVersion, CreateIngestion, HasActiveJob, VersionsOf
<1>5. ASSUME NEW v \in Versions, VoidVersion(v) PROVE OneActiveIngestionPerDocument'
  BY <1>5 DEF VoidVersion, Fallbacks
<1>6. ASSUME NEW v \in Versions, ConfirmPageMapping(v) PROVE OneActiveIngestionPerDocument'
  BY <1>6 DEF ConfirmPageMapping, SwitchCurrent
<1>7. ASSUME NEW d \in Documents, SoftDeleteDocument(d) PROVE OneActiveIngestionPerDocument'
  BY <1>7 DEF SoftDeleteDocument, Unfinished, VersionsOf
<1>8. ASSUME NEW d \in Documents, RestoreDocument(d) PROVE OneActiveIngestionPerDocument'
  BY <1>8 DEF RestoreDocument, jobVars
<1>9. ASSUME NEW v \in Versions, TimerFires(v) PROVE OneActiveIngestionPerDocument'
  BY <1>9 DEF TimerFires, domainVars
<1>10. ASSUME NEW w \in Workers, ClaimNextJob(w) PROVE OneActiveIngestionPerDocument'
  BY <1>10 DEF ClaimNextJob, NextAttempt, Exhausted, Claimable
<1>11. ASSUME NEW w \in Workers, RecordResult(w) PROVE OneActiveIngestionPerDocument'
  BY <1>11, ClaimsType DEF RecordResult, HoldsLive, Holds, domainVars
<1>12. ASSUME NEW w \in Workers, Checkpoint(w) PROVE OneActiveIngestionPerDocument'
  BY <1>12, ClaimsType DEF Checkpoint, Holds, domainVars
<1>13. ASSUME NEW w \in Workers, ActivateVersion(w) PROVE OneActiveIngestionPerDocument'
  BY <1>13, ClaimsType DEF ActivateVersion, SwitchCurrent, HoldsLive, Holds
<1>14. ASSUME NEW w \in Workers, PauseForMapping(w) PROVE OneActiveIngestionPerDocument'
  BY <1>14, ClaimsType DEF PauseForMapping, HoldsLive, Holds
<1>15. ASSUME NEW w \in Workers, FailIngestionJob(w) PROVE OneActiveIngestionPerDocument'
  BY <1>15, ClaimsType DEF FailIngestionJob, Holds
<1>16. ASSUME NEW w \in Workers, AbandonJob(w) \/ Crash(w) PROVE OneActiveIngestionPerDocument'
  BY <1>16, ClaimsType DEF AbandonJob, Crash, domainVars, jobVars
<1>17. ASSUME UNCHANGED vars PROVE OneActiveIngestionPerDocument'
  BY <1>17 DEF vars, domainVars, jobVars
<1> QED
  BY <1>1, <1>2, <1>3, <1>4, <1>5, <1>6, <1>7, <1>8, <1>9, <1>10, <1>11, <1>12, <1>13, <1>14, <1>15, <1>16, <1>17 DEF Next, Command, Work

\* A step that neither adds, removes nor re-ranks ready versions keeps the current one latest.
LEMMA SameReadySameCurrent ==
    ASSUME CurrentIsLatestReady, UNCHANGED <<owner, readyAt, current>>,
           \A v \in Versions : status'[v] = "ready" <=> status[v] = "ready"
    PROVE  CurrentIsLatestReady'
<1>1. \A d \in Documents : Ready(d)' = Ready(d)
  BY DEF Ready, VersionsOf
<1>2. ASSUME NEW S PROVE Latest(S)' = Latest(S)
  BY DEF Latest
<1> QED
  BY <1>1, <1>2 DEF CurrentIsLatestReady, Latest

\* A version that becomes ready gets the highest rank and is made current.
LEMMA SwitchKeepsLatest ==
    ASSUME TypeOK, RanksBounded, CurrentIsLatestReady, NEW v \in Versions, SwitchCurrent(v)
    PROVE  CurrentIsLatestReady'
<1> USE DEF TypeOK, RanksBounded, Ready, VersionsOf, SwitchCurrent
<1>1. \A u \in Versions : readyAt'[u] <= activations + 1
  BY SMT
<1>2. readyAt'[v] = activations + 1 /\ status'[v] = "ready" /\ owner' = owner
  BY SMT
<1>3. ASSUME NEW d \in Documents, d = owner[v] PROVE current'[d] \in Latest(Ready(d))'
  <2>1. current'[d] = v /\ v \in Ready(d)'
    BY <1>2, <1>3
  <2>2. \A u \in Ready(d)' : readyAt'[u] <= readyAt'[v]
    BY <1>1, <1>2
  <2> QED
    BY <2>1, <2>2 DEF Latest
<1>4. ASSUME NEW d \in Documents, d # owner[v] PROVE current'[d] \in Latest(Ready(d))'
  <2>1. current'[d] = current[d] /\ Ready(d)' = Ready(d)
    BY <1>4
  <2>2. \A u \in Ready(d) : readyAt'[u] = readyAt[u]
    BY <1>4
  <2>3. current[d] \in Latest(Ready(d))
    BY DEF CurrentIsLatestReady
  <2> QED
    BY <2>1, <2>2, <2>3 DEF Latest
<1> QED
  BY <1>3, <1>4 DEF CurrentIsLatestReady

LEMMA StepCurrent ==
    ASSUME IInv, TypeOK', [Next]_vars
    PROVE  CurrentIsLatestReady'
<1> USE IngestionAssumption DEF IInv, TypeOK, JobActive, JobMatchesVersion, CurrentIsLatestReady, RanksBounded, Latest, Ready, VersionsOf
<1>1. ASSUME NEW d \in Documents, NEW v \in Versions, AcceptFirstUpload(d, v) PROVE CurrentIsLatestReady'
  BY <1>1 DEF AcceptFirstUpload, CreateIngestion
<1>2. ASSUME NEW d \in Documents, NEW v \in Versions, AcceptDocumentVersion(d, v) PROVE CurrentIsLatestReady'
  BY <1>2 DEF AcceptDocumentVersion, CreateIngestion
<1>3. ASSUME NEW s \in Versions, NEW v \in Versions, owner[s] # None, RetryFailedVersion(s, v) PROVE CurrentIsLatestReady'
  BY <1>3 DEF RetryFailedVersion, CreateIngestion
<1>4. ASSUME NEW s \in Versions, NEW v \in Versions, owner[s] # None, RollbackToVersion(s, v) PROVE CurrentIsLatestReady'
  BY <1>4 DEF RollbackToVersion, CreateIngestion
<1>5. ASSUME NEW v \in Versions, VoidVersion(v) PROVE CurrentIsLatestReady'
  BY <1>5 DEF VoidVersion, Fallbacks
<1>6. ASSUME NEW v \in Versions, ConfirmPageMapping(v) PROVE CurrentIsLatestReady'
  BY <1>6, SwitchKeepsLatest DEF ConfirmPageMapping
<1>7. ASSUME NEW d \in Documents, SoftDeleteDocument(d) PROVE CurrentIsLatestReady'
  <2>1. \A v \in Versions : status'[v] = "ready" <=> status[v] = "ready"
    BY <1>7 DEF SoftDeleteDocument, Unfinished
  <2> QED
    BY <1>7, <2>1, SameReadySameCurrent DEF SoftDeleteDocument
<1>8. ASSUME NEW d \in Documents, RestoreDocument(d) PROVE CurrentIsLatestReady'
  BY <1>8 DEF RestoreDocument, jobVars
<1>9. ASSUME NEW v \in Versions, TimerFires(v) PROVE CurrentIsLatestReady'
  BY <1>9 DEF TimerFires, domainVars
<1>10. ASSUME NEW w \in Workers, ClaimNextJob(w) PROVE CurrentIsLatestReady'
  <2>1. \A v \in Versions : status'[v] = "ready" <=> status[v] = "ready"
    BY <1>10 DEF ClaimNextJob, NextAttempt
  <2> QED
    BY <1>10, <2>1, SameReadySameCurrent DEF ClaimNextJob, NextAttempt
<1>11. ASSUME NEW w \in Workers, RecordResult(w) PROVE CurrentIsLatestReady'
  BY <1>11, ClaimsType DEF RecordResult, HoldsLive, Holds, domainVars
<1>12. ASSUME NEW w \in Workers, Checkpoint(w) PROVE CurrentIsLatestReady'
  BY <1>12, ClaimsType DEF Checkpoint, Holds, domainVars
<1>13. ASSUME NEW w \in Workers, ActivateVersion(w) PROVE CurrentIsLatestReady'
  BY <1>13, ClaimsType, SwitchKeepsLatest DEF ActivateVersion, HoldsLive, Holds
<1>14. ASSUME NEW w \in Workers, PauseForMapping(w) PROVE CurrentIsLatestReady'
  BY <1>14, ClaimsType DEF PauseForMapping, HoldsLive, Holds
<1>15. ASSUME NEW w \in Workers, FailIngestionJob(w) PROVE CurrentIsLatestReady'
  BY <1>15, ClaimsType DEF FailIngestionJob, Holds
<1>16. ASSUME NEW w \in Workers, AbandonJob(w) \/ Crash(w) PROVE CurrentIsLatestReady'
  BY <1>16, ClaimsType DEF AbandonJob, Crash, domainVars, jobVars
<1>17. ASSUME UNCHANGED vars PROVE CurrentIsLatestReady'
  BY <1>17 DEF vars, domainVars, jobVars
<1> QED
  BY <1>1, <1>2, <1>3, <1>4, <1>5, <1>6, <1>7, <1>8, <1>9, <1>10, <1>11, <1>12, <1>13, <1>14, <1>15, <1>16, <1>17 DEF Next, Command, Work

-----------------------------------------------------------------------------
(* The theorems. *)

LEMMA InitIInv == Init => IInv
<1> SUFFICES ASSUME Init PROVE IInv
  OBVIOUS
<1> USE IngestionAssumption
<1>1. TypeOK
  BY InitType
<1>2. JobMatchesVersion /\ OneActiveIngestionPerDocument /\ ActivatedIsComplete
  BY DEF Init, JobMatchesVersion, OneActiveIngestionPerDocument, ActivatedIsComplete, JobActive
<1>3. CurrentIsLatestReady
  BY DEF Init, CurrentIsLatestReady, Latest, Ready, VersionsOf
<1>4. DeletedDocumentIsQuiet /\ RanksBounded /\ OwnersExist
  BY DEF Init, DeletedDocumentIsQuiet, RanksBounded, OwnersExist
<1>5. ClaimsWereIssued /\ TokensAreUnique
  BY DEF Init, ClaimsWereIssued, TokensAreUnique, Idle
<1> QED
  BY <1>1, <1>2, <1>3, <1>4, <1>5 DEF IInv

LEMMA StepIInv == IInv /\ [Next]_vars => IInv'
<1> SUFFICES ASSUME IInv, [Next]_vars PROVE IInv'
  OBVIOUS
<1>1. TypeOK'
  BY StepType DEF IInv
<1> QED
  BY <1>1, StepJobMatches, StepOneActive, StepCurrent, StepComplete, StepQuiet,
     StepRanks, StepOwners, StepClaims, StepTokens DEF IInv

LEMMA Inductive == Spec => []IInv
  BY InitIInv, StepIInv, PTL DEF Spec

\* Versions and their jobs never disagree.
THEOREM JobsMatchVersions == Spec => []JobMatchesVersion
<1>1. IInv => JobMatchesVersion
  BY DEF IInv
<1> QED
  BY <1>1, Inductive, PTL

\* The unique index one_active_ingestion_job_per_document is never hit.
THEOREM OneActiveIngestion == Spec => []OneActiveIngestionPerDocument
<1>1. IInv => OneActiveIngestionPerDocument
  BY DEF IInv
<1> QED
  BY <1>1, Inductive, PTL

\* The current version is the ready version that became ready last.
THEOREM CurrentLatest == Spec => []CurrentIsLatestReady
<1>1. IInv => CurrentIsLatestReady
  BY DEF IInv
<1> QED
  BY <1>1, Inductive, PTL

\* Nothing activates or pauses with stage results missing.
THEOREM ActivatedComplete == Spec => []ActivatedIsComplete
<1>1. IInv => ActivatedIsComplete
  BY DEF IInv
<1> QED
  BY <1>1, Inductive, PTL

\* A soft-deleted document has no job in the queue and none running.
THEOREM DeletedQuiet == Spec => []DeletedDocumentIsQuiet
<1>1. IInv => DeletedDocumentIsQuiet
  BY DEF IInv
<1> QED
  BY <1>1, Inductive, PTL

\* At most one worker holds the lease of a job.
THEOREM UniqueLeaseHolder == Spec => []OneLeaseHolder
<1>1. IInv => OneLeaseHolder
  BY DEF IInv, OneLeaseHolder, TokensAreUnique, Holds
<1> QED
  BY <1>1, Inductive, PTL

\* A page result is written while exactly one worker holds the job, and by that one.
LEMMA RecordedByHolder ==
    ASSUME IInv, [Next]_vars, NEW v \in Versions, recorded'[v] # recorded[v]
    PROVE  \E w \in Workers :
                /\ {x \in Workers : Holds(x) /\ claim[x].version = v} = {w}
                /\ timer[v] = "lease"
                /\ claim[w].step = recorded[v]
                /\ recorded'[v] = recorded[v] + 1
<1>1. ~UNCHANGED recorded
  OBVIOUS
<1>2. ~Command
  BY <1>1 DEF Command, AcceptFirstUpload, AcceptDocumentVersion, RetryFailedVersion,
              RollbackToVersion, CreateIngestion, VoidVersion, ConfirmPageMapping,
              SoftDeleteDocument, RestoreDocument, jobVars
<1>3. \A u \in Versions : ~TimerFires(u)
  BY <1>1 DEF TimerFires
<1>4. PICK w \in Workers : ClaimNextJob(w) \/ Work(w) \/ FailIngestionJob(w) \/ Crash(w)
  BY <1>1, <1>2, <1>3 DEF Next, vars, jobVars
<1>5. RecordResult(w)
  BY <1>1, <1>4 DEF ClaimNextJob, Work, Checkpoint, ActivateVersion, PauseForMapping,
                    AbandonJob, FailIngestionJob, Crash, jobVars
<1>6. /\ claim[w].version = v /\ Holds(w) /\ timer[v] = "lease"
      /\ claim[w].step = recorded[v] /\ recorded'[v] = recorded[v] + 1
  BY <1>5 DEF RecordResult, HoldsLive, Holds, IInv, TypeOK
<1>7. \A x \in Workers : Holds(x) /\ claim[x].version = v => x = w
  BY <1>6 DEF IInv, TokensAreUnique, Holds
<1> QED
  BY <1>6, <1>7

\* A worker that lost its lease can change nothing but its own memory; page results
\* included, which only the one holder of the job adds.
THEOREM StaleHarmless == Spec => StaleClaimIsHarmless
<1> DEFINE Harmless ==
        \A w \in Workers :
            claim[w].version # None /\ ~Holds(w) /\ claim'[w] # claim[w]
            => UNCHANGED <<domainVars, jobVars>>
           Recording ==
        \A v \in Versions : recorded'[v] # recorded[v] =>
            \E w \in Workers :
                /\ {x \in Workers : Holds(x) /\ claim[x].version = v} = {w}
                /\ timer[v] = "lease"
                /\ claim[w].step = recorded[v]
                /\ recorded'[v] = recorded[v] + 1
<1>1. ASSUME IInv, [Next]_vars PROVE Harmless
  <2> SUFFICES ASSUME NEW x \in Workers,
                      claim[x].version # None, ~Holds(x), claim'[x] # claim[x]
               PROVE  UNCHANGED <<domainVars, jobVars>>
    OBVIOUS
  <2>1. ~UNCHANGED claim
    OBVIOUS
  <2>2. ~Command
    BY <2>1 DEF Command, AcceptFirstUpload, AcceptDocumentVersion, RetryFailedVersion,
                RollbackToVersion, CreateIngestion, VoidVersion, Fallbacks, ConfirmPageMapping,
                SoftDeleteDocument, RestoreDocument
  <2>3. \A v \in Versions : ~TimerFires(v)
    BY <2>1 DEF TimerFires
  <2>4. PICK w \in Workers : ClaimNextJob(w) \/ Work(w) \/ FailIngestionJob(w) \/ Crash(w)
    BY <1>1, <2>1, <2>2, <2>3 DEF Next, vars
  <2>5. CASE w # x
    <3>1. claim'[x] = claim[x]
      BY <2>4, <2>5, <1>1 DEF IInv, TypeOK, ClaimNextJob, NextAttempt, Work, RecordResult, Checkpoint,
            ActivateVersion, PauseForMapping, AbandonJob, FailIngestionJob, Crash
    <3> QED
      BY <3>1
  <2>6. CASE w = x
    BY <2>4, <2>6 DEF ClaimNextJob, NextAttempt, Work, RecordResult, Checkpoint, ActivateVersion,
          PauseForMapping, AbandonJob, FailIngestionJob, Crash, HoldsLive, Holds
  <2> QED
    BY <2>5, <2>6
<1>2. ASSUME IInv, [Next]_vars PROVE Recording
  BY <1>2, RecordedByHolder
<1>3. IInv /\ [Next]_vars => [Harmless /\ Recording]_vars
  BY <1>1, <1>2
<1> QED
  BY <1>3, Inductive, PTL DEF Spec, StaleClaimIsHarmless

-----------------------------------------------------------------------------
(* Ingestion implements VersionLifecycle. *)

LEMMA RefinesInit == Init => Lifecycle!Init
  BY DEF Init, Lifecycle!Init

LEMMA RefinesStep ==
    ASSUME IInv, [Next]_vars
    PROVE  [Lifecycle!Next]_(Lifecycle!vars)
<1> USE IngestionAssumption DEF IInv, TypeOK
<1>1. ASSUME NEW v \in Versions, NEW d \in Documents, CreateIngestion(d, v)
      PROVE  Lifecycle!Next
  BY <1>1 DEF CreateIngestion, Lifecycle!Next, Lifecycle!Accept
<1>2. ASSUME NEW v \in Versions, VoidVersion(v) PROVE Lifecycle!Next
  <2>1. Lifecycle!Void(v)
    BY <1>2 DEF VoidVersion, Fallbacks, Lifecycle!Void, Lifecycle!Latest, Lifecycle!Ready,
                Latest, Ready, VersionsOf
  <2> QED
    BY <2>1 DEF Lifecycle!Next
<1>3. ASSUME NEW v \in Versions, SwitchCurrent(v),
             status[v] \in {"processing", "awaiting_mapping"}
      PROVE  Lifecycle!Next
  BY <1>3 DEF SwitchCurrent, Lifecycle!Next, Lifecycle!Activate
<1>4. ASSUME NEW S \in SUBSET Versions, \A v \in S : status[v] = "processing",
             status' = [v \in Versions |-> IF v \in S THEN "failed" ELSE status[v]],
             UNCHANGED <<owner, readyAt, current, activations>>
      PROVE  Lifecycle!Next
  BY <1>4 DEF Lifecycle!Next, Lifecycle!Fail
<1>5. ASSUME NEW d \in Documents, SoftDeleteDocument(d) PROVE Lifecycle!Next
  <2> DEFINE S == Unfinished(d)
  <2>1. S \in SUBSET Versions /\ \A v \in S : status[v] = "processing"
    BY DEF Unfinished, VersionsOf
  <2>2. status' = [v \in Versions |-> IF v \in S THEN "failed" ELSE status[v]]
    BY <1>5 DEF SoftDeleteDocument
  <2>3. UNCHANGED <<owner, readyAt, current, activations>>
    BY <1>5 DEF SoftDeleteDocument
  <2> HIDE DEF S
  <2> QED
    BY <2>1, <2>2, <2>3, <1>4
<1>6. ASSUME NEW w \in Workers, ClaimNextJob(w) PROVE Lifecycle!Next
  <2> DEFINE S == {v \in Exhausted : status[v] = "processing"}
  <2>1. S \in SUBSET Versions /\ \A v \in S : status[v] = "processing"
    BY DEF Exhausted
  <2>2. status' = [v \in Versions |-> IF v \in S THEN "failed" ELSE status[v]]
    BY <1>6 DEF ClaimNextJob, NextAttempt
  <2>3. UNCHANGED <<owner, readyAt, current, activations>>
    BY <1>6 DEF ClaimNextJob, NextAttempt
  <2> QED
    BY <2>1, <2>2, <2>3, <1>4
<1>7. ASSUME NEW w \in Workers, FailIngestionJob(w)
      PROVE  Lifecycle!Next \/ UNCHANGED Lifecycle!vars
  <2> DEFINE v == claim[w].version
  <2>1. v \in Versions /\ status[v] = "processing"
    BY <1>7, ClaimsType DEF FailIngestionJob, Holds, JobMatchesVersion
  <2>2. CASE UNCHANGED status
    BY <1>7, <2>2 DEF FailIngestionJob, Lifecycle!vars
  <2>3. CASE status' = [status EXCEPT ![v] = IF @ = "processing" THEN "failed" ELSE @]
    <3>1. status' = [u \in Versions |-> IF u \in {v} THEN "failed" ELSE status[u]]
      BY <2>1, <2>3
    <3>2. UNCHANGED <<owner, readyAt, current, activations>>
      BY <1>7 DEF FailIngestionJob
    <3>3. {v} \in SUBSET Versions /\ \A u \in {v} : status[u] = "processing"
      BY <2>1
    <3> HIDE DEF v
    <3> QED
      BY <3>1, <3>2, <3>3, <1>4
  <2> QED
    BY <1>7, <2>2, <2>3 DEF FailIngestionJob
<1>8. ASSUME NEW w \in Workers, PauseForMapping(w) PROVE Lifecycle!Next
  BY <1>8, ClaimsType DEF PauseForMapping, HoldsLive, Holds, Lifecycle!Next, Lifecycle!Pause
<1>9. ASSUME NEW w \in Workers, ActivateVersion(w) PROVE Lifecycle!Next
  BY <1>9, <1>3, ClaimsType DEF ActivateVersion, HoldsLive, Holds
<1>10. ASSUME Command PROVE Lifecycle!Next \/ UNCHANGED Lifecycle!vars
  <2>1. ASSUME NEW d \in Documents, NEW v \in Versions,
               AcceptFirstUpload(d, v) \/ AcceptDocumentVersion(d, v)
        PROVE  Lifecycle!Next
    BY <2>1, <1>1 DEF AcceptFirstUpload, AcceptDocumentVersion
  <2>2. ASSUME NEW s \in Versions, NEW v \in Versions, owner[s] # None,
               RetryFailedVersion(s, v) \/ RollbackToVersion(s, v)
        PROVE  Lifecycle!Next
    BY <2>2, <1>1 DEF RetryFailedVersion, RollbackToVersion
  <2>3. ASSUME NEW v \in Versions, ConfirmPageMapping(v) PROVE Lifecycle!Next
    BY <2>3, <1>3 DEF ConfirmPageMapping
  <2>4. ASSUME NEW d \in Documents, RestoreDocument(d) PROVE UNCHANGED Lifecycle!vars
    BY <2>4 DEF RestoreDocument, Lifecycle!vars
  <2> QED
    BY <1>10, <2>1, <2>2, <2>3, <2>4, <1>2, <1>5 DEF Command
<1>11. ASSUME NEW w \in Workers,
              RecordResult(w) \/ Checkpoint(w) \/ AbandonJob(w) \/ Crash(w)
       PROVE  UNCHANGED Lifecycle!vars
  BY <1>11 DEF RecordResult, Checkpoint, AbandonJob, Crash, domainVars, Lifecycle!vars
<1>12. ASSUME NEW v \in Versions, TimerFires(v) PROVE UNCHANGED Lifecycle!vars
  BY <1>12 DEF TimerFires, domainVars, Lifecycle!vars
<1>13. ASSUME UNCHANGED vars PROVE UNCHANGED Lifecycle!vars
  BY <1>13 DEF vars, domainVars, Lifecycle!vars
<1> QED
  BY <1>6, <1>7, <1>8, <1>9, <1>10, <1>11, <1>12, <1>13 DEF Next, Work

\* Every behaviour of the ingestion core is a version lifecycle of ADR-0004.
THEOREM Refinement == Spec => ImplementsVersionLifecycle
<1>1. IInv /\ [Next]_vars => [Lifecycle!Next]_(Lifecycle!vars)
  BY RefinesStep
<1> QED
  BY <1>1, RefinesInit, Inductive, PTL DEF Spec, ImplementsVersionLifecycle, Lifecycle!Spec
=============================================================================
