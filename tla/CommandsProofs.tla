---------------------------- MODULE CommandsProofs ----------------------------
(***************************************************************************)
(* Proofs about Commands, for every set of slots and bodies and all the    *)
(* constants of Ingestion.                                                 *)
(***************************************************************************)
EXTENDS Commands, IngestionProofs

(***************************************************************************)
(* The effect of a step on the versions there are.                         *)
(***************************************************************************)
SameVersions == \A v \in Versions : status'[v] = "absent" <=> status[v] = "absent"

Makes(v) ==
    /\ status[v] = "absent"
    /\ \A u \in Versions : status'[u] = "absent" <=> status[u] = "absent" /\ u # v

-----------------------------------------------------------------------------
(* Every step is a step of Ingestion, or leaves it alone. *)

LEMMA CreatesOther ==
    ASSUME NEW d, NEW u \in Versions, NEW v \in Versions, CreateIngestion(d, v), status[u] # "absent"
    PROVE  u # v
  BY DEF CreateIngestion

LEMMA DeliverImplements ==
    ASSUME NEW s \in Slots, NEW b \in Bodies, Deliver(s, b)
    PROVE  [Next]_vars
<1>1. CASE Replay(s, b)
  BY <1>1 DEF Replay
<1>2. CASE FirstUpload(s, b)
  BY <1>2 DEF FirstUpload, Next, Command
<1>3. CASE UploadVersion(s, b)
  <2>1. s.target \in Documents
    BY <1>3, CommandsAssumption DEF UploadVersion
  <2>2. \E v \in Versions : AcceptDocumentVersion(s.target, v)
    BY <1>3 DEF UploadVersion
  <2> QED
    BY <2>1, <2>2 DEF Next, Command
<1>4. CASE UploadAgain(s, b)
  BY <1>4 DEF UploadAgain
<1>5. CASE Derive(s, b)
  <2>1. s.target \in Versions /\ owner[s.target] # None
    BY <1>5, CommandsAssumption DEF Derive
  <2>2. PICK v \in Versions : RetryFailedVersion(s.target, v) \/ RollbackToVersion(s.target, v)
    BY <1>5 DEF Derive
  <2>3. CreateIngestion(owner[s.target], v) /\ status[s.target] # "absent"
    BY <2>2 DEF RetryFailedVersion, RollbackToVersion
  <2>4. s.target # v
    BY <2>1, <2>3, CreatesOther
  <2> QED
    BY <2>1, <2>2, <2>4 DEF Next, Command
<1>6. CASE Void(s, b)
  <2>1. s.target \in Versions /\ VoidVersion(s.target)
    BY <1>6, CommandsAssumption DEF Void
  <2> QED
    BY <2>1 DEF Next, Command
<1>7. CASE ChangeDeletion(s, b)
  <2>1. s.target \in Documents /\ (SoftDeleteDocument(s.target) \/ RestoreDocument(s.target))
    BY <1>7, CommandsAssumption DEF ChangeDeletion
  <2> QED
    BY <2>1 DEF Next, Command
<1> QED
  BY <1>1, <1>2, <1>3, <1>4, <1>5, <1>6, <1>7 DEF Deliver

LEMMA StepImplements == [CommandsNext]_<<vars, commandVars>> => [Next]_vars
<1>1. ASSUME Background PROVE [Next]_vars
  BY <1>1 DEF Background, Next, Command
<1>2. UNCHANGED <<vars, commandVars>> => UNCHANGED vars
  OBVIOUS
<1> QED
  BY <1>1, <1>2, DeliverImplements DEF CommandsNext

\* Whatever clients deliver, and however often, to documents, versions and jobs it looks
\* like commands given once: all theorems about Ingestion hold here.
THEOREM CommandsAreIngestion == CommandsSpec => Spec
<1>1. CommandsInit => Init
  BY DEF CommandsInit
<1> QED
  BY <1>1, StepImplements, PTL DEF CommandsSpec, Spec

-----------------------------------------------------------------------------
(* What is on record. *)

\* A command that took effect is on record.
EffectsRecorded ==
    \A s \in Slots : carried[s] <= 1 /\ (carried[s] # 0 => records[s] # NoRecord)

\* Nobody was told anything else than what is on record.
ToldRecorded ==
    \A s \in Slots : \A t \in told[s] :
        /\ records[s] # NoRecord
        /\ records[s].body = t.body
        /\ records[s].answer = t.answer

\* A record has a request.
RecordsHaveBodies == \A s \in Slots : records[s] # NoRecord => records[s].body # None

\* What records say about versions is true, and stays so because a version keeps its file.
FileOf(s) ==
    LET v == records[s].answer.version IN
    /\ s.route \in {"first", "upload"} => v \in Versions /\ source[v] = records[s].body
    /\ s.route \in {"retry", "rollback"} =>
         /\ s.target \in Versions /\ status[s.target] # "absent"
         /\ v \in Versions /\ source[v] = source[s.target]

RecordsNameTheFile == \A s \in Slots : records[s] # NoRecord => FileOf(s)

\* A version is made for one command only.
Made(s) == records[s].answer.status = "accepted"
MadeOnce ==
    \A s \in Slots : Made(s) =>
        LET v == records[s].answer.version IN
        /\ v \in Versions /\ status[v] # "absent"
        /\ \A r \in Slots \ {s} : Made(r) => records[r].answer.version # v

\* The inductive invariant, on top of that of Ingestion.
CommandsInv ==
    /\ IInv
    /\ CommandsTypeOK
    /\ EffectsRecorded
    /\ ToldRecorded
    /\ RecordsHaveBodies
    /\ RecordsNameTheFile
    /\ MadeOnce

-----------------------------------------------------------------------------
(* Every step accepts a version, answers without one, repeats an answer or answers *)
(* nobody.                                                                         *)

\* A new version with the file f.
Accepts(s, b, v, f) ==
    /\ Makes(v)
    /\ source' = [source EXCEPT ![v] = f]
    /\ CarriedOut(s, b, Answer("accepted", v))
    /\ \/ s.route \in {"first", "upload"} /\ f = b
       \/ /\ s.route \in {"retry", "rollback"} /\ s.target \in Versions
          /\ status[s.target] # "absent" /\ f = source[s.target]

AnswersWithout(s, b, a) ==
    /\ Answered(s, b, a)
    /\ \/ UNCHANGED carried
       \/ carried' = [carried EXCEPT ![s] = @ + 1]
    /\ SameVersions /\ UNCHANGED source
    /\ a \in Answers /\ a.status \notin {"none", "accepted"}
    /\ s.route \notin {"first", "retry", "rollback"}
    /\ s.route = "upload" => a.version \in Versions /\ source[a.version] = b

Silent == SameVersions /\ UNCHANGED commandVars

LEMMA CreateMakes ==
    ASSUME TypeOK, NEW d, NEW v \in Versions, CreateIngestion(d, v)
    PROVE  Makes(v)
<1>1. status \in [Versions -> {"absent", "processing", "awaiting_mapping", "ready", "failed", "voided"}]
  BY DEF TypeOK
<1>2. status[v] = "absent" /\ status' = [status EXCEPT ![v] = "processing"]
  BY DEF CreateIngestion
<1> QED
  BY <1>1, <1>2 DEF Makes

LEMMA WorkersKeepVersions ==
    ASSUME IInv, Background
    PROVE  SameVersions
<1>0. status \in [Versions -> {"absent", "processing", "awaiting_mapping", "ready", "failed", "voided"}]
  BY DEF IInv, TypeOK
<1>1. ASSUME NEW v \in Versions, ConfirmPageMapping(v) PROVE SameVersions
  BY <1>0, <1>1 DEF ConfirmPageMapping, SwitchCurrent, SameVersions
<1>2. ASSUME NEW v \in Versions, TimerFires(v) PROVE SameVersions
  BY <1>2 DEF TimerFires, domainVars, SameVersions
<1>3. ASSUME NEW w \in Workers, ClaimNextJob(w) PROVE SameVersions
  BY <1>0, <1>3 DEF ClaimNextJob, SameVersions
<1>4. ASSUME NEW w \in Workers, RecordResult(w) \/ Checkpoint(w) \/ AbandonJob(w) \/ Crash(w) PROVE SameVersions
  BY <1>4 DEF RecordResult, Checkpoint, AbandonJob, Crash, domainVars, SameVersions
<1>5. ASSUME NEW w \in Workers, ActivateVersion(w) PROVE SameVersions
  BY <1>0, <1>5 DEF ActivateVersion, SwitchCurrent, SameVersions
<1>6. ASSUME NEW w \in Workers, PauseForMapping(w) PROVE SameVersions
  BY <1>0, <1>6 DEF PauseForMapping, SameVersions
<1>7. ASSUME NEW w \in Workers, FailIngestionJob(w) PROVE SameVersions
  BY <1>0, <1>7 DEF FailIngestionJob, SameVersions
<1> QED
  BY <1>1, <1>2, <1>3, <1>4, <1>5, <1>6, <1>7 DEF Background, Work

LEMMA UploadShape ==
    ASSUME CommandsInv, NEW s \in Slots, NEW b \in Bodies, FirstUpload(s, b) \/ UploadVersion(s, b)
    PROVE  \E v \in Versions, f \in Bodies : Accepts(s, b, v, f)
<1>1. PICK v \in Versions : /\ Makes(v) /\ NewSource(v, b)
                            /\ CarriedOut(s, b, Answer("accepted", v))
  <2>1. CASE FirstUpload(s, b)
    BY <2>1, CreateMakes DEF FirstUpload, AcceptFirstUpload, CommandsInv, IInv
  <2>2. CASE UploadVersion(s, b)
    BY <2>2, CreateMakes DEF UploadVersion, AcceptDocumentVersion, CommandsInv, IInv
  <2> QED
    BY <2>1, <2>2
<1>3. s.route \in {"first", "upload"}
  BY DEF FirstUpload, UploadVersion
<1> QED
  BY <1>1, <1>3 DEF Accepts, NewSource

LEMMA DeriveShape ==
    ASSUME CommandsInv, NEW s \in Slots, NEW b \in Bodies, Derive(s, b)
    PROVE  \E v \in Versions, f \in Bodies : Accepts(s, b, v, f)
<1>1. PICK v \in Versions : /\ RetryFailedVersion(s.target, v) \/ RollbackToVersion(s.target, v)
                            /\ NewSource(v, source[s.target])
                            /\ CarriedOut(s, b, Answer("accepted", v))
  BY DEF Derive
<1>2. CreateIngestion(owner[s.target], v) /\ status[s.target] # "absent"
  BY <1>1 DEF RetryFailedVersion, RollbackToVersion
<1>3. Makes(v)
  BY <1>2, CreateMakes DEF CommandsInv, IInv
<1>4. s.route \in {"retry", "rollback"} /\ s.target \in Versions
  BY CommandsAssumption DEF Derive
<1>5. source[s.target] \in Bodies
  BY <1>2, <1>4 DEF CommandsInv, CommandsTypeOK
<1> QED
  BY <1>1, <1>2, <1>3, <1>4, <1>5 DEF Accepts, NewSource

LEMMA AgainShape ==
    ASSUME CommandsInv, NEW s \in Slots, NEW b \in Bodies, UploadAgain(s, b)
    PROVE  \E a \in Answers : AnswersWithout(s, b, a)
<1>1. PICK v \in Versions, st \in {"coalesced", "no_change"} :
        source[v] = b /\ Answered(s, b, Answer(st, v))
  BY DEF UploadAgain, ActiveVersions, VersionsOf, SameCurrent
<1>2. SameVersions /\ UNCHANGED <<source, carried>> /\ s.route = "upload"
  BY DEF UploadAgain, SameVersions, vars, domainVars
<1>3. Answer(st, v) \in Answers /\ Answer(st, v).status = st /\ Answer(st, v).version = v
  BY DEF Answer, Answers, Statuses
<1> QED
  BY <1>1, <1>2, <1>3 DEF AnswersWithout

LEMMA VoidShape ==
    ASSUME CommandsInv, TypeOK', NEW s \in Slots, NEW b \in Bodies, Void(s, b)
    PROVE  \E a \in Answers : AnswersWithout(s, b, a)
<1>1. s.route = "void" /\ s.target \in Versions
  BY CommandsAssumption DEF Void
<1>2. VoidVersion(s.target) /\ CarriedOut(s, b, Answer("voided", current'[owner[s.target]])) /\ UNCHANGED source
  BY DEF Void
<1>3. status \in [Versions -> {"absent", "processing", "awaiting_mapping", "ready", "failed", "voided"}]
  BY DEF CommandsInv, IInv, TypeOK
<1>4. SameVersions
  BY <1>1, <1>2, <1>3 DEF VoidVersion, SameVersions
<1>5. owner[s.target] \in Documents
  BY <1>1, <1>2 DEF CommandsInv, IInv, TypeOK, JobMatchesVersion, VoidVersion
<1>6. current'[owner[s.target]] \in Versions \cup {None}
  BY <1>5 DEF TypeOK
<1> DEFINE a == Answer("voided", current'[owner[s.target]])
<1>7. a \in Answers /\ a.status = "voided"
  BY <1>6 DEF Answer, Answers, Statuses
<1> QED
  BY <1>1, <1>2, <1>4, <1>7 DEF AnswersWithout, CarriedOut

LEMMA DeletionShape ==
    ASSUME CommandsInv, NEW s \in Slots, NEW b \in Bodies, ChangeDeletion(s, b)
    PROVE  \E a \in Answers : AnswersWithout(s, b, a)
<1>1. s.route \in {"delete", "restore"} /\ s.target \in Documents
  BY CommandsAssumption DEF ChangeDeletion
<1>2. CarriedOut(s, b, Answer(s.route, current[s.target])) /\ UNCHANGED source
  BY DEF ChangeDeletion
<1>3. status \in [Versions -> {"absent", "processing", "awaiting_mapping", "ready", "failed", "voided"}]
      /\ \A v \in Versions : status[v] = "absent" <=> job[v] = "absent"
  BY DEF CommandsInv, IInv, TypeOK, JobMatchesVersion
<1>4. SameVersions
  BY <1>3 DEF ChangeDeletion, SoftDeleteDocument, RestoreDocument, Unfinished, VersionsOf, SameVersions
<1>5. current[s.target] \in Versions \cup {None}
  BY <1>1 DEF CommandsInv, IInv, TypeOK
<1> DEFINE a == Answer(s.route, current[s.target])
<1>6. a \in Answers /\ a.status = s.route
  BY <1>1, <1>5 DEF Answer, Answers, Statuses
<1> QED
  BY <1>1, <1>2, <1>4, <1>6 DEF AnswersWithout, CarriedOut

LEMMA StepShape ==
    ASSUME CommandsInv, TypeOK', [CommandsNext]_<<vars, commandVars>>
    PROVE  \/ Silent
           \/ \E s \in Slots, b \in Bodies :
                \/ Replay(s, b)
                \/ \E v \in Versions, f \in Bodies : Accepts(s, b, v, f)
                \/ \E a \in Answers : AnswersWithout(s, b, a)
<1>1. CASE Background
  BY <1>1, WorkersKeepVersions DEF Background, Silent, CommandsInv
<1>2. CASE UNCHANGED <<vars, commandVars>>
  BY <1>2 DEF Silent, SameVersions, vars, domainVars
<1>3. ASSUME NEW s \in Slots, NEW b \in Bodies, Deliver(s, b)
      PROVE  \/ Replay(s, b)
             \/ \E v \in Versions, f \in Bodies : Accepts(s, b, v, f)
             \/ \E a \in Answers : AnswersWithout(s, b, a)
  BY <1>3, UploadShape, DeriveShape, AgainShape, VoidShape, DeletionShape DEF Deliver
<1> QED
  BY <1>1, <1>2, <1>3 DEF CommandsNext

-----------------------------------------------------------------------------
(* The invariant is preserved by each kind of step. *)

LEMMA RecordType ==
    ASSUME CommandsInv, NEW s \in Slots
    PROVE  /\ records[s].answer \in Answers /\ records[s].body \in Bodies \cup {None}
           /\ records[s].answer.version \in Versions \cup {None}
           /\ Made(s) => records[s] # NoRecord
  BY DEF CommandsInv, CommandsTypeOK, Answers, Made, NoRecord

LEMMA NoneIsAbsent ==
    ASSUME CommandsInv, NEW v \in Versions
    PROVE  source[v] = None <=> status[v] = "absent"
  BY DEF CommandsInv, CommandsTypeOK

\* The record that an answer leaves.
LEMMA NewRecord ==
    ASSUME CommandsInv, NEW s \in Slots, NEW b \in Bodies, NEW a \in Answers, Answered(s, b, a)
    PROVE  /\ records' \in [Slots -> [body : Bodies \cup {None}, answer : Answers]]
           /\ told' \in [Slots -> SUBSET [body : Bodies, answer : Answers]]
           /\ records[s] = NoRecord
           /\ records'[s] = [body |-> b, answer |-> a] /\ records'[s] # NoRecord
           /\ \A r \in Slots \ {s} : records'[r] = records[r]
           /\ ToldRecorded' /\ RecordsHaveBodies'
<1>1. /\ records \in [Slots -> [body : Bodies \cup {None}, answer : Answers]]
      /\ told \in [Slots -> SUBSET [body : Bodies, answer : Answers]]
  BY DEF CommandsInv, CommandsTypeOK
<1>2. /\ records[s] = NoRecord
      /\ records' = [records EXCEPT ![s] = [body |-> b, answer |-> a]]
      /\ told' = [told EXCEPT ![s] = @ \cup {[body |-> b, answer |-> a]}]
  BY DEF Answered, Record, Fresh
<1>3. [body |-> b, answer |-> a] # NoRecord
  BY CommandsAssumption DEF NoRecord
<1>4. told[s] = {}
  BY <1>1, <1>2 DEF CommandsInv, ToldRecorded
<1>5. /\ records'[s] = [body |-> b, answer |-> a] /\ told'[s] = {[body |-> b, answer |-> a]}
      /\ \A r \in Slots \ {s} : records'[r] = records[r] /\ told'[r] = told[r]
  BY <1>1, <1>2, <1>4
<1>6. ToldRecorded'
  BY <1>3, <1>5 DEF CommandsInv, ToldRecorded
<1>7. RecordsHaveBodies'
  BY <1>5, CommandsAssumption DEF CommandsInv, RecordsHaveBodies
<1> QED
  BY <1>1, <1>2, <1>3, <1>5, <1>6, <1>7

LEMMA CarriedStays ==
    ASSUME CommandsInv, NEW s \in Slots, records[s] = NoRecord, records'[s] # NoRecord,
           \A r \in Slots \ {s} : records'[r] = records[r],
           UNCHANGED carried \/ carried' = [carried EXCEPT ![s] = @ + 1]
    PROVE  carried' \in [Slots -> Nat] /\ EffectsRecorded'
<1>1. carried \in [Slots -> Nat] /\ carried[s] = 0
  BY DEF CommandsInv, CommandsTypeOK, EffectsRecorded
<1> QED
  BY <1>1 DEF CommandsInv, EffectsRecorded

LEMMA SilentKeeps ==
    ASSUME CommandsInv, IInv', Silent
    PROVE  CommandsInv'
<1>1. UNCHANGED <<source, records, told, carried>> /\ SameVersions
  BY DEF Silent, commandVars
<1>2. CommandsTypeOK'
  BY <1>1 DEF CommandsInv, CommandsTypeOK, SameVersions
<1>3. EffectsRecorded' /\ ToldRecorded'
  BY <1>1 DEF CommandsInv, EffectsRecorded, ToldRecorded
<1>6. RecordsHaveBodies'
  BY <1>1 DEF CommandsInv, RecordsHaveBodies
<1>4. RecordsNameTheFile'
  BY <1>1 DEF CommandsInv, RecordsNameTheFile, FileOf, SameVersions
<1>5. MadeOnce'
  BY <1>1 DEF CommandsInv, MadeOnce, Made, SameVersions
<1> QED
  BY <1>2, <1>3, <1>4, <1>5, <1>6 DEF CommandsInv

LEMMA ReplayKeeps ==
    ASSUME CommandsInv, IInv', NEW s \in Slots, NEW b \in Bodies, Replay(s, b)
    PROVE  CommandsInv'
<1>1. /\ UNCHANGED <<source, records, carried>> /\ SameVersions
      /\ told' = [told EXCEPT ![s] = @ \cup {[body |-> b, answer |-> records[s].answer]}]
      /\ records[s] # NoRecord /\ records[s].body = b
  BY DEF Replay, Replayed, SameVersions, vars, domainVars
<1>2. told \in [Slots -> SUBSET [body : Bodies, answer : Answers]] /\ records[s].answer \in Answers
  BY RecordType DEF CommandsInv, CommandsTypeOK
<1>3. CommandsTypeOK'
  <2>1. told' \in [Slots -> SUBSET [body : Bodies, answer : Answers]]
    BY <1>1, <1>2
  <2> QED
    BY <2>1, <1>1 DEF CommandsInv, CommandsTypeOK, SameVersions
<1>4. EffectsRecorded'
  BY <1>1 DEF CommandsInv, EffectsRecorded
<1>5. ToldRecorded'
  BY <1>1, <1>2 DEF CommandsInv, ToldRecorded
<1>6. RecordsNameTheFile'
  BY <1>1 DEF CommandsInv, RecordsNameTheFile, FileOf, SameVersions
<1>7. MadeOnce'
  BY <1>1 DEF CommandsInv, MadeOnce, Made, SameVersions
<1>8. RecordsHaveBodies'
  BY <1>1 DEF CommandsInv, RecordsHaveBodies
<1> QED
  BY <1>3, <1>4, <1>5, <1>6, <1>7, <1>8 DEF CommandsInv

LEMMA WithoutKeeps ==
    ASSUME CommandsInv, IInv', NEW s \in Slots, NEW b \in Bodies, NEW a \in Answers, AnswersWithout(s, b, a)
    PROVE  CommandsInv'
<1>1. /\ records' \in [Slots -> [body : Bodies \cup {None}, answer : Answers]]
      /\ told' \in [Slots -> SUBSET [body : Bodies, answer : Answers]]
      /\ records[s] = NoRecord
      /\ records'[s] = [body |-> b, answer |-> a] /\ records'[s] # NoRecord
      /\ \A r \in Slots \ {s} : records'[r] = records[r]
      /\ ToldRecorded' /\ RecordsHaveBodies'
  BY NewRecord DEF AnswersWithout
<1>2. carried' \in [Slots -> Nat] /\ EffectsRecorded'
  BY <1>1, CarriedStays DEF AnswersWithout
<1>3. SameVersions /\ source' = source
  BY DEF AnswersWithout
<1>4. CommandsTypeOK'
  BY <1>1, <1>2, <1>3 DEF CommandsInv, CommandsTypeOK, SameVersions
<1>5. FileOf(s)'
  BY <1>1, <1>3 DEF AnswersWithout, FileOf
<1>6. ASSUME NEW r \in Slots \ {s}, records'[r] # NoRecord PROVE FileOf(r)'
  BY <1>1, <1>3, <1>6 DEF CommandsInv, RecordsNameTheFile, FileOf, SameVersions
<1>7. RecordsNameTheFile'
  BY <1>5, <1>6 DEF RecordsNameTheFile
<1>8. ~Made(s)' /\ \A r \in Slots \ {s} : Made(r)' <=> Made(r)
  BY <1>1 DEF AnswersWithout, Made
<1>9. MadeOnce'
  BY <1>1, <1>3, <1>8 DEF CommandsInv, MadeOnce, SameVersions
<1> QED
  BY <1>1, <1>2, <1>4, <1>7, <1>9 DEF CommandsInv

LEMMA AcceptsKeeps ==
    ASSUME CommandsInv, IInv', NEW s \in Slots, NEW b \in Bodies, NEW v \in Versions, NEW f \in Bodies,
           Accepts(s, b, v, f)
    PROVE  CommandsInv'
<1> DEFINE a == Answer("accepted", v)
<1>1. a \in Answers /\ a.status = "accepted" /\ a.version = v
  BY DEF Answer, Answers, Statuses
<1>2. Answered(s, b, a) /\ carried' = [carried EXCEPT ![s] = @ + 1]
  BY DEF Accepts, CarriedOut
<1> HIDE DEF a
<1>3. /\ records' \in [Slots -> [body : Bodies \cup {None}, answer : Answers]]
      /\ told' \in [Slots -> SUBSET [body : Bodies, answer : Answers]]
      /\ records[s] = NoRecord
      /\ records'[s] = [body |-> b, answer |-> a] /\ records'[s] # NoRecord
      /\ \A r \in Slots \ {s} : records'[r] = records[r]
      /\ ToldRecorded' /\ RecordsHaveBodies'
  BY <1>1, <1>2, NewRecord
<1>4. carried' \in [Slots -> Nat] /\ EffectsRecorded'
  BY <1>2, <1>3, CarriedStays
<1>5. /\ status[v] = "absent"
      /\ \A u \in Versions : status'[u] = "absent" <=> status[u] = "absent" /\ u # v
      /\ source' = [source EXCEPT ![v] = f]
  BY DEF Accepts, Makes
<1>6. source \in [Versions -> Bodies \cup {None}] /\ f # None
  BY CommandsAssumption DEF CommandsInv, CommandsTypeOK
<1>7. source'[v] = f /\ \A u \in Versions \ {v} : source'[u] = source[u]
  BY <1>5, <1>6
<1>8. CommandsTypeOK'
  <2>1. source' \in [Versions -> Bodies \cup {None}]
    BY <1>5, <1>6
  <2>2. \A u \in Versions : source'[u] = None <=> status'[u] = "absent"
    BY <1>5, <1>6, <1>7, NoneIsAbsent
  <2> QED
    BY <2>1, <2>2, <1>3, <1>4 DEF CommandsTypeOK
<1>9. FileOf(s)'
  BY <1>1, <1>3, <1>5, <1>7 DEF Accepts, FileOf
<1>10. ASSUME NEW r \in Slots \ {s}, records'[r] # NoRecord PROVE FileOf(r)'
  <2>1. FileOf(r) /\ records'[r] = records[r] /\ records[r].body # None
    BY <1>3, <1>10, CommandsAssumption DEF CommandsInv, RecordsNameTheFile, RecordsHaveBodies
  <2>2. \A u \in Versions : source[u] # None => u # v /\ source'[u] = source[u]
    BY <1>5, <1>7, NoneIsAbsent
  <2>3. \A u \in Versions : status[u] # "absent" => source[u] # None /\ status'[u] # "absent"
    BY <1>5, NoneIsAbsent
  <2> QED
    BY <2>1, <2>2, <2>3 DEF FileOf
<1>11. RecordsNameTheFile'
  BY <1>9, <1>10 DEF RecordsNameTheFile
<1>12. Made(s)' /\ records'[s].answer.version = v /\ \A r \in Slots \ {s} : Made(r)' <=> Made(r)
  BY <1>1, <1>3 DEF Made
<1>13. \A r \in Slots \ {s} : Made(r) => records[r].answer.version # v
  BY <1>5 DEF CommandsInv, MadeOnce
<1>14. MadeOnce'
  BY <1>3, <1>5, <1>12, <1>13 DEF CommandsInv, MadeOnce
<1> QED
  BY <1>3, <1>4, <1>8, <1>11, <1>14 DEF CommandsInv

-----------------------------------------------------------------------------
LEMMA InitCommandsInv == CommandsInit => CommandsInv
<1> SUFFICES ASSUME CommandsInit PROVE CommandsInv
  OBVIOUS
<1>1. IInv
  BY InitIInv DEF CommandsInit
<1>2. /\ \A v \in Versions : status[v] = "absent"
      /\ source = [v \in Versions |-> None] /\ records = [s \in Slots |-> NoRecord]
      /\ told = [s \in Slots |-> {}] /\ carried = [s \in Slots |-> 0]
  BY DEF CommandsInit, Init
<1>3. CommandsTypeOK
  BY <1>2 DEF CommandsTypeOK, NoRecord, Answers, Statuses
<1>4. EffectsRecorded /\ ToldRecorded /\ RecordsHaveBodies /\ RecordsNameTheFile
  BY <1>2 DEF EffectsRecorded, ToldRecorded, RecordsHaveBodies, RecordsNameTheFile
<1>5. MadeOnce
  BY <1>2 DEF MadeOnce, Made, NoRecord
<1> QED
  BY <1>1, <1>3, <1>4, <1>5 DEF CommandsInv

LEMMA StepCommandsInv == CommandsInv /\ [CommandsNext]_<<vars, commandVars>> => CommandsInv'
<1> SUFFICES ASSUME CommandsInv, [CommandsNext]_<<vars, commandVars>> PROVE CommandsInv'
  OBVIOUS
<1>1. IInv' /\ TypeOK'
  BY StepImplements, StepIInv DEF CommandsInv, IInv
<1>2. CASE Silent
  BY <1>1, <1>2, SilentKeeps
<1>3. ASSUME NEW s \in Slots, NEW b \in Bodies, Replay(s, b) PROVE CommandsInv'
  BY <1>1, <1>3, ReplayKeeps
<1>4. ASSUME NEW s \in Slots, NEW b \in Bodies, NEW v \in Versions, NEW f \in Bodies, Accepts(s, b, v, f)
      PROVE  CommandsInv'
  BY <1>1, <1>4, AcceptsKeeps
<1>5. ASSUME NEW s \in Slots, NEW b \in Bodies, NEW a \in Answers, AnswersWithout(s, b, a)
      PROVE  CommandsInv'
  BY <1>1, <1>5, WithoutKeeps
<1> QED
  BY <1>1, <1>2, <1>3, <1>4, <1>5, StepShape

LEMMA CommandsInductive == CommandsSpec => []CommandsInv
  BY InitCommandsInv, StepCommandsInv, PTL DEF CommandsSpec

\* Every version there is has a file, and every record and answer is well formed.
THEOREM CommandsTypeCorrect == CommandsSpec => []CommandsTypeOK
<1>1. CommandsInv => CommandsTypeOK
  BY DEF CommandsInv
<1> QED
  BY <1>1, CommandsInductive, PTL

\* However often a command is delivered, it takes effect at most once.
THEOREM EffectsOnce == CommandsSpec => []CarriedOutOnce
<1>1. CommandsInv => CarriedOutOnce
  BY DEF CommandsInv, EffectsRecorded, CarriedOutOnce
<1> QED
  BY <1>1, CommandsInductive, PTL

\* Whoever was answered is answered the same for ever, and for the same request only.
THEOREM SameAnswers == CommandsSpec => []AnswersRepeat
<1>1. CommandsInv => AnswersRepeat
  BY DEF CommandsInv, ToldRecorded, AnswersRepeat, Replayed
<1> QED
  BY <1>1, CommandsInductive, PTL

\* The version of an answer has the file that was uploaded, or that of the version to
\* repeat, and no version is made for two commands.
THEOREM RightFiles == CommandsSpec => []AnswersNameTheFile
<1>1. ASSUME CommandsInv, NEW s \in Slots, NEW t \in told[s]
      PROVE  /\ s.route \in {"first", "upload"} => source[t.answer.version] = t.body
             /\ s.route \in {"retry", "rollback"} => source[t.answer.version] = source[s.target]
  BY <1>1 DEF CommandsInv, ToldRecorded, RecordsNameTheFile, FileOf
<1>2. ASSUME CommandsInv, NEW s \in Slots, NEW t \in told[s], t.answer.status = "accepted",
             NEW r \in Slots \ {s}, NEW u \in told[r], u.answer.status = "accepted"
      PROVE  u.answer.version # t.answer.version
  BY <1>2 DEF CommandsInv, ToldRecorded, MadeOnce, Made
<1>3. CommandsInv => AnswersNameTheFile
  BY <1>1, <1>2 DEF AnswersNameTheFile
<1> QED
  BY <1>3, CommandsInductive, PTL
===============================================================================
