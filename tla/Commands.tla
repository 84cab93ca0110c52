------------------------------- MODULE Commands -------------------------------
(***************************************************************************)
(* Commands that clients deliver any number of times: a client that has    *)
(* not seen the answer sends its request again, at any time, also after    *)
(* later commands.  Every command has an idempotency key; a record of the  *)
(* key, the request and the answer is written with the effect, in the same *)
(* transaction.  The effects are the commands of Ingestion.                *)
(*                                                                         *)
(* A slot is what a record is unique in: the actor, the route with its     *)
(* target, and the key.  A body is what the request's fingerprint is made  *)
(* of, a file or a reason.  Records from before the table existed are left *)
(* out, and so is the look that a retry and a rollback take before their   *)
(* transaction: it may answer at once, the transaction looks again.        *)
(***************************************************************************)
EXTENDS Ingestion

CONSTANTS
    Slots,          \* [route, target, key] in use; bounds how much clients ask for
    Bodies          \* uploaded files, reasons

ASSUME CommandsAssumption ==
    /\ \A s \in Slots :
         \/ s.route = "first" /\ s.target = None
         \/ s.route \in {"upload", "delete", "restore"} /\ s.target \in Documents
         \/ s.route \in {"retry", "rollback", "void"} /\ s.target \in Versions
    /\ None \notin Bodies

VARIABLES
    source,         \* document_versions.source_sha256
    records,        \* idempotency_records and lifecycle_events, by slot
    told,           \* what clients have been answered, per slot
    carried         \* how often the command of a slot had its effect

commandVars == <<source, records, told, carried>>

NoRecord == [body |-> None, answer |-> [status |-> "none", version |-> None]]
Answer(status0, v) == [status |-> status0, version |-> v]

CommandsInit ==
    /\ Init
    /\ source = [v \in Versions |-> None]
    /\ records = [s \in Slots |-> NoRecord]
    /\ told = [s \in Slots |-> {}]
    /\ carried = [s \in Slots |-> 0]

-----------------------------------------------------------------------------
(* The record. *)

\* The same request again.
\* Mutant: the fingerprint is not compared.
AnyRequest(s, b) == records[s] # NoRecord
Replayed(s, b) == records[s] # NoRecord /\ records[s].body = b

\* The effect may go ahead: nothing is on record, else the request is a replay or
\* uses the key of another one.
Fresh(s) == records[s] = NoRecord

\* Mutants: answers without an effect are not recorded; the record is written by a
\* transaction of its own, and the process may die before it.
RecordEffects(s, b, a) ==
    records' = IF a.status \in {"coalesced", "no_change"} THEN records
               ELSE [records EXCEPT ![s] = [body |-> b, answer |-> a]]
RecordLater(s, b, a) ==
    \/ records' = [records EXCEPT ![s] = [body |-> b, answer |-> a]]
    \/ UNCHANGED records
Record(s, b, a) == records' = [records EXCEPT ![s] = [body |-> b, answer |-> a]]

Answered(s, b, a) ==
    /\ Fresh(s)
    /\ Record(s, b, a)
    /\ told' = [told EXCEPT ![s] = @ \cup {[body |-> b, answer |-> a]}]

CarriedOut(s, b, a) ==
    /\ Answered(s, b, a)
    /\ carried' = [carried EXCEPT ![s] = @ + 1]

\* Whatever has happened since, the recorded answer is given again.
Replay(s, b) ==
    /\ Replayed(s, b)
    /\ told' = [told EXCEPT ![s] = @ \cup {[body |-> b, answer |-> records[s].answer]}]
    /\ UNCHANGED <<vars, source, records, carried>>

-----------------------------------------------------------------------------
(* Uploads. *)

NewSource(v, b) == source' = [source EXCEPT ![v] = b]

FirstUpload(s, b) ==
    /\ s.route = "first"
    /\ \E d \in Documents, v \in Versions :
        /\ AcceptFirstUpload(d, v)
        /\ NewSource(v, b)
        /\ CarriedOut(s, b, Answer("accepted", v))

\* The version an upload joins instead of making its own: the active one, or the
\* current one when there is no active one and its file is the same.
ActiveVersions(d) == {v \in VersionsOf(d) : status[v] \in {"processing", "awaiting_mapping"}}
\* Mutant: whatever its file is.
TheCurrent(d, b) == {v \in Versions : v = current[d] /\ status[v] = "ready"}
SameCurrent(d, b) ==
    {v \in Versions : v = current[d] /\ status[v] = "ready" /\ source[v] = b}

UploadVersion(s, b) ==
    /\ s.route = "upload"
    /\ document[s.target] = "active"
    /\ ActiveVersions(s.target) = {} /\ SameCurrent(s.target, b) = {}
    /\ \E v \in Versions :
        /\ AcceptDocumentVersion(s.target, v)
        /\ NewSource(v, b)
        /\ CarriedOut(s, b, Answer("accepted", v))

UploadAgain(s, b) ==
    /\ s.route = "upload"
    /\ document[s.target] = "active"
    /\ \/ \E v \in ActiveVersions(s.target) :
            source[v] = b /\ Answered(s, b, Answer("coalesced", v))
       \/ /\ ActiveVersions(s.target) = {}
          /\ \E v \in SameCurrent(s.target, b) : Answered(s, b, Answer("no_change", v))
    /\ UNCHANGED <<vars, source, carried>>

-----------------------------------------------------------------------------
(* Commands of the life cycle. *)

\* _create_derived_ingestion: a version of the same file.
Derive(s, b) ==
    /\ s.route \in {"retry", "rollback"}
    /\ owner[s.target] # None
    /\ \E v \in Versions :
        /\ IF s.route = "retry" THEN RetryFailedVersion(s.target, v)
                                ELSE RollbackToVersion(s.target, v)
        /\ NewSource(v, source[s.target])
        /\ CarriedOut(s, b, Answer("accepted", v))

Void(s, b) ==
    /\ s.route = "void"
    /\ VoidVersion(s.target)
    /\ CarriedOut(s, b, Answer("voided", current'[owner[s.target]]))
    /\ UNCHANGED source

ChangeDeletion(s, b) ==
    /\ \/ s.route = "delete" /\ SoftDeleteDocument(s.target)
       \/ s.route = "restore" /\ RestoreDocument(s.target)
    /\ CarriedOut(s, b, Answer(s.route, current[s.target]))
    /\ UNCHANGED source

Deliver(s, b) ==
    \/ Replay(s, b)
    \/ FirstUpload(s, b) \/ UploadVersion(s, b) \/ UploadAgain(s, b)
    \/ Derive(s, b) \/ Void(s, b) \/ ChangeDeletion(s, b)

\* What goes on besides: a human confirms a mapping (not an idempotent command),
\* the workers work.
Background ==
    /\ \/ \E v \in Versions : ConfirmPageMapping(v) \/ TimerFires(v)
       \/ \E w \in Workers : ClaimNextJob(w) \/ Work(w) \/ FailIngestionJob(w) \/ Crash(w)
    /\ UNCHANGED commandVars

CommandsNext ==
    \/ \E s \in Slots, b \in Bodies : Deliver(s, b)
    \/ Background

CommandsSpec == CommandsInit /\ [][CommandsNext]_<<vars, commandVars>>

-----------------------------------------------------------------------------
Statuses == {"none", "accepted", "coalesced", "no_change", "voided", "delete", "restore"}
Answers == [status : Statuses, version : Versions \cup {None}]

CommandsTypeOK ==
    /\ source \in [Versions -> Bodies \cup {None}]
    /\ \A v \in Versions : source[v] = None <=> status[v] = "absent"
    /\ records \in [Slots -> [body : Bodies \cup {None}, answer : Answers]]
    /\ told \in [Slots -> SUBSET [body : Bodies, answer : Answers]]
    /\ carried \in [Slots -> Nat]

\* However often a command is delivered, it has its effect at most once: a deletion
\* sent again after the document was restored deletes nothing, a retry sent again
\* after the retried version failed makes no further version.
CarriedOutOnce == \A s \in Slots : carried[s] <= 1

\* Whoever has been answered once gets that answer again in every later state, and
\* nobody gets it for another request under the same key.
AnswersRepeat ==
    \A s \in Slots : \A t \in told[s] :
        /\ records[s].answer = t.answer
        /\ \A b \in Bodies : Replayed(s, b) <=> b = t.body

\* The version an upload is told of has the uploaded file, whether it was made for it,
\* is joined or is current already; that of a retry or a rollback has the file of the
\* version it was derived from.  No version is made for two commands.
AnswersNameTheFile ==
    \A s \in Slots : \A t \in told[s] :
        LET v == t.answer.version IN
        /\ s.route \in {"first", "upload"} => source[v] = t.body
        /\ s.route \in {"retry", "rollback"} => source[v] = source[s.target]
        /\ t.answer.status = "accepted" =>
             \A r \in Slots \ {s} : \A u \in told[r] :
                u.answer.status = "accepted" => u.answer.version # v
===============================================================================
