----------------------------- MODULE ObjectStore -----------------------------
(***************************************************************************)
(* The content-addressed object store next to the database: processes that *)
(* put bytes and refer to them in a transaction, the mark / grace / rescan *)
(* garbage collection, the audit that closes the recovery gate, and the    *)
(* coordinated backup with its restoration into an empty root.             *)
(*                                                                         *)
(* Two locks order them: the store's flock (shared for a put, exclusive    *)
(* for a collection) and the one write lock of SQLite.  A put and a        *)
(* transaction without a put inside are single actions; an edit of the     *)
(* curation workbench keeps the write lock while it waits for the flock.   *)
(* Time is discrete; an age counts the ticks since an event and stops      *)
(* where nothing tells it from a larger one.                               *)
(***************************************************************************)
EXTENDS Naturals

CONSTANTS
    Objects,        \* SHA-256 keys
    Writers,        \* uploads and jobs: put now, commit the reference later
    Editors,        \* curation requests: put inside their transaction
    Tokens,         \* contents of activity markers
    None,           \* no marker, no candidate, no object
    Lease,          \* JOB_LEASE_DURATION; also taken to bound an upload request
    Grace,          \* object_gc_grace_seconds
    Wait            \* how long a collection waits for its locks

ASSUME StoreAssumption ==
    /\ None \notin Objects \cup Tokens
    /\ Objects \cap {"idle", "open"} = {}
    /\ Lease \in Nat \ {0} /\ Wait \in Nat
    \* the collector refuses to run otherwise
    /\ Grace \in Nat /\ Grace > Lease

VARIABLES
    files,          \* objects whose bytes are in the store
    marker,         \* .activity/<sha256>
    referenced,     \* objects a committed row needs, put before the commit
    registered,     \* page_version_image_sources.object_sha256
    recorded,       \* stored_objects
    candidate,      \* object_gc_candidates: [age, token, deleted]
    writer,         \* per writer: [object, lease, marker_age], in memory; the last is
                    \* history: the age of its marker, Grace + 1 also if it was lost
    edit,           \* per editor: "idle", "open" (in a transaction) or what it has put
    scan,           \* the collection: [phase, age of its checked_at]
    gate,           \* storage_recovery_state.status
    backup          \* the backup under way: its copied rows and objects

rows == <<referenced, registered, recorded, candidate>>
vars == <<files, marker, rows, writer, edit, scan, gate, backup>>

Oldest == Grace + Wait + 1
NoWrite == [object |-> None, lease |-> 0, marker_age |-> 0]
NoScan == [phase |-> "idle", age |-> 0]
NoBackup == [under_way |-> FALSE, age |-> 0, referenced |-> {}, registered |-> {},
             spared |-> {}, copied |-> {}]

Init ==
    /\ files = {}
    /\ marker = [o \in Objects |-> None]
    /\ referenced = {}
    /\ registered = {}
    /\ recorded = {}
    /\ candidate = [o \in Objects |-> None]
    /\ writer = [w \in Writers |-> NoWrite]
    /\ edit = [e \in Editors |-> "idle"]
    /\ scan = NoScan
    /\ gate = "ready"
    /\ backup = NoBackup

\* BEGIN IMMEDIATE gets the write lock and finds the recovery gate open.
WriteLockFree == \A e \in Editors : edit[e] = "idle"
CanWrite == WriteLockFree /\ gate = "ready"

\* No collection has the flock.
CanShare == scan.phase # "locked"

\* A marker gets a content it never had.
\* Mutant: only new bytes count as activity.
ActivityOfNew(o) ==
    IF o \in files THEN {marker[o]}
    ELSE {t \in Tokens : candidate[o] = None \/ candidate[o].token # t}
Activity(o) == {t \in Tokens : candidate[o] = None \/ candidate[o].token # t}

\* Mutant: _record_object is forgotten.
NotRecorded(o) == recorded
Recorded(o) == recorded \cup {o}

-----------------------------------------------------------------------------
(* put_stream, then a transaction that refers to the object. *)

StoreBytes(o) ==
    /\ CanShare
    /\ files' = files \cup {o}
    /\ \E t \in Activity(o) : marker' = [marker EXCEPT ![o] = t]

Put(w, o) ==
    /\ writer[w] = NoWrite
    /\ StoreBytes(o)
    /\ writer' = [writer EXCEPT ![w].object = o]
    /\ UNCHANGED <<rows, edit, scan, gate, backup>>

\* The process dies after os.replace, before _record_activity.
PutCrash(o) ==
    /\ CanShare
    /\ files' = files \cup {o}
    /\ UNCHANGED <<marker, rows, writer, edit, scan, gate, backup>>

\* _checkpoint of a job that has staged the object.  The ticks are long against the
\* time a transaction waits for the write lock.
Renew(w) ==
    /\ writer[w].object # None
    /\ writer[w].lease < Lease
    /\ CanWrite
    /\ writer' = [writer EXCEPT ![w].lease = 0]
    /\ UNCHANGED <<files, marker, rows, edit, scan, gate, backup>>

\* The transaction that asserts the lease and records the object and its reference.
Commit(w) ==
    /\ writer[w].object # None
    /\ writer[w].lease < Lease
    /\ CanWrite
    /\ recorded' = Recorded(writer[w].object)
    /\ referenced' = referenced \cup {writer[w].object}
    /\ writer' = [writer EXCEPT ![w] = NoWrite]
    /\ UNCHANGED <<files, marker, registered, candidate, edit, scan, gate, backup>>

\* A rejected command, an error, a lost lease or a crash: the object stays behind.
Abandon(w) ==
    /\ writer[w].object # None
    /\ writer' = [writer EXCEPT ![w] = NoWrite]
    /\ UNCHANGED <<files, marker, rows, edit, scan, gate, backup>>

\* The last row that needs the object goes: an artifact is purged, a page's render
\* replaced, or the results of a hidden page cleared.
Release(o) ==
    /\ o \in referenced
    /\ CanWrite
    /\ referenced' = referenced \ {o}
    /\ UNCHANGED <<files, marker, registered, recorded, candidate, writer, edit, scan, gate, backup>>

\* An activated page version names its source images; nothing puts their bytes.
RegisterImage(o) ==
    /\ CanWrite
    /\ registered' = registered \cup {o}
    /\ UNCHANGED <<files, marker, referenced, recorded, candidate, writer, edit, scan, gate, backup>>

-----------------------------------------------------------------------------
(* Saving a captured or an included image: the put is inside the transaction. *)

BeginEdit(e) ==
    /\ CanWrite
    /\ edit' = [edit EXCEPT ![e] = "open"]
    /\ UNCHANGED <<files, marker, rows, writer, scan, gate, backup>>

EditPut(e, o) ==
    /\ edit[e] = "open"
    /\ StoreBytes(o)
    /\ edit' = [edit EXCEPT ![e] = o]
    /\ UNCHANGED <<rows, writer, scan, gate, backup>>

CommitEdit(e) ==
    /\ edit[e] \in Objects
    /\ recorded' = Recorded(edit[e])
    /\ referenced' = referenced \cup {edit[e]}
    /\ edit' = [edit EXCEPT ![e] = "idle"]
    /\ UNCHANGED <<files, marker, registered, candidate, writer, scan, gate, backup>>

\* The transaction rolls back; a thread that is blocked in flock cannot.
RollbackEdit(e) ==
    /\ edit[e] \in Objects
    /\ edit' = [edit EXCEPT ![e] = "idle"]
    /\ UNCHANGED <<files, marker, rows, writer, scan, gate, backup>>

-----------------------------------------------------------------------------
(* collect_unreachable_objects. *)

Reachable == referenced \cup registered
Unmarked == {o \in Reachable : candidate[o] # None}
AlreadyDeleted == {o \in Objects \ files : candidate[o] # None /\ candidate[o].deleted}
Unreachable == ((recorded \cup files) \ Reachable) \ AlreadyDeleted

\* The object was put again since it was marked.
\* Mutant: the activity token is not compared.
NeverTouched(o) == FALSE
Touched(o) == candidate[o].token # marker[o]

\* Mutant: it is the lease that is waited for.
DeletableAfterLease ==
    {o \in Unreachable : /\ candidate[o] # None
                         /\ ~Touched(o)
                         /\ candidate[o].age > scan.age + Lease}
Deletable ==
    {o \in Unreachable : /\ candidate[o] # None
                         /\ ~Touched(o)
                         /\ candidate[o].age > scan.age + Grace}

\* checked_at is read before the collection waits for the flock.
StartScan ==
    /\ scan.phase = "idle"
    /\ scan' = [phase |-> "waiting", age |-> 0]
    /\ UNCHANGED <<files, marker, rows, writer, edit, gate, backup>>

LockStore ==
    /\ scan.phase = "waiting"
    /\ scan' = [scan EXCEPT !.phase = "locked"]
    /\ UNCHANGED <<files, marker, rows, writer, edit, gate, backup>>

\* The transaction: unmark what is reachable again, mark, restart or delete the rest.
Collect ==
    /\ scan.phase = "locked"
    /\ CanWrite
    /\ files' = files \ Deletable
    /\ marker' = [o \in Objects |-> IF o \in Deletable \cup Unmarked THEN None ELSE marker[o]]
    /\ candidate' = [o \in Objects |->
            IF o \in Reachable THEN None
            ELSE IF o \in Deletable THEN [candidate[o] EXCEPT !.deleted = TRUE]
            ELSE IF o \in Unreachable /\ (candidate[o] = None \/ Touched(o))
            THEN [age |-> scan.age, token |-> marker[o], deleted |-> FALSE]
            ELSE candidate[o]]
    /\ scan' = NoScan
    /\ UNCHANGED <<referenced, registered, recorded, writer, edit, gate, backup>>

\* ... and the process dies before the commit, with part of the markers and files gone.
\* A mark from before the first marker then looks as if nobody had put the object again.
CollectCrash ==
    /\ scan.phase = "locked"
    /\ CanWrite
    /\ \E forgotten \in SUBSET Unmarked, gone \in SUBSET Deletable :
        /\ gone # {} => forgotten = Unmarked
        /\ files' = files \ gone
        /\ marker' = [o \in Objects |-> IF o \in gone \cup forgotten THEN None ELSE marker[o]]
        /\ writer' = [w \in Writers |->
                IF writer[w].object \in {o \in forgotten : candidate[o].token = None}
                THEN [writer[w] EXCEPT !.marker_age = Grace + 1]
                ELSE writer[w]]
    /\ scan' = NoScan
    /\ UNCHANGED <<rows, edit, gate, backup>>

\* The busy timeout expires or the recovery gate is closed: the flock is released.
\* Mutant: there is no busy timeout.
GateClosed == gate # "ready"
CannotWrite == ~CanWrite

GiveUp ==
    /\ scan.phase = "locked"
    /\ CannotWrite
    /\ scan' = NoScan
    /\ UNCHANGED <<files, marker, rows, writer, edit, gate, backup>>

-----------------------------------------------------------------------------
(* audit_references: the gate closes, every reference is checked, it opens or stays. *)

StartAudit ==
    /\ WriteLockFree
    /\ gate' = "audit_required"
    /\ UNCHANGED <<files, marker, rows, writer, edit, scan, backup>>

FinishAudit ==
    /\ gate = "audit_required"
    /\ WriteLockFree
    /\ gate' = IF Reachable \subseteq files THEN "ready" ELSE "blocked"
    /\ UNCHANGED <<files, marker, rows, writer, edit, scan, backup>>

-----------------------------------------------------------------------------
(* create_coordinated_backup, restore_backup. *)

\* A consistent copy of the database.  `spared` is history: what the copied rows refer
\* to, is in the store and has no mark.
StartBackup ==
    /\ ~backup.under_way
    /\ backup' = [under_way |-> TRUE, age |-> 0, copied |-> {},
                  referenced |-> referenced, registered |-> registered,
                  spared |-> {o \in referenced \cap files : candidate[o] = None}]
    /\ UNCHANGED <<files, marker, rows, writer, edit, scan, gate>>

\* The objects to copy are those the copied rows need.
\* Mutant: those the rows of now need.
NeededNow == Reachable
NeededByBackup == backup.referenced \cup backup.registered

CopyObject(o) ==
    /\ backup.under_way
    /\ o \in NeededByBackup \cap files
    /\ o \notin backup.copied
    /\ backup' = [backup EXCEPT !.copied = @ \cup {o}]
    /\ UNCHANGED <<files, marker, rows, writer, edit, scan, gate>>

\* The backup is complete and gets its name, or it is given up: an object is missing,
\* a copy fails, the process dies.
EndBackup ==
    /\ backup.under_way
    /\ backup' = NoBackup
    /\ UNCHANGED <<files, marker, rows, writer, edit, scan, gate>>

\* Some time after a backup was completed the machine is lost, and the backup goes on
\* in an empty root: its rows, its objects, no activity markers, and an audit.  What
\* happened between the two is lost too, so the two are one step.  The records and the
\* marks of the copied database are any: they are old by now.
Restore ==
    /\ backup.under_way
    /\ NeededByBackup \subseteq backup.copied
    /\ files' = backup.copied
    /\ marker' = [o \in Objects |-> None]
    /\ referenced' = backup.referenced
    /\ registered' = backup.registered
    /\ \E known \in SUBSET Objects : recorded' = backup.referenced \cup known
    /\ candidate' \in [Objects -> {None} \cup
            [age : {Oldest}, token : Tokens \cup {None}, deleted : BOOLEAN]]
    /\ writer' = [w \in Writers |-> NoWrite]
    /\ edit' = [e \in Editors |-> "idle"]
    /\ scan' = NoScan
    /\ gate' = IF backup.referenced \cup backup.registered \subseteq backup.copied
               THEN "ready" ELSE "blocked"
    /\ backup' = NoBackup

-----------------------------------------------------------------------------
(* Time. *)

\* A tick of the clock.  A collection waits at most Wait for its locks.
Older(age, limit) == IF age < limit THEN age + 1 ELSE limit

Tick ==
    /\ scan.phase # "idle" => scan.age < Wait
    /\ scan' = [scan EXCEPT !.age = IF scan.phase = "idle" THEN 0 ELSE @ + 1]
    /\ writer' = [w \in Writers |->
            IF writer[w].object = None THEN NoWrite
            ELSE [writer[w] EXCEPT !.lease = Older(@, Lease),
                                   !.marker_age = Older(@, Grace + 1)]]
    /\ candidate' = [o \in Objects |->
            IF candidate[o] = None THEN None
            ELSE [candidate[o] EXCEPT !.age = Older(@, Oldest)]]
    /\ backup' = [backup EXCEPT !.age = IF backup.under_way THEN Older(@, Grace + 1) ELSE 0]
    /\ UNCHANGED <<files, marker, referenced, registered, recorded, edit, gate>>

Next ==
    \/ \E w \in Writers, o \in Objects : Put(w, o)
    \/ \E w \in Writers : Renew(w) \/ Commit(w) \/ Abandon(w)
    \/ \E o \in Objects : PutCrash(o) \/ Release(o) \/ RegisterImage(o)
    \/ \E e \in Editors : BeginEdit(e) \/ CommitEdit(e) \/ RollbackEdit(e)
    \/ \E e \in Editors, o \in Objects : EditPut(e, o)
    \/ StartScan \/ LockStore \/ Collect \/ CollectCrash \/ GiveUp
    \/ StartAudit \/ FinishAudit \/ Tick
    \/ StartBackup \/ EndBackup \/ Restore
    \/ \E o \in Objects : CopyObject(o)

Spec == Init /\ [][Next]_vars

\* A collection that has the flock runs or times out, flock serves who waits for it,
\* and a request that got its bytes stored ends.
Fairness ==
    /\ WF_vars(Collect \/ CollectCrash \/ GiveUp)
    /\ \A e \in Editors : /\ SF_vars(\E o \in Objects : EditPut(e, o))
                          /\ WF_vars(CommitEdit(e) \/ RollbackEdit(e))

FairSpec == Spec /\ Fairness

-----------------------------------------------------------------------------
TypeOK ==
    /\ files \subseteq Objects
    /\ marker \in [Objects -> Tokens \cup {None}]
    /\ referenced \subseteq recorded    \* the foreign keys to stored_objects
    /\ registered \subseteq Objects
    /\ recorded \subseteq Objects
    /\ candidate \in [Objects -> {None} \cup
            [age : 0..Oldest, token : Tokens \cup {None}, deleted : BOOLEAN]]
    /\ writer \in [Writers -> [object : Objects \cup {None}, lease : 0..Lease,
                               marker_age : 0..Grace + 1]]
    /\ edit \in [Editors -> {"idle", "open"} \cup Objects]
    /\ scan \in [phase : {"idle", "waiting", "locked"}, age : 0..Wait]
    /\ gate \in {"ready", "audit_required", "blocked"}
    /\ backup.under_way \in BOOLEAN /\ backup.age \in 0..Grace + 1
    /\ backup.copied \cup backup.spared \subseteq NeededByBackup


\* The marker of what a writer has put still keeps every collection away, also one
\* whose clock was read before the put: it is young enough and was not lost.
Protected(w) == writer[w].marker_age + Wait <= Grace

\* A reference only ever lacks its bytes because a writer committed it whose marker
\* was too old or lost: the collector never takes the bytes from under a reference
\* that is there, an edit or a writer in time never commits one without bytes, and
\* a restoration brings back the bytes of every reference it brings back.
ReferencesKeepTheirBytes ==
    [][\A o \in referenced' \ files' :
          \/ o \in referenced \ files
          \/ /\ o \notin referenced
             /\ \E w \in Writers : /\ writer[w].object = o /\ writer'[w] = NoWrite
                                   /\ ~Protected(w)]_vars

\* Bytes that a writer has put stay in the store for as long as its marker protects
\* them, and those that an edit has put until it ends, however old the marks and the
\* clocks of the collections are that run meanwhile.
LiveWritesAreStored ==
    /\ \A w \in Writers : writer[w].object # None /\ Protected(w) => writer[w].object \in files
    /\ \A e \in Editors : edit[e] \in Objects => edit[e] \in files

\* What the copied rows refer to stays in the store while it is copied, whatever is
\* released, collected and put again meanwhile, for as long as the grace period.  An
\* object with a mark is no exception the collector makes: a mark from before the
\* object was referenced counts until a collection has seen the reference.
BackupFindsItsObjects ==
    backup.under_way /\ backup.age + Wait <= Grace => backup.spared \subseteq files

\* Without a disk fault an audit never closes the gate for good: a reference is
\* committed after its bytes were stored (ADR-0007).
NeverBlocked == gate # "blocked"

\* An edit holds the write lock and wants the flock while a collection holds the flock
\* and wants the write lock: the busy timeout resolves it, the edit ends.
EditEnds == \A e \in Editors : edit[e] # "idle" ~> edit[e] = "idle"
=============================================================================
