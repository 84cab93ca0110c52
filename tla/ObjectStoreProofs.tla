-------------------------- MODULE ObjectStoreProofs --------------------------
(***************************************************************************)
(* ObjectStore for any number of objects, writers, editors and markers and *)
(* any lease, grace and wait: the collector never takes the bytes of a     *)
(* committed reference, of a write whose marker is young and not lost, or  *)
(* of a backup that is within the grace period.                            *)
(*                                                                         *)
(* The argument is about time.  Whoever relies on an object has given it   *)
(* an activity marker or found it without a candidate; a candidate that    *)
(* matches the marker was therefore seen after that, by a collection that  *)
(* had read its clock at most Wait earlier.                                *)
(***************************************************************************)
EXTENDS ObjectStore, TLAPS

\* Who relies on the bytes that it has put, and the backup that relies on those it found.
Relies(w) == writer[w].object # None /\ Protected(w)
InGrace == backup.under_way /\ backup.age + Wait <= Grace

\* The bytes are there, and a mark is not older than the reliance, or would not count.
Young(o, age) ==
    /\ o \in files
    /\ candidate[o] # None => candidate[o].age <= age + Wait
Spared(o, age) ==
    /\ o \in files
    /\ candidate[o] # None /\ ~Touched(o) => candidate[o].age <= age + Wait

BackupType ==
    backup \in [under_way : BOOLEAN, age : 0..Grace + 1, referenced : SUBSET Objects,
                registered : SUBSET Objects, spared : SUBSET Objects,
                copied : SUBSET Objects]

Types == TypeOK /\ BackupType
WritersSpared ==
    \A w \in Writers : Relies(w) => Spared(writer[w].object, writer[w].marker_age)
EditsStored == \A e \in Editors : edit[e] \in Objects => edit[e] \in files
BackupSpared == InGrace => \A o \in backup.spared : Young(o, backup.age)

IInv == Types /\ WritersSpared /\ EditsStored /\ BackupSpared

Candidates == {None} \cup [age : 0..Oldest, token : Tokens \cup {None}, deleted : BOOLEAN]
Writes == [object : Objects \cup {None}, lease : 0..Lease, marker_age : 0..Grace + 1]
Scans == [phase : {"idle", "waiting", "locked"}, age : 0..Wait]

-----------------------------------------------------------------------------
(* Types. *)

LEMMA InitTypes == Init => Types
<1> SUFFICES ASSUME Init PROVE Types
  OBVIOUS
<1>1. Lease \in Nat /\ Wait \in Nat /\ Grace \in Nat
  BY StoreAssumption
<1>2. NoWrite \in Writes /\ NoScan \in Scans
  BY <1>1 DEF NoWrite, NoScan, Writes, Scans
<1>3. BackupType
  BY <1>1 DEF Init, BackupType, NoBackup
<1>4. TypeOK
  BY <1>1, <1>2 DEF Init, TypeOK, Writes, Scans, NoBackup, NeededByBackup
<1> QED
  BY <1>3, <1>4 DEF Types

LEMMA OlderType ==
    ASSUME NEW limit \in Nat, NEW age \in 0..limit
    PROVE  /\ Older(age, limit) \in 0..limit
           /\ Older(age, limit) <= age + 1
           /\ Older(age, limit) < limit => Older(age, limit) = age + 1
  BY DEF Older

\* What put_stream leaves behind.
LEMMA StoreBytesType ==
    ASSUME Types, NEW o \in Objects, StoreBytes(o)
    PROVE  /\ files' = files \cup {o}
           /\ marker' \in [Objects -> Tokens \cup {None}]
           /\ \A p \in Objects \ {o} : marker'[p] = marker[p]
           /\ candidate[o] # None => candidate[o].token # marker'[o]
  BY DEF Types, TypeOK, StoreBytes, Activity

LEMMA PutTypes ==
    ASSUME Types, NEW w \in Writers, NEW o \in Objects, Put(w, o)
    PROVE  Types'
<1>1. /\ files' \subseteq Objects
      /\ marker' \in [Objects -> Tokens \cup {None}]
  BY StoreBytesType DEF Put, Types, TypeOK
<1>2. writer' \in [Writers -> Writes]
  BY DEF Put, Types, TypeOK, Writes
<1> QED
  BY <1>1, <1>2 DEF Put, Types, TypeOK, BackupType, rows, Writes, NeededByBackup

LEMMA WriterTypes ==
    ASSUME Types, NEW w \in Writers, Renew(w) \/ Commit(w) \/ Abandon(w)
    PROVE  Types'
<1>1. Lease \in Nat \ {0} /\ Grace \in Nat
  BY StoreAssumption
<1>2. writer[w] \in Writes /\ NoWrite \in Writes
  BY <1>1 DEF Types, TypeOK, Writes, NoWrite
<1>3. CASE Renew(w)
  <2>1. writer' \in [Writers -> Writes]
    BY <1>1, <1>3 DEF Renew, Types, TypeOK, Writes
  <2> QED
    BY <1>3, <2>1 DEF Renew, Types, TypeOK, BackupType, rows, Writes, NeededByBackup
<1>4. CASE Commit(w)
  <2>1. writer' \in [Writers -> Writes] /\ writer[w].object \in Objects
    BY <1>2, <1>4 DEF Commit, Types, TypeOK, Writes
  <2> QED
    BY <1>4, <2>1 DEF Commit, Recorded, Types, TypeOK, BackupType, Writes, NeededByBackup
<1>5. CASE Abandon(w)
  <2>1. writer' \in [Writers -> Writes]
    BY <1>2, <1>5 DEF Abandon, Types, TypeOK, Writes
  <2> QED
    BY <1>5, <2>1 DEF Abandon, Types, TypeOK, BackupType, rows, Writes, NeededByBackup
<1> QED
  BY <1>3, <1>4, <1>5

LEMMA RowTypes ==
    ASSUME Types, NEW o \in Objects, PutCrash(o) \/ Release(o) \/ RegisterImage(o)
    PROVE  Types'
<1>1. CASE PutCrash(o)
  BY <1>1 DEF PutCrash, Types, TypeOK, BackupType, rows, NeededByBackup
<1>2. CASE Release(o)
  BY <1>2 DEF Release, Types, TypeOK, BackupType, NeededByBackup
<1>3. CASE RegisterImage(o)
  BY <1>3 DEF RegisterImage, Types, TypeOK, BackupType, NeededByBackup
<1> QED
  BY <1>1, <1>2, <1>3

LEMMA EditTypes ==
    ASSUME Types, NEW e \in Editors,
           \/ BeginEdit(e) \/ CommitEdit(e) \/ RollbackEdit(e)
           \/ \E o \in Objects : EditPut(e, o)
    PROVE  Types'
<1>1. CASE BeginEdit(e) \/ RollbackEdit(e)
  BY <1>1 DEF BeginEdit, RollbackEdit, Types, TypeOK, BackupType, rows, NeededByBackup
<1>2. CASE CommitEdit(e)
  BY <1>2 DEF CommitEdit, Recorded, Types, TypeOK, BackupType, NeededByBackup
<1>3. ASSUME NEW o \in Objects, EditPut(e, o)
      PROVE  Types'
  <2>1. /\ files' \subseteq Objects
        /\ marker' \in [Objects -> Tokens \cup {None}]
    BY <1>3, StoreBytesType DEF EditPut, Types, TypeOK
  <2> QED
    BY <1>3, <2>1 DEF EditPut, Types, TypeOK, BackupType, rows, NeededByBackup
<1> QED
  BY <1>1, <1>2, <1>3

\* What a collection that dies and one that commits do to the files and the markers.
LEMMA CollectTypes ==
    ASSUME Types, Collect \/ CollectCrash
    PROVE  Types'
<1>1. Wait \in Nat /\ Grace \in Nat /\ scan \in Scans /\ NoScan \in Scans
  BY StoreAssumption DEF Types, TypeOK, NoScan, Scans
<1>2. scan' \in Scans
  BY <1>1 DEF Collect, CollectCrash
<1>3. CASE Collect
  <2>1. files' \subseteq Objects /\ marker' \in [Objects -> Tokens \cup {None}]
    BY <1>3 DEF Collect, Types, TypeOK
  <2>2. scan.age \in 0..Oldest
    BY <1>1 DEF Oldest, Scans
  <2>3. ASSUME NEW o \in Objects PROVE candidate'[o] \in Candidates
    <3>1. candidate[o] \in Candidates
      BY DEF Types, TypeOK, Candidates
    <3>2. [age |-> scan.age, token |-> marker[o], deleted |-> FALSE] \in Candidates
      BY <2>2 DEF Candidates, Types, TypeOK
    <3>3. o \in Deletable => [candidate[o] EXCEPT !.deleted = TRUE] \in Candidates
      BY <3>1 DEF Candidates, Deletable
    <3> QED
      BY <1>3, <3>1, <3>2, <3>3 DEF Collect, Candidates
  <2>4. candidate' \in [Objects -> Candidates]
    BY <1>3, <2>3 DEF Collect
  <2> QED
    BY <1>2, <1>3, <2>1, <2>4
       DEF Collect, Types, TypeOK, BackupType, Scans, Candidates, NeededByBackup
<1>4. CASE CollectCrash
  <2>1. files' \subseteq Objects /\ marker' \in [Objects -> Tokens \cup {None}]
    BY <1>4 DEF CollectCrash, Types, TypeOK
  <2>2. writer' \in [Writers -> Writes]
    <3>1. ASSUME NEW w \in Writers
          PROVE  /\ writer[w] \in Writes
                 /\ [writer[w] EXCEPT !.marker_age = Grace + 1] \in Writes
      BY <1>1 DEF Types, TypeOK, Writes
    <3> QED
      BY <1>4, <3>1 DEF CollectCrash
  <2> QED
    BY <1>2, <1>4, <2>1, <2>2
       DEF CollectCrash, Types, TypeOK, BackupType, rows, Scans, Writes, NeededByBackup
<1> QED
  BY <1>3, <1>4

LEMMA LockTypes ==
    ASSUME Types, StartScan \/ LockStore \/ GiveUp \/ StartAudit \/ FinishAudit
    PROVE  Types'
<1>1. scan \in Scans /\ NoScan \in Scans /\ [phase |-> "waiting", age |-> 0] \in Scans
  BY StoreAssumption DEF Types, TypeOK, NoScan, Scans
<1>2. CASE StartScan \/ LockStore \/ GiveUp
  <2>1. scan' \in Scans
    BY <1>1, <1>2 DEF StartScan, LockStore, GiveUp, Scans
  <2> QED
    BY <1>2, <2>1 DEF StartScan, LockStore, GiveUp, Types, TypeOK, BackupType, rows,
                      Scans, NeededByBackup
<1>3. CASE StartAudit \/ FinishAudit
  BY <1>3 DEF StartAudit, FinishAudit, Types, TypeOK, BackupType, rows, NeededByBackup
<1> QED
  BY <1>2, <1>3

LEMMA BackupTypes ==
    ASSUME Types,
           StartBackup \/ EndBackup \/ Restore \/ \E o \in Objects : CopyObject(o)
    PROVE  Types'
<1>1. Lease \in Nat /\ Wait \in Nat /\ Grace \in Nat
  BY StoreAssumption
<1>2. NoBackup.copied \cup NoBackup.spared \subseteq NoBackup.referenced \cup NoBackup.registered
  BY DEF NoBackup
<1>3. CASE StartBackup
  <2>1. BackupType'
    BY <1>1, <1>3 DEF StartBackup, Types, TypeOK, BackupType, Reachable
  <2> QED
    BY <1>3, <2>1 DEF StartBackup, Types, TypeOK, rows, NeededByBackup, BackupType, Reachable
<1>4. CASE EndBackup
  <2>1. BackupType'
    BY <1>1, <1>4 DEF EndBackup, BackupType, NoBackup
  <2> QED
    BY <1>4, <2>1 DEF EndBackup, Types, TypeOK, rows, NeededByBackup, BackupType, NoBackup
<1>5. CASE Restore
  <2>1. BackupType'
    BY <1>1, <1>5 DEF Restore, BackupType, NoBackup
  <2>2. writer' \in [Writers -> Writes] /\ scan' \in Scans
    BY <1>1, <1>5 DEF Restore, NoWrite, NoScan, Writes, Scans
  <2>3. candidate' \in [Objects -> Candidates]
    <3>1. Oldest \in 0..Oldest
      BY <1>1 DEF Oldest
    <3> QED
      BY <1>5, <3>1 DEF Restore, Candidates
  <2>4. /\ files' \subseteq Objects /\ registered' \subseteq Objects
        /\ recorded' \subseteq Objects /\ referenced' \subseteq recorded'
    BY <1>5 DEF Restore, Types, BackupType
  <2> QED
    BY <1>5, <2>1, <2>2, <2>3, <2>4
       DEF Restore, Types, TypeOK, NeededByBackup, BackupType, NoBackup,
           Writes, Scans, Candidates
<1>6. ASSUME NEW o \in Objects, CopyObject(o)
      PROVE  Types'
  <2>1. backup' = [backup EXCEPT !.copied = backup.copied \cup {o}]
    BY <1>6 DEF CopyObject
  <2>2. BackupType'
    BY <2>1 DEF Types, BackupType
  <2> QED
    BY <1>6, <2>1, <2>2 DEF CopyObject, Types, TypeOK, rows, NeededByBackup, BackupType
<1> QED
  BY <1>3, <1>4, <1>5, <1>6

\* A tick makes every age one larger or leaves it at its cap.
LEMMA TickShape ==
    ASSUME Types, Tick
    PROVE  /\ \A w \in Writers :
                /\ writer'[w] \in Writes
                /\ Relies(w)' =>
                    /\ Relies(w)
                    /\ writer'[w].object = writer[w].object
                    /\ writer'[w].marker_age = writer[w].marker_age + 1
           /\ \A o \in Objects :
                /\ candidate'[o] \in Candidates
                /\ candidate'[o] # None =>
                    /\ candidate[o] # None
                    /\ candidate'[o].age <= candidate[o].age + 1
                    /\ candidate'[o].token = candidate[o].token
           /\ writer' \in [Writers -> Writes]
           /\ candidate' \in [Objects -> Candidates]
<1>1. /\ Lease \in Nat \ {0} /\ Grace \in Nat /\ Wait \in Nat /\ Oldest \in Nat
      /\ None \notin Objects
  BY StoreAssumption DEF Oldest
<1>2. ASSUME NEW w \in Writers
      PROVE  /\ writer'[w] \in Writes
             /\ Relies(w)' =>
                    /\ Relies(w)
                    /\ writer'[w].object = writer[w].object
                    /\ writer'[w].marker_age = writer[w].marker_age + 1
  <2>1. writer[w] \in Writes /\ NoWrite \in Writes /\ NoWrite.object = None
    BY <1>1 DEF Types, TypeOK, Writes, NoWrite
  <2>2. CASE writer[w].object = None
    <3>1. writer'[w] = NoWrite
      BY <2>2 DEF Tick
    <3> QED
      BY <2>1, <3>1 DEF Relies
  <2>3. CASE writer[w].object # None
    <3> DEFINE lease == Older(writer[w].lease, Lease)
               age == Older(writer[w].marker_age, Grace + 1)
    <3>1. writer'[w] = [writer[w] EXCEPT !.lease = lease, !.marker_age = age]
      BY <2>3 DEF Tick
    <3>2. writer[w].lease \in 0..Lease /\ writer[w].marker_age \in 0..Grace + 1
      BY <2>1 DEF Writes
    <3>3. lease \in 0..Lease
      BY <1>1, <3>2, OlderType
    <3>4. /\ age \in 0..Grace + 1
          /\ age < Grace + 1 => age = writer[w].marker_age + 1
      <4>1. PICK limit \in Nat : limit = Grace + 1
        BY <1>1
      <4>2. age = Older(writer[w].marker_age, limit) /\ writer[w].marker_age \in 0..limit
        BY <3>2, <4>1
      <4>3. /\ Older(writer[w].marker_age, limit) \in 0..limit
            /\ Older(writer[w].marker_age, limit) < limit =>
                    Older(writer[w].marker_age, limit) = writer[w].marker_age + 1
        BY <4>1, <4>2, OlderType
      <4> HIDE DEF age
      <4> QED
        BY <4>1, <4>2, <4>3
    <3> HIDE DEF lease, age
    <3>5. /\ writer'[w] \in Writes
          /\ writer'[w].object = writer[w].object
          /\ writer'[w].marker_age = age
      BY <2>1, <3>1, <3>3, <3>4 DEF Writes
    <3>6. ASSUME age + Wait <= Grace
          PROVE  age = writer[w].marker_age + 1 /\ writer[w].marker_age + Wait <= Grace
      BY <1>1, <3>2, <3>4, <3>6
    <3> QED
      BY <2>3, <3>5, <3>6 DEF Relies, Protected
  <2> QED
    BY <2>2, <2>3
<1>3. ASSUME NEW o \in Objects
      PROVE  /\ candidate'[o] \in Candidates
             /\ candidate'[o] # None =>
                    /\ candidate[o] # None
                    /\ candidate'[o].age <= candidate[o].age + 1
                    /\ candidate'[o].token = candidate[o].token
  <2>1. candidate[o] \in Candidates
    BY DEF Types, TypeOK, Candidates
  <2>2. CASE candidate[o] = None
    BY <2>2 DEF Tick, Candidates
  <2>3. CASE candidate[o] # None
    <3>1. candidate'[o] = [candidate[o] EXCEPT !.age = Older(candidate[o].age, Oldest)]
      BY <2>3 DEF Tick
    <3>2. candidate[o].age \in 0..Oldest
      BY <2>1, <2>3 DEF Candidates
    <3>3. /\ Older(candidate[o].age, Oldest) \in 0..Oldest
          /\ Older(candidate[o].age, Oldest) <= candidate[o].age + 1
      BY <1>1, <3>2, OlderType
    <3>4. /\ candidate'[o] \in Candidates
          /\ candidate'[o].age = Older(candidate[o].age, Oldest)
          /\ candidate'[o].token = candidate[o].token
      BY <2>1, <2>3, <3>1, <3>3 DEF Candidates
    <3> QED
      BY <2>3, <3>3, <3>4
  <2> QED
    BY <2>2, <2>3
<1>4. writer' \in [Writers -> Writes]
  BY <1>2 DEF Tick
<1>5. candidate' \in [Objects -> Candidates]
  BY <1>3 DEF Tick
<1> QED
  BY <1>2, <1>3, <1>4, <1>5

LEMMA TickTypes ==
    ASSUME Types, Tick
    PROVE  Types'
<1>1. Wait \in Nat /\ Grace \in Nat
  BY StoreAssumption
<1>2. scan' \in Scans
  <2>1. scan \in Scans
    BY DEF Types, TypeOK, Scans
  <2>2. scan' = [phase |-> scan.phase,
                 age |-> IF scan.phase = "idle" THEN 0 ELSE scan.age + 1]
    BY <2>1 DEF Tick, Scans
  <2>3. (IF scan.phase = "idle" THEN 0 ELSE scan.age + 1) \in 0..Wait
    <3>1. scan.phase # "idle" => scan.age < Wait
      BY DEF Tick
    <3> QED
      BY <1>1, <2>1, <3>1 DEF Scans
  <2> QED
    BY <2>1, <2>2, <2>3 DEF Scans
<1>3. BackupType'
  <2>1. backup \in [under_way : BOOLEAN, age : 0..Grace + 1, referenced : SUBSET Objects,
                    registered : SUBSET Objects, spared : SUBSET Objects,
                    copied : SUBSET Objects]
    BY DEF Types, BackupType
  <2>2. Older(backup.age, Grace + 1) \in 0..Grace + 1
    BY <1>1, <2>1, OlderType
  <2>3. (IF backup.under_way THEN Older(backup.age, Grace + 1) ELSE 0) \in 0..Grace + 1
    BY <1>1, <2>2
  <2> QED
    BY <2>1, <2>3 DEF Tick, BackupType
<1>4. /\ NeededByBackup' = NeededByBackup
      /\ backup'.under_way = backup.under_way /\ backup'.copied = backup.copied
      /\ backup'.spared = backup.spared
  BY DEF Tick, NeededByBackup, Types, BackupType
<1>5. backup'.age \in 0..Grace + 1
  BY <1>3 DEF BackupType
<1> QED
  BY <1>2, <1>3, <1>4, <1>5, TickShape
     DEF Tick, Types, TypeOK, Scans, Writes, Candidates

LEMMA NextTypes ==
    ASSUME Types, [Next]_vars
    PROVE  Types'
<1>1. CASE UNCHANGED vars
  BY <1>1 DEF vars, rows, Types, TypeOK, BackupType, NeededByBackup
<1>2. CASE Next
  BY <1>2, PutTypes, WriterTypes, RowTypes, EditTypes, CollectTypes, LockTypes,
     BackupTypes, TickTypes DEF Next
<1> QED
  BY <1>1, <1>2

-----------------------------------------------------------------------------
(* What keeps the bytes. *)

\* What is spared within the grace is not deleted.
LEMMA SparedStays ==
    ASSUME Types, NEW o \in Objects, NEW age \in Nat, age + Wait <= Grace, Spared(o, age)
    PROVE  o \notin Deletable
<1>1. Wait \in Nat /\ Grace \in Nat /\ scan.age \in 0..Wait
  BY StoreAssumption DEF Types, TypeOK
<1>2. candidate[o] \in Candidates
  BY DEF Types, TypeOK, Candidates
<1>3. SUFFICES ASSUME o \in Deletable PROVE FALSE
  OBVIOUS
<1>4. /\ candidate[o] # None /\ ~Touched(o)
      /\ candidate[o].age > scan.age + Grace
  BY <1>3 DEF Deletable
<1>5. candidate[o].age \in Nat /\ candidate[o].age <= age + Wait
  BY <1>2, <1>4 DEF Spared, Candidates
<1> QED
  BY <1>1, <1>4, <1>5

\* A collection that commits marks nothing as older than its own clock.
LEMMA CollectMarks ==
    ASSUME Types, Collect, NEW o \in Objects, o \notin Deletable, candidate'[o] # None
    PROVE  /\ marker'[o] = marker[o]
           /\ \/ candidate'[o] = candidate[o]
              \/ candidate'[o] = [age |-> scan.age, token |-> marker[o], deleted |-> FALSE]
<1>1. o \notin Reachable
  BY DEF Collect
<1> QED
  BY <1>1 DEF Collect, Unmarked

LEMMA SparedByCollect ==
    ASSUME Types, NEW o \in Objects, NEW age \in Nat, age + Wait <= Grace, Spared(o, age),
           Collect
    PROVE  Spared(o, age)'
<1>1. Wait \in Nat /\ scan.age \in 0..Wait
  BY StoreAssumption DEF Types, TypeOK
<1>2. o \notin Deletable
  BY SparedStays
<1>3. o \in files'
  BY <1>2 DEF Collect, Spared
<1>4. CASE candidate'[o] = None
  BY <1>3, <1>4 DEF Spared
<1>5. CASE candidate'[o] # None
  <2>1. /\ marker'[o] = marker[o]
        /\ \/ candidate'[o] = candidate[o]
           \/ candidate'[o] = [age |-> scan.age, token |-> marker[o], deleted |-> FALSE]
    BY <1>2, <1>5, CollectMarks
  <2> QED
    BY <1>1, <1>3, <2>1 DEF Spared, Touched
<1> QED
  BY <1>4, <1>5

\* One that dies spares what it has not unmarked, and what has a mark with a marker.
LEMMA SparedByCrash ==
    ASSUME Types, NEW o \in Objects, NEW age \in Nat, age + Wait <= Grace, Spared(o, age),
           CollectCrash, marker'[o] = marker[o] \/ marker'[o] # candidate[o].token
    PROVE  Spared(o, age)'
<1>1. o \notin Deletable
  BY SparedStays
<1>2. o \in files' /\ candidate' = candidate
  BY <1>1 DEF CollectCrash, Spared, rows
<1> QED
  BY <1>2 DEF Spared, Touched

\* Bytes that are put are spared from then on, and putting them spares what was.
LEMMA SparedByPut ==
    ASSUME Types, NEW o \in Objects, StoreBytes(o), candidate' = candidate
    PROVE  /\ o \in files' /\ (candidate'[o] # None => Touched(o)')
           /\ \A p \in Objects : p \in files => p \in files'
           /\ \A p \in Objects \ {o} : Touched(p)' = Touched(p)
<1>1. /\ files' = files \cup {o}
      /\ \A p \in Objects \ {o} : marker'[p] = marker[p]
      /\ candidate[o] # None => candidate[o].token # marker'[o]
  BY StoreBytesType
<1> QED
  BY <1>1 DEF Touched

\* The steps that neither take bytes nor move a mark.
Calm == files \subseteq files' /\ marker' = marker /\ candidate' = candidate

LEMMA StepsAreCalm ==
    ASSUME [Next]_vars
    PROVE  \/ Calm
           \/ Collect \/ CollectCrash \/ Restore \/ Tick
           \/ \E o \in Objects : StoreBytes(o) /\ candidate' = candidate
<1>1. CASE UNCHANGED vars
  BY <1>1 DEF vars, rows, Calm
<1>2. CASE \E w \in Writers, o \in Objects : Put(w, o)
  BY <1>2 DEF Put, rows
<1>3. CASE \E w \in Writers : Renew(w) \/ Commit(w) \/ Abandon(w)
  BY <1>3 DEF Renew, Commit, Abandon, rows, Calm
<1>4. CASE \E o \in Objects : PutCrash(o) \/ Release(o) \/ RegisterImage(o)
  BY <1>4 DEF PutCrash, Release, RegisterImage, rows, Calm
<1>5. CASE \E e \in Editors : BeginEdit(e) \/ CommitEdit(e) \/ RollbackEdit(e)
  BY <1>5 DEF BeginEdit, CommitEdit, RollbackEdit, rows, Calm
<1>6. CASE \E e \in Editors, o \in Objects : EditPut(e, o)
  BY <1>6 DEF EditPut, rows
<1>7. CASE StartScan \/ LockStore \/ GiveUp \/ StartAudit \/ FinishAudit
  BY <1>7 DEF StartScan, LockStore, GiveUp, StartAudit, FinishAudit, rows, Calm
<1>8. CASE StartBackup \/ EndBackup \/ \E o \in Objects : CopyObject(o)
  BY <1>8 DEF StartBackup, EndBackup, CopyObject, rows, Calm
<1> QED
  BY <1>1, <1>2, <1>3, <1>4, <1>5, <1>6, <1>7, <1>8 DEF Next

\* As long as no tick passes and no collection dies, what is spared within the grace
\* stays so.
LEMMA SparedKept ==
    ASSUME Types, NEW o \in Objects, NEW age \in Nat,
           age + Wait <= Grace, Spared(o, age),
           [Next]_vars, ~Tick, ~Restore, ~CollectCrash
    PROVE  Spared(o, age)'
<1>1. CASE Calm
  BY <1>1 DEF Calm, Spared, Touched
<1>2. CASE Collect
  BY <1>2, SparedByCollect
<1>3. ASSUME NEW p \in Objects, StoreBytes(p), candidate' = candidate
      PROVE  Spared(o, age)'
  <2>1. CASE p = o
    BY <1>3, <2>1, SparedByPut DEF Spared
  <2>2. CASE p # o
    <3>1. o \in files' /\ Touched(o)' = Touched(o)
      BY <1>3, <2>2, SparedByPut DEF Spared
    <3> QED
      BY <1>3, <3>1 DEF Spared
  <2> QED
    BY <2>1, <2>2
<1> QED
  BY <1>1, <1>2, <1>3, StepsAreCalm

\* What is young stays young even then: no marker is needed.
LEMMA YoungKept ==
    ASSUME Types, NEW o \in Objects, NEW age \in Nat,
           age + Wait <= Grace, Young(o, age),
           [Next]_vars, ~Tick, ~Restore
    PROVE  Young(o, age)'
<1>1. o \notin Deletable
  BY SparedStays DEF Spared, Young
<1>2. CASE Calm
  BY <1>2 DEF Calm, Young
<1>3. CASE Collect
  <2>1. Wait \in Nat /\ scan.age \in 0..Wait
    BY StoreAssumption DEF Types, TypeOK
  <2>2. o \in files'
    BY <1>1, <1>3 DEF Collect, Young
  <2>3. ASSUME candidate'[o] # None
        PROVE  \/ candidate'[o] = candidate[o]
               \/ candidate'[o] = [age |-> scan.age, token |-> marker[o], deleted |-> FALSE]
    BY <1>1, <1>3, <2>3, CollectMarks
  <2> QED
    BY <2>1, <2>2, <2>3 DEF Young
<1>4. CASE CollectCrash
  BY <1>1, <1>4 DEF CollectCrash, Young, rows
<1>5. ASSUME NEW p \in Objects, StoreBytes(p), candidate' = candidate
      PROVE  Young(o, age)'
  BY <1>5 DEF StoreBytes, Young
<1> QED
  BY <1>2, <1>3, <1>4, <1>5, StepsAreCalm

\* A tick makes whatever is relied on one tick older as well.
LEMMA SparedByTick ==
    ASSUME Types, NEW o \in Objects, NEW age \in Nat, Tick
    PROVE  /\ Spared(o, age) => Spared(o, age + 1)'
           /\ Young(o, age) => Young(o, age + 1)'
<1>1. /\ candidate[o] \in Candidates /\ candidate'[o] \in Candidates
      /\ candidate'[o] # None =>
            /\ candidate[o] # None
            /\ candidate'[o].age <= candidate[o].age + 1
            /\ candidate'[o].token = candidate[o].token
  BY TickShape DEF Types, TypeOK, Candidates
<1>2. files' = files /\ marker' = marker
  BY DEF Tick
<1>3. Wait \in Nat
  BY StoreAssumption
<1>4. ASSUME candidate'[o] # None, candidate[o].age <= age + Wait
      PROVE  candidate'[o].age <= age + 1 + Wait
  <2>1. candidate[o].age \in Nat /\ candidate'[o].age \in Nat
    BY <1>1, <1>4 DEF Candidates
  <2> QED
    BY <1>1, <1>3, <1>4, <2>1
<1>5. ASSUME candidate'[o] # None, ~Touched(o)'
      PROVE  candidate[o] # None /\ ~Touched(o)
  BY <1>1, <1>2, <1>5 DEF Touched
<1> QED
  BY <1>1, <1>2, <1>4, <1>5 DEF Spared, Young

-----------------------------------------------------------------------------
(* Who relies on bytes. *)

\* What a writer that relies on bytes has put, and how old its marker is.
LEMMA WriterInTime ==
    ASSUME Types, NEW w \in Writers, Relies(w)
    PROVE  /\ writer[w].marker_age \in Nat
           /\ writer[w].marker_age + Wait <= Grace
           /\ writer[w].object \in Objects
<1>1. writer[w] \in Writes /\ Grace \in Nat
  BY StoreAssumption DEF Types, TypeOK, Writes
<1> QED
  BY <1>1 DEF Writes, Relies, Protected

\* What another step does to a write: it leaves it alone, or it ends it.
LEMMA OtherWriters ==
    ASSUME Types, [Next]_vars, NEW w \in Writers, writer'[w].object # None, ~Tick,
           ~CollectCrash, \A o \in Objects : ~Put(w, o)
    PROVE  /\ ~Restore
           /\ writer'[w].object = writer[w].object
           /\ writer'[w].marker_age = writer[w].marker_age
<1>1. NoWrite.object = None
  BY DEF NoWrite
<1>2. writer \in [Writers -> Writes]
  BY DEF Types, TypeOK, Writes
<1>3. ~Restore
  BY <1>1 DEF Restore
<1>4. CASE writer' = writer
  BY <1>3, <1>4
<1>5. CASE UNCHANGED vars
  BY <1>4, <1>5 DEF vars
<1>6. ASSUME NEW u \in Writers, NEW o \in Objects, Put(u, o)
      PROVE  writer'[w] = writer[w]
  <2>1. u # w
    BY <1>6
  <2> QED
    BY <1>2, <1>6, <2>1 DEF Put
<1>7. ASSUME NEW u \in Writers, Renew(u)
      PROVE  /\ writer'[w].object = writer[w].object
             /\ writer'[w].marker_age = writer[w].marker_age
  BY <1>2, <1>7 DEF Renew, Writes
<1>8. ASSUME NEW u \in Writers, Commit(u) \/ Abandon(u)
      PROVE  writer'[w] = writer[w]
  <2>1. CASE u = w
    BY <1>1, <1>2, <1>8, <2>1 DEF Commit, Abandon
  <2>2. CASE u # w
    BY <1>2, <1>8, <2>2 DEF Commit, Abandon
  <2> QED
    BY <2>1, <2>2
<1>9. CASE \E o \in Objects : PutCrash(o) \/ Release(o) \/ RegisterImage(o)
  BY <1>4, <1>9 DEF PutCrash, Release, RegisterImage
<1>10. CASE \/ \E e \in Editors : BeginEdit(e) \/ CommitEdit(e) \/ RollbackEdit(e)
            \/ \E e \in Editors, o \in Objects : EditPut(e, o)
  BY <1>4, <1>10 DEF BeginEdit, CommitEdit, RollbackEdit, EditPut
<1>11. CASE StartScan \/ LockStore \/ Collect \/ GiveUp
  BY <1>4, <1>11 DEF StartScan, LockStore, Collect, GiveUp
<1>12. CASE \/ StartAudit \/ FinishAudit \/ StartBackup \/ EndBackup
            \/ \E o \in Objects : CopyObject(o)
  BY <1>4, <1>12 DEF StartAudit, FinishAudit, StartBackup, EndBackup, CopyObject
<1> QED
  BY <1>3, <1>5, <1>6, <1>7, <1>8, <1>9, <1>10, <1>11, <1>12 DEF Next

\* A collection that dies spares a writer whose marker it has not lost.
LEMMA CrashedWriters ==
    ASSUME Types, CollectCrash, NEW w \in Writers, Relies(w)'
    PROVE  /\ Relies(w) /\ writer'[w] = writer[w]
           /\ \/ marker'[writer[w].object] = marker[writer[w].object]
              \/ marker'[writer[w].object] # candidate[writer[w].object].token
<1>1. Wait \in Nat /\ Grace \in Nat /\ writer[w] \in Writes
  BY StoreAssumption DEF Types, TypeOK, Writes
<1>2. PICK forgotten \in SUBSET Unmarked, gone \in SUBSET Deletable :
        /\ marker' = [o \in Objects |-> IF o \in gone \cup forgotten THEN None ELSE marker[o]]
        /\ writer' = [u \in Writers |->
                IF writer[u].object \in {o \in forgotten : candidate[o].token = None}
                THEN [writer[u] EXCEPT !.marker_age = Grace + 1]
                ELSE writer[u]]
  BY DEF CollectCrash
<1>3. writer[w].object \notin {o \in forgotten : candidate[o].token = None}
  <2>1. SUFFICES ASSUME writer'[w] = [writer[w] EXCEPT !.marker_age = Grace + 1]
                 PROVE  FALSE
    BY <1>2
  <2>2. writer'[w].marker_age = Grace + 1
    BY <1>1, <2>1 DEF Writes
  <2> QED
    BY <1>1, <2>2 DEF Relies, Protected
<1>4. writer'[w] = writer[w]
  BY <1>2, <1>3
<1>5. Relies(w) /\ writer[w].object \in Objects
  BY <1>1, <1>4 DEF Relies, Protected, Writes
<1>6. candidate[writer[w].object].token # None \/ writer[w].object \notin forgotten
  BY <1>3
<1>7. writer[w].object \in gone => candidate[writer[w].object].token = marker[writer[w].object]
  BY DEF Deletable, Touched
<1> QED
  BY <1>2, <1>4, <1>5, <1>6, <1>7

LEMMA NextWriters ==
    ASSUME Types, WritersSpared, [Next]_vars
    PROVE  WritersSpared'
<1> SUFFICES ASSUME NEW w \in Writers, Relies(w)'
             PROVE  Spared(writer[w].object, writer[w].marker_age)'
  BY DEF WritersSpared
<1>1. CASE Tick
  <2>1. /\ Relies(w)
        /\ writer'[w].object = writer[w].object
        /\ writer'[w].marker_age = writer[w].marker_age + 1
    BY <1>1, TickShape
  <2>2. PICK o \in Objects, age \in Nat : o = writer[w].object /\ age = writer[w].marker_age
    BY <2>1, WriterInTime
  <2>3. Spared(o, age)
    BY <2>1, <2>2 DEF WritersSpared
  <2>4. Spared(o, age + 1)'
    BY <1>1, <2>3, SparedByTick
  <2> QED
    BY <2>1, <2>2, <2>4 DEF Spared
<1>2. ASSUME NEW o \in Objects, Put(w, o)
      PROVE  Spared(writer[w].object, writer[w].marker_age)'
  <2>1. StoreBytes(o) /\ candidate' = candidate /\ writer'[w].object = o
    BY <1>2 DEF Put, rows, Types, TypeOK
  <2> QED
    BY <2>1, SparedByPut DEF Spared
<1>3. CASE CollectCrash
  <2>1. /\ Relies(w) /\ writer'[w] = writer[w]
        /\ \/ marker'[writer[w].object] = marker[writer[w].object]
           \/ marker'[writer[w].object] # candidate[writer[w].object].token
    BY <1>3, CrashedWriters
  <2>2. PICK o \in Objects, age \in Nat : /\ o = writer[w].object /\ age = writer[w].marker_age
                                          /\ age + Wait <= Grace
    BY <2>1, WriterInTime
  <2>3. Spared(o, age)
    BY <2>1, <2>2 DEF WritersSpared
  <2>4. Spared(o, age)'
    BY <1>3, <2>1, <2>2, <2>3, SparedByCrash
  <2> QED
    BY <2>1, <2>2, <2>4 DEF Spared
<1>4. CASE ~Tick /\ ~CollectCrash /\ \A o \in Objects : ~Put(w, o)
  <2>1. /\ ~Restore
        /\ writer'[w].object = writer[w].object
        /\ writer'[w].marker_age = writer[w].marker_age
    BY <1>4, OtherWriters DEF Relies
  <2>2. Relies(w)
    BY <2>1 DEF Relies, Protected
  <2>3. PICK o \in Objects, age \in Nat : /\ o = writer[w].object /\ age = writer[w].marker_age
                                          /\ age + Wait <= Grace
    BY <2>2, WriterInTime
  <2>4. Spared(o, age)
    BY <2>2, <2>3 DEF WritersSpared
  <2>5. Spared(o, age)'
    BY <1>4, <2>1, <2>3, <2>4, SparedKept
  <2> QED
    BY <2>1, <2>3, <2>5 DEF Spared
<1> QED
  BY <1>1, <1>2, <1>3, <1>4

\* Only a collection or a restoration takes files away.
LEMMA FilesGrow ==
    ASSUME [Next]_vars, ~Collect, ~CollectCrash, ~Restore
    PROVE  files \subseteq files'
  BY StepsAreCalm DEF Calm, Tick, StoreBytes

LEMMA NextEdits ==
    ASSUME Types, EditsStored, [Next]_vars
    PROVE  EditsStored'
<1> SUFFICES ASSUME NEW e \in Editors, edit'[e] \in Objects
             PROVE  edit'[e] \in files'
  BY DEF EditsStored
<1>1. "idle" \notin Objects /\ "open" \notin Objects /\ edit \in [Editors -> {"idle", "open"} \cup Objects]
  BY StoreAssumption DEF Types, TypeOK
<1>2. CASE Collect \/ CollectCrash
  <2>1. edit' = edit /\ edit[e] = "idle"
    BY <1>2 DEF Collect, CollectCrash, CanWrite, WriteLockFree
  <2> QED
    BY <1>1, <2>1
<1>3. CASE Restore
  BY <1>1, <1>3 DEF Restore
<1>4. ASSUME NEW o \in Objects, EditPut(e, o)
      PROVE  edit'[e] \in files'
  BY <1>1, <1>4 DEF EditPut, StoreBytes
<1>5. CASE ~Collect /\ ~CollectCrash /\ ~Restore /\ \A o \in Objects : ~EditPut(e, o)
  <2>1. edit'[e] = edit[e]
    <3>1. CASE UNCHANGED vars
      BY <3>1 DEF vars
    <3>2. ASSUME NEW d \in Editors,
                 \/ BeginEdit(d) \/ CommitEdit(d) \/ RollbackEdit(d)
                 \/ \E o \in Objects : EditPut(d, o)
          PROVE  edit'[e] = edit[e]
      <4>1. d # e
        BY <1>1, <1>5, <3>2 DEF BeginEdit, CommitEdit, RollbackEdit
      <4> QED
        BY <1>1, <3>2, <4>1 DEF BeginEdit, CommitEdit, RollbackEdit, EditPut
    <3>3. CASE \/ \E w \in Writers, o \in Objects : Put(w, o)
               \/ \E w \in Writers : Renew(w) \/ Commit(w) \/ Abandon(w)
               \/ \E o \in Objects : PutCrash(o) \/ Release(o) \/ RegisterImage(o)
      BY <3>3 DEF Put, Renew, Commit, Abandon, PutCrash, Release, RegisterImage
    <3>4. CASE \/ StartScan \/ LockStore \/ GiveUp \/ StartAudit \/ FinishAudit \/ Tick
               \/ StartBackup \/ EndBackup \/ \E o \in Objects : CopyObject(o)
      BY <3>4 DEF StartScan, LockStore, GiveUp, StartAudit, FinishAudit, Tick,
                  StartBackup, EndBackup, CopyObject
    <3> QED
      BY <1>5, <3>1, <3>2, <3>3, <3>4 DEF Next
  <2>2. files \subseteq files'
    BY <1>5, FilesGrow
  <2> QED
    BY <2>1, <2>2 DEF EditsStored
<1> QED
  BY <1>2, <1>3, <1>4, <1>5

\* A reference that lacks its bytes did so before, or an unprotected writer made it.
ReferencesStep ==
    \A o \in referenced' \ files' :
        \/ o \in referenced \ files
        \/ /\ o \notin referenced
           /\ \E w \in Writers : /\ writer[w].object = o /\ writer'[w] = NoWrite
                                 /\ ~Protected(w)

LEMMA NextReferences ==
    ASSUME Types, WritersSpared, EditsStored, [Next]_vars
    PROVE  ReferencesStep
<1> SUFFICES ASSUME NEW o \in referenced' \ files'
             PROVE  \/ o \in referenced \ files
                    \/ /\ o \notin referenced
                       /\ \E w \in Writers : /\ writer[w].object = o /\ writer'[w] = NoWrite
                                             /\ ~Protected(w)
  BY DEF ReferencesStep
<1>1. CASE Collect \/ CollectCrash
  <2>1. Deletable \cap referenced = {}
    BY DEF Deletable, Unreachable, Reachable
  <2> QED
    BY <1>1, <2>1 DEF Collect, CollectCrash, rows
<1>2. CASE Restore
  BY <1>2 DEF Restore, NeededByBackup
<1>3. CASE ~Collect /\ ~CollectCrash /\ ~Restore
  <2>1. o \notin files
    BY <1>3, FilesGrow
  <2>2. ASSUME NEW w \in Writers, Commit(w), o \notin referenced
        PROVE  writer[w].object = o /\ writer'[w] = NoWrite /\ ~Protected(w)
    <3>1. writer[w].object = o
      BY <2>2 DEF Commit
    <3>2. writer'[w] = NoWrite
      BY <2>2 DEF Commit, Types, TypeOK
    <3>3. ~Protected(w)
      BY <2>1, <2>2, <3>1 DEF Commit, WritersSpared, Relies, Spared
    <3> QED
      BY <3>1, <3>2, <3>3
  <2>3. ASSUME NEW e \in Editors, CommitEdit(e)
        PROVE  o \in referenced
    BY <2>1, <2>3 DEF CommitEdit, EditsStored
  <2>4. CASE \A w \in Writers : ~Commit(w) /\ \A e \in Editors : ~CommitEdit(e)
    <3>1. CASE UNCHANGED vars
      BY <2>1, <3>1 DEF vars, rows
    <3>2. CASE \/ \E w \in Writers, p \in Objects : Put(w, p)
               \/ \E w \in Writers : Renew(w) \/ Abandon(w)
               \/ \E p \in Objects : PutCrash(p) \/ Release(p) \/ RegisterImage(p)
      BY <2>1, <3>2 DEF Put, Renew, Abandon, PutCrash, Release, RegisterImage, rows
    <3>3. CASE \/ \E e \in Editors : BeginEdit(e) \/ RollbackEdit(e)
               \/ \E e \in Editors, p \in Objects : EditPut(e, p)
      BY <2>1, <3>3 DEF BeginEdit, RollbackEdit, EditPut, rows
    <3>4. CASE \/ StartScan \/ LockStore \/ GiveUp \/ StartAudit \/ FinishAudit \/ Tick
               \/ StartBackup \/ EndBackup \/ \E p \in Objects : CopyObject(p)
      BY <2>1, <3>4 DEF StartScan, LockStore, GiveUp, StartAudit, FinishAudit, Tick,
                        StartBackup, EndBackup, CopyObject, rows
    <3>5. CASE (\E w \in Writers : Commit(w)) \/ (\E e \in Editors : CommitEdit(e))
      BY <2>1, <2>2, <2>3, <3>5
    <3> QED
      BY <1>3, <3>1, <3>2, <3>3, <3>4, <3>5 DEF Next
  <2> QED
    BY <2>1, <2>2, <2>3, <2>4
<1> QED
  BY <1>1, <1>2, <1>3

\* What a step does to a backup within the grace that it does not start.
LEMMA BackupSteps ==
    ASSUME Types, [Next]_vars, InGrace', ~Tick, ~StartBackup
    PROVE  /\ ~Restore
           /\ backup'.under_way = backup.under_way /\ backup'.age = backup.age
           /\ backup'.referenced = backup.referenced /\ backup'.spared = backup.spared
<1>1. ~Restore /\ ~EndBackup
  BY DEF Restore, EndBackup, NoBackup, InGrace
<1>2. CASE UNCHANGED vars
  BY <1>1, <1>2 DEF vars
<1>3. CASE \/ \E w \in Writers, o \in Objects : Put(w, o)
           \/ \E w \in Writers : Renew(w) \/ Commit(w) \/ Abandon(w)
           \/ \E o \in Objects : PutCrash(o) \/ Release(o) \/ RegisterImage(o)
  BY <1>1, <1>3 DEF Put, Renew, Commit, Abandon, PutCrash, Release, RegisterImage
<1>4. CASE \/ \E e \in Editors : BeginEdit(e) \/ CommitEdit(e) \/ RollbackEdit(e)
           \/ \E e \in Editors, o \in Objects : EditPut(e, o)
  BY <1>1, <1>4 DEF BeginEdit, CommitEdit, RollbackEdit, EditPut
<1>5. CASE \/ StartScan \/ LockStore \/ Collect \/ CollectCrash \/ GiveUp
           \/ StartAudit \/ FinishAudit
  BY <1>1, <1>5 DEF StartScan, LockStore, Collect, CollectCrash, GiveUp,
                    StartAudit, FinishAudit
<1>6. ASSUME NEW o \in Objects, CopyObject(o)
      PROVE  /\ backup'.under_way = backup.under_way /\ backup'.age = backup.age
             /\ backup'.referenced = backup.referenced /\ backup'.spared = backup.spared
  BY <1>6 DEF CopyObject, Types, BackupType
<1> QED
  BY <1>1, <1>2, <1>3, <1>4, <1>5, <1>6 DEF Next

LEMMA NextBackup ==
    ASSUME Types, BackupSpared, [Next]_vars
    PROVE  BackupSpared'
<1> SUFFICES ASSUME InGrace', NEW o \in backup'.spared
             PROVE  Young(o, backup.age)'
  BY DEF BackupSpared
<1>1. Wait \in Nat /\ Grace \in Nat /\ backup.age \in 0..Grace + 1
  BY StoreAssumption DEF Types, BackupType
<1>2. CASE StartBackup
  <2>1. /\ Calm
        /\ o \in files /\ candidate[o] = None
    BY <1>2 DEF StartBackup, Calm, rows
  <2>2. o \in files' /\ candidate'[o] = None
    BY <2>1 DEF Calm
  <2> QED
    BY <2>2 DEF Young
<1>3. CASE Tick
  <2>1. /\ backup'.under_way = backup.under_way
        /\ backup'.age = IF backup.under_way THEN Older(backup.age, Grace + 1) ELSE 0
        /\ backup'.referenced = backup.referenced /\ backup'.spared = backup.spared
    BY <1>3 DEF Tick, Types, BackupType
  <2>2. /\ Older(backup.age, Grace + 1) \in Nat
        /\ Older(backup.age, Grace + 1) < Grace + 1 =>
                Older(backup.age, Grace + 1) = backup.age + 1
    BY <1>1 DEF Older
  <2>3. backup'.under_way /\ backup'.age + Wait <= Grace
    BY DEF InGrace
  <2>4. backup'.age = backup.age + 1 /\ InGrace
    BY <1>1, <2>1, <2>2, <2>3 DEF InGrace
  <2>5. o \in Objects /\ Young(o, backup.age)
    BY <2>1, <2>4 DEF BackupSpared, Types, BackupType
  <2>6. PICK age \in Nat : age = backup.age
    BY <1>1
  <2>7. Young(o, age + 1)'
    BY <1>3, <2>5, <2>6, SparedByTick
  <2> QED
    BY <2>4, <2>6, <2>7 DEF Young
<1>4. CASE ~Tick /\ ~StartBackup
  <2>1. /\ ~Restore
        /\ backup'.under_way = backup.under_way /\ backup'.age = backup.age
        /\ backup'.referenced = backup.referenced /\ backup'.spared = backup.spared
    BY <1>4, BackupSteps
  <2>2. InGrace /\ o \in Objects /\ Young(o, backup.age)
    BY <2>1 DEF InGrace, BackupSpared, Types, BackupType
  <2>3. PICK age \in Nat : age = backup.age
    BY <1>1
  <2>4. Young(o, age)'
    BY <1>1, <1>4, <2>1, <2>2, <2>3, YoungKept DEF InGrace
  <2> QED
    BY <2>1, <2>3, <2>4 DEF Young
<1> QED
  BY <1>2, <1>3, <1>4

-----------------------------------------------------------------------------
(* The theorems. *)

\* Whatever processes put, commit, collect, back up and restore, every variable of
\* the store keeps its type, and every reference has its row in stored_objects.
THEOREM TypeCorrect == Spec => []TypeOK
<1>1. Init => Types
  BY InitTypes
<1>2. Types /\ [Next]_vars => Types'
  BY NextTypes
<1>3. Types => TypeOK
  BY DEF Types
<1> QED
  BY <1>1, <1>2, <1>3, PTL DEF Spec

LEMMA Invariance == Spec => []IInv
<1>1. Init => IInv
  <2> SUFFICES ASSUME Init PROVE IInv
    OBVIOUS
  <2>1. Types
    BY InitTypes
  <2>2. WritersSpared
    BY DEF Init, WritersSpared, Relies, NoWrite
  <2>3. EditsStored
    BY StoreAssumption DEF Init, EditsStored
  <2>4. BackupSpared
    BY DEF Init, BackupSpared, InGrace, NoBackup
  <2> QED
    BY <2>1, <2>2, <2>3, <2>4 DEF IInv
<1>2. IInv /\ [Next]_vars => IInv'
  BY NextTypes, NextWriters, NextEdits, NextBackup DEF IInv
<1> QED
  BY <1>1, <1>2, PTL DEF Spec

\* The collector never takes the bytes from under a reference that is there (ADR-0005),
\* and a reference is only ever committed without bytes by a writer that came too late,
\* or whose marker a collection that died has removed.
THEOREM ReferencesKept == Spec => ReferencesKeepTheirBytes
<1>1. IInv /\ [Next]_vars => ReferencesStep
  BY NextReferences DEF IInv
<1>2. IInv /\ [Next]_vars => [ReferencesStep]_vars
  BY <1>1
<1>3. [][ReferencesStep]_vars => ReferencesKeepTheirBytes
  BY DEF ReferencesStep, ReferencesKeepTheirBytes
<1> QED
  BY <1>2, <1>3, Invariance, PTL DEF Spec

\* A writer finds the bytes it has put for the grace period after its put, less what a
\* collection may have waited, unless a collection that died has removed its marker; an
\* edit finds them until it ends.  No collection that runs meanwhile takes them.
THEOREM LiveWritesStored == Spec => []LiveWritesAreStored
<1>1. IInv => LiveWritesAreStored
  BY DEF IInv, WritersSpared, Relies, Spared, EditsStored, LiveWritesAreStored
<1> QED
  BY <1>1, Invariance, PTL

\* A backup finds the bytes its copied rows need for as long as the grace period,
\* except for objects that carried a mark or lacked their bytes when they were copied.
THEOREM BackupComplete == Spec => []BackupFindsItsObjects
<1>1. IInv => BackupFindsItsObjects
  BY DEF IInv, BackupSpared, InGrace, Young, BackupFindsItsObjects
<1> QED
  BY <1>1, Invariance, PTL

===============================================================================
