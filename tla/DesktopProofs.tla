---------------------------- MODULE DesktopProofs ----------------------------
(***************************************************************************)
(* Theorems about the work on one device: merges of two edits of a record  *)
(* (MergeCases), records on the move (Transfer), the entry of games        *)
(* (Recording) and the settings (Settings), for any sets of fields,        *)
(* values, records, archives, modes and preferences and any bounds.        *)
(***************************************************************************)
EXTENDS MergeCases, Transfer, Recording, Settings, SequenceTheorems, WellFoundedInduction, TLAPS

-----------------------------------------------------------------------------
(***************************************************************************)
(* Merges.  The lemmas ask nothing of the base and the two sides, so they  *)
(* hold wherever the code merges, whatever the history of the record.      *)
(***************************************************************************)
(* Two values that count as the same do so in either order.                *)
LEMMA EquivalentIsSymmetric ==
    ASSUME NEW c, NEW x, NEW y, Equivalent(c, x, y)
    PROVE  Equivalent(c, y, x)
BY DEF Equivalent

(* What a merge makes of a column, by the sides that changed it.           *)
LEMMA MergedColumn ==
    ASSUME NEW b, NEW l, NEW r, NEW c \in Columns
    PROVE  /\ c \in Changed(b, l)    => Merged(b, l, r)[c] = l[c]
           /\ c \notin Changed(b, l) => Merged(b, l, r)[c] = r[c]
BY DEF Merged

(* A merge that is not handed to the user keeps the changes of both sides  *)
(* and makes none of its own.                                              *)
LEMMA MergeKeeps ==
    ASSUME NEW b, NEW l, NEW r, ~Collides(b, l, r)
    PROVE  /\ \A c \in Changed(b, l) : Equivalent(c, Merged(b, l, r)[c], l[c])
           /\ \A c \in Changed(b, r) : Equivalent(c, Merged(b, l, r)[c], r[c])
           /\ Changed(b, Merged(b, l, r)) = Changed(b, l) \cup Changed(b, r)
<1> DEFINE m == Merged(b, l, r)
<1>1. \A c \in Changed(b, l) : c \in Columns /\ m[c] = l[c]
  BY MergedColumn DEF Changed
<1>2. \A c \in Changed(b, r) : c \in Columns /\ Equivalent(c, m[c], r[c])
  <2> TAKE c \in Changed(b, r)
  <2>1. c \in Columns
    BY DEF Changed
  <2>2. CASE c \in Changed(b, l)
    BY <2>1, <2>2, <1>1 DEF Collides
  <2>3. CASE c \notin Changed(b, l)
    BY <2>1, <2>3, MergedColumn DEF Equivalent
  <2> QED
    BY <2>1, <2>2, <2>3
<1>3. Changed(b, m) = Changed(b, l) \cup Changed(b, r)
  <2>1. ASSUME NEW c \in Columns
        PROVE  c \in Changed(b, m) <=> c \in Changed(b, l) \/ c \in Changed(b, r)
    <3>1. CASE c \in Changed(b, l)
      BY <3>1, <1>1 DEF Changed
    <3>2. CASE c \notin Changed(b, l)
      <4>1. m[c] = r[c]
        BY <3>2, MergedColumn
      <4> QED
        BY <3>2, <4>1 DEF Changed
    <3> QED
      BY <3>1, <3>2
  <2> QED
    BY <2>1 DEF Changed
<1>4. \A c \in Changed(b, l) : Equivalent(c, m[c], l[c])
  BY <1>1 DEF Equivalent
<1> QED
  BY <1>2, <1>3, <1>4

(* The two ends of a pair of edits collide together, and merge to the same *)
(* record.                                                                 *)
LEMMA CollidesIsSymmetric ==
    ASSUME NEW b, NEW l, NEW r, Collides(b, l, r)
    PROVE  Collides(b, r, l)
BY EquivalentIsSymmetric DEF Collides

(* The same edits merged from either end make the same record.             *)
LEMMA MergeIsCommutative ==
    ASSUME NEW b, NEW l, NEW r, ~Collides(b, l, r)
    PROVE  SameRecord(Merged(b, l, r), Merged(b, r, l))
<1> SUFFICES ASSUME NEW c \in Columns
             PROVE  Equivalent(c, Merged(b, l, r)[c], Merged(b, r, l)[c])
  BY DEF SameRecord, Changed
<1>1. CASE c \in Changed(b, l) /\ c \in Changed(b, r)
  <2>1. Merged(b, l, r)[c] = l[c] /\ Merged(b, r, l)[c] = r[c]
    BY <1>1, MergedColumn
  <2> QED
    BY <1>1, <2>1 DEF Collides
<1>2. CASE c \in Changed(b, l) /\ c \notin Changed(b, r)
  <2>1. Merged(b, l, r)[c] = l[c] /\ Merged(b, r, l)[c] = l[c]
    BY <1>2, MergedColumn
  <2> QED
    BY <2>1 DEF Equivalent
<1>3. CASE c \notin Changed(b, l) /\ c \in Changed(b, r)
  <2>1. Merged(b, l, r)[c] = r[c] /\ Merged(b, r, l)[c] = r[c]
    BY <1>3, MergedColumn
  <2> QED
    BY <2>1 DEF Equivalent
<1>4. CASE c \notin Changed(b, l) /\ c \notin Changed(b, r)
  <2>1. Merged(b, l, r)[c] = r[c] /\ Merged(b, r, l)[c] = l[c]
    BY <1>4, MergedColumn
  <2>2. Equivalent(c, b[c], l[c]) /\ Equivalent(c, b[c], r[c])
    BY <1>4 DEF Changed
  <2> QED
    BY <2>1, <2>2 DEF Equivalent
<1> QED
  BY <1>1, <1>2, <1>3, <1>4

(* The operation worked out from the row before the merge is the one for   *)
(* the row after it.                                                       *)
LEMMA MergeKeepsItsOperation ==
    ASSUME NEW b, NEW l, NEW r,
           ~Collides(b, l, r), ~(Deleted(l) /\ Deleted(r)),
           ~SameRecord(Merged(b, l, r), r)
    PROVE  ResolutionOp(l, r) = ResolutionOp(Merged(b, l, r), r)
<1> DEFINE m == Merged(b, l, r)
<1>1. DeletedAt \in Columns
  BY DEF Columns
<1>2. Deleted(m) <=> Deleted(l)
  <2>1. CASE DeletedAt \in Changed(b, l)
    BY <1>1, <2>1, MergedColumn DEF Deleted
  <2>2. CASE DeletedAt \notin Changed(b, l) /\ DeletedAt \notin Changed(b, r)
    <3>1. m[DeletedAt] = r[DeletedAt]
      BY <1>1, <2>2, MergedColumn
    <3>2. Deleted(b) <=> Deleted(l)
      BY <1>1, <2>2 DEF Changed, Equivalent, Deleted
    <3>3. Deleted(b) <=> Deleted(r)
      BY <1>1, <2>2 DEF Changed, Equivalent, Deleted
    <3> QED
      BY <3>1, <3>2, <3>3 DEF Deleted
  <2>3. CASE DeletedAt \notin Changed(b, l) /\ DeletedAt \in Changed(b, r)
    <3>1. Changed(b, l) = {}
      BY <2>3 DEF Collides
    <3>2. \A c \in Columns : m[c] = r[c]
      BY <3>1, MergedColumn
    <3>3. SameRecord(m, r)
      BY <3>2 DEF SameRecord, Changed, Equivalent
    <3> QED
      BY <3>3
  <2> QED
    BY <2>1, <2>2, <2>3
<1> QED
  BY <1>2 DEF ResolutionOp

-----------------------------------------------------------------------------
(* No automatic merge of any history loses a change of either side, or     *)
(* makes one up (_reconcile_remote).                                       *)
THEOREM MergesLoseNothing == Spec => []MergeKeepsBothSides
<1>1. MergeKeepsBothSides
  BY MergeKeeps DEF MergeKeepsBothSides
<1> QED
  BY <1>1, PTL

(* Two clients that merge the same pair of edits from opposite ends agree  *)
(* (_reconcile_remote on each of them).                                    *)
THEOREM MergesAgree == Spec => []MergeIsSymmetric
<1>1. MergeIsSymmetric
  BY CollidesIsSymmetric, MergeIsCommutative DEF MergeIsSymmetric
<1> QED
  BY <1>1, PTL

(* What is queued for a merged record is the operation that record needs   *)
(* (_resolution_operation as _reconcile_remote calls it).                  *)
THEOREM MergesAreQueuedAsTheyAre == Spec => []MergeIsQueuedAsWhatItIs
<1>1. MergeIsQueuedAsWhatItIs
  BY MergeKeepsItsOperation DEF MergeIsQueuedAsWhatItIs
<1> QED
  BY <1>1, PTL

-----------------------------------------------------------------------------
(***************************************************************************)
(* Records on the move.  TransferInv is inductive.  Its parts are about    *)
(* the files (a database has its pending rows queued and the records of    *)
(* its batches), and about the work in hand: what each step may rely on    *)
(* because an earlier one made sure of it, whatever the sync thread does   *)
(* in between.                                                             *)
(***************************************************************************)
\* Status and queue of a row agree.
Agrees(row) == row # Nothing => (row.status = "pending" <=> row.queue > 0)

\* A database in which they do, once it has them, and from which no record of
\* an import is missing.
SoundFile ==
    {d \in DatabaseFile :
        /\ d.version >= SyncVersion => \A g \in Records : Agrees(d.rows[g])
        /\ \A b \in d.batches, g \in Records : b.sum[g] # Nothing => d.rows[g] # Nothing}

BackupFile == [from : Nat, rows : Rows]

Archive == [published : BOOLEAN, written : 0..Files, kind : {Guest, "registered"},
            records : Snapshots, sum : Snapshots]

Source == [kind : {Nothing, Guest, "registered"}, archive : Archives \cup {Nothing},
           records : Snapshots, sum : Snapshots]

FileSteps   == {"prepare", "check", "backup", "retain", "migrate", "ready"}
ImportSteps == {"begin", "insert"}

Job == [step : FileSteps \cup ImportSteps \cup {"none", "export"},
        profile : Profiles \cup {Nothing},
        purpose : {Nothing, "open", "import", "archive", "export"}, source : Source]

FilesInv ==
    /\ db \in [Profiles -> SoundFile \cup {Nothing}]
    /\ legacy \in SoundFile \cup {Nothing}
    /\ bak \in [Profiles -> [newest : BackupFile \cup {Nothing}, older : SUBSET BackupFile]]
    /\ dirs \in [Archives -> Archive \cup {Nothing}]
    /\ open \in Profiles \cup {Nothing}
    /\ open # Nothing => db[open] # Nothing
    /\ told \subseteq Profiles \X Records

\* The profile that is opened or receives a guest's records is not the open one.
JobInv ==
    /\ job \in Job
    /\ ~At("none") /\ job.purpose \in {"open", "import"} =>
          job.profile # open /\ job.profile \in Profiles
    /\ ~At("none") /\ job.purpose = "import" => db[Guest] # Nothing
    /\ job.step \in FileSteps => job.purpose \in {"open", "import"}
    /\ job.step \in ImportSteps \cup (FileSteps \ {"prepare"}) =>
          job.profile \in Profiles /\ Current # Nothing

ImportInv ==
    job.step \in ImportSteps =>
        /\ job.source.kind \in {Guest, "registered"} /\ job.source.records = job.source.sum
        /\ job.purpose \in {"import", "archive"}

\* The backup of what is to be migrated is there.
BackupInv ==
    job.step \in {"retain", "migrate"} /\ Current.version > 0 =>
        bak[job.profile].newest = Backup(Current)

ExportInv ==
    At("export") => /\ job.source.archive \in Archives
                    /\ dirs[job.source.archive] \in Archive
                    /\ ~dirs[job.source.archive].published

TransferInv ==
    /\ FilesInv /\ JobInv /\ ImportInv /\ BackupInv /\ ExportInv
    /\ ToldRecordsAreThere /\ ArchivesAreWhole

-----------------------------------------------------------------------------
(* Databases.                                                              *)

\* No record of d is missing from e.
Keeps(d, e) == \A g \in Records : d.rows[g] # Nothing => e.rows[g] # Nothing

(* A sentinel is none of the values it stands in for.                      *)
LEMMA Sentinels ==
    /\ \A r \in DatabaseRow : r # Nothing
    /\ \A d \in SoundFile : d # Nothing /\ d \in DatabaseFile
    /\ \A c \in Contents : c # Nothing
    /\ \A p \in Profiles : p # Nothing
    /\ Guest \in Profiles
BY NothingAssumption DEF SoundFile, Profiles

(* Rows that are new to a database (_insert_record, insert_game) and rows  *)
(* that are changed (update_game) are rows, and agree with their queue.    *)
LEMMA RowIsSound ==
    ASSUME NEW c \in Contents
    PROVE  Row(c) \in DatabaseRow /\ Agrees(Row(c)) /\ Row(c) # Nothing
<1>1. Row(c) \in DatabaseRow
  BY DEF Row, DatabaseRow
<1>2. Agrees(Row(c))
  BY DEF Row, Agrees
<1> QED
  BY <1>1, <1>2, Sentinels

LEMMA EditedIsSound ==
    ASSUME NEW row \in DatabaseRow, NEW c \in Contents, NEW deleted \in BOOLEAN
    PROVE  Edited(row, c, deleted) \in DatabaseRow /\ Agrees(Edited(row, c, deleted))
BY DEF Edited, DatabaseRow, Agrees

(* A database is as good with other rows, if they agree with their queue   *)
(* and none is missing.                                                    *)
LEMMA RowsReplaced ==
    ASSUME NEW d \in SoundFile, NEW rows \in Rows,
           d.version >= SyncVersion => \A g \in Records : Agrees(rows[g]),
           \A g \in Records : d.rows[g] # Nothing => rows[g] # Nothing
    PROVE  /\ [d EXCEPT !.rows = rows] \in SoundFile
           /\ Keeps(d, [d EXCEPT !.rows = rows])
BY DEF SoundFile, DatabaseFile, Keeps

(* One row replaced.                                                       *)
LEMMA RowReplaced ==
    ASSUME NEW d \in SoundFile, NEW g \in Records, NEW row \in DatabaseRow, Agrees(row)
    PROVE  /\ [d EXCEPT !.rows[g] = row] \in SoundFile
           /\ Keeps(d, [d EXCEPT !.rows[g] = row])
           /\ [d EXCEPT !.rows[g] = row].version = d.version
<1> DEFINE rows == [d.rows EXCEPT ![g] = row]
<1>1. d \in DatabaseFile /\ d.rows \in Rows
  BY DEF SoundFile, DatabaseFile
<1>2. rows \in Rows /\ \A h \in Records : rows[h] = IF h = g THEN row ELSE d.rows[h]
  BY <1>1 DEF Rows
<1>3. d.version >= SyncVersion => \A h \in Records : Agrees(rows[h])
  BY <1>2 DEF SoundFile
<1>4. \A h \in Records : d.rows[h] # Nothing => rows[h] # Nothing
  BY <1>2, Sentinels
<1>5. [d EXCEPT !.rows[g] = row] = [d EXCEPT !.rows = rows]
  OBVIOUS
<1> HIDE DEF rows
<1>6. [d EXCEPT !.rows = rows].version = d.version
  BY <1>1 DEF DatabaseFile
<1> QED
  BY <1>2, <1>3, <1>4, <1>5, <1>6, RowsReplaced

(* What export and import take from a database.                            *)
LEMMA LiveType ==
    ASSUME NEW d \in SoundFile
    PROVE  Live(d) \in Snapshots /\ \A g \in Records : Live(d)[g] # Nothing => d.rows[g] # Nothing
BY DEF Live, Snapshots, SoundFile, DatabaseFile, Rows, DatabaseRow

(* A new file (prepare_database) has no records.                           *)
LEMMA NewFileIsSound == ASSUME NEW v \in Nat PROVE Database(v, NoRows) \in SoundFile
BY DEF Database, NoRows, SoundFile, DatabaseFile, Rows, Agrees

(* A file of the version without sync columns.                             *)
LEMMA OldFileIsSound == ASSUME NEW d \in OldDatabases PROVE d \in SoundFile
<1>1. PICK rows \in [Records -> {Nothing} \cup {Raw(c) : c \in Contents}] : d = Database(1, rows)
  BY DEF OldDatabases
<1>2. \A c \in Contents : Raw(c) \in DatabaseRow
  BY DEF Raw, DatabaseRow
<1>3. rows \in Rows
  BY <1>2 DEF Rows
<1> QED
  BY <1>1, <1>3 DEF Database, SoundFile, DatabaseFile, SyncVersion

(* A migration loses no record and queues each that has no entry yet       *)
(* (_migrate_v1_to_v2).                                                    *)
LEMMA MigratedIsSound ==
    ASSUME NEW d \in SoundFile
    PROVE  Migrated(d) \in SoundFile /\ Keeps(d, Migrated(d))
<1> DEFINE rows == [g \in Records |-> IF d.version >= SyncVersion \/ d.rows[g] = Nothing
                                      THEN d.rows[g] ELSE Row(d.rows[g].content)]
<1>1. d \in DatabaseFile /\ d.rows \in Rows
  BY DEF SoundFile, DatabaseFile
<1>2. \A g \in Records : d.rows[g] # Nothing => d.rows[g].content \in Contents
  BY <1>1 DEF Rows, DatabaseRow
<1>3. \A g \in Records : /\ rows[g] \in DatabaseRow \cup {Nothing}
                         /\ Agrees(rows[g])
                         /\ d.rows[g] # Nothing => rows[g] # Nothing
  <2> SUFFICES ASSUME NEW g \in Records
               PROVE  /\ rows[g] \in DatabaseRow \cup {Nothing} /\ Agrees(rows[g])
                      /\ d.rows[g] # Nothing => rows[g] # Nothing
    OBVIOUS
  <2>1. CASE d.version >= SyncVersion
    BY <1>1, <2>1 DEF SoundFile, Rows
  <2>2. CASE d.rows[g] = Nothing
    BY <2>2 DEF Agrees
  <2>3. CASE ~(d.version >= SyncVersion) /\ d.rows[g] # Nothing
    BY <1>2, <2>3, RowIsSound
  <2> QED
    BY <2>1, <2>2, <2>3
<1>4. rows \in Rows
  BY <1>3 DEF Rows
<1>5. Migrated(d) = [d EXCEPT !.version = Latest, !.rows = rows]
  BY <1>1 DEF Migrated, DatabaseFile
<1> HIDE DEF rows
<1> QED
  BY <1>1, <1>3, <1>4, <1>5, TransferAssumption DEF SoundFile, DatabaseFile, Keeps

(* An import adds records and notes its batch, all of whose records are    *)
(* there (_import_records, _insert_record).                                *)
LEMMA ImportedIsSound ==
    ASSUME NEW d \in SoundFile, NEW s \in Source, s.kind \in {Guest, "registered"},
           s.records = s.sum
    PROVE  /\ WithBatch(d, s) \in SoundFile /\ Keeps(d, WithBatch(d, s))
           /\ \A g \in Records :
                 /\ s.sum[g] # Nothing => WithBatch(d, s).rows[g] # Nothing
                 /\ WithBatch(d, s).rows[g] # d.rows[g] =>
                       /\ d.rows[g] = Nothing /\ s.sum[g] # Nothing
                       /\ WithBatch(d, s).rows[g] = Row(s.sum[g])
<1>1. d \in DatabaseFile /\ d.rows \in Rows /\ s.records \in Snapshots
  BY DEF SoundFile, DatabaseFile, Source
<1> DEFINE rows == Imported(d.rows, s.records)
<1>2. \A g \in Records : rows[g] = IF d.rows[g] = Nothing /\ s.records[g] # Nothing
                                   THEN Row(s.records[g]) ELSE d.rows[g]
  BY DEF Imported
<1>3. \A g \in Records : s.records[g] # Nothing => s.records[g] \in Contents
  BY <1>1 DEF Snapshots
<1>4. rows \in Rows
  <2>1. \A g \in Records : rows[g] \in DatabaseRow \cup {Nothing}
    BY <1>1, <1>2, <1>3, RowIsSound DEF Rows
  <2> QED
    BY <2>1 DEF Imported, Rows
<1>5. Batch(s) \in ImportBatch /\ Batch(s).sum = s.sum
  BY DEF Batch, ImportBatch, Source
<1> DEFINE e == WithBatch(d, s)
<1>6. /\ e \in [version : Nat, rows : Rows, batches : SUBSET ImportBatch]
      /\ e.version = d.version /\ e.rows = rows
      /\ e.batches = d.batches \cup {Batch(s)}
  BY <1>1, <1>4, <1>5 DEF DatabaseFile, WithBatch
<1>7. \A g \in Records : /\ d.rows[g] # Nothing => rows[g] # Nothing
                         /\ s.sum[g] # Nothing => rows[g] # Nothing
  BY <1>2, <1>3, RowIsSound
<1>8. d.version >= SyncVersion => \A g \in Records : Agrees(rows[g])
  BY <1>2, <1>3, RowIsSound DEF SoundFile
<1>9. \A g \in Records : rows[g] # d.rows[g] =>
          d.rows[g] = Nothing /\ s.sum[g] # Nothing /\ rows[g] = Row(s.sum[g])
  BY <1>2
<1> HIDE DEF rows, e
<1>10. e \in DatabaseFile
  BY <1>1, <1>4, <1>5, <1>6 DEF DatabaseFile
<1>11. \A b \in e.batches, g \in Records : b.sum[g] # Nothing => e.rows[g] # Nothing
  <2> SUFFICES ASSUME NEW b \in e.batches, NEW g \in Records, b.sum[g] # Nothing
               PROVE  rows[g] # Nothing
    BY <1>6
  <2>1. CASE b = Batch(s)
    BY <2>1, <1>5, <1>7
  <2>2. CASE b \in d.batches
    BY <2>2, <1>7 DEF SoundFile
  <2> QED
    BY <2>1, <2>2, <1>6
<1>12. e.rows = rows /\ e.version = d.version
  BY <1>6
<1>13. e \in SoundFile
  BY <1>8, <1>10, <1>11, <1>12 DEF SoundFile
<1> QED
  BY <1>7, <1>9, <1>12, <1>13 DEF Keeps, e

-----------------------------------------------------------------------------
(* Steps.                                                                  *)

(* What a step that changes one database, and loses nothing of it, leaves  *)
(* of the invariant.                                                       *)
LEMMA OneFileChanged ==
    ASSUME TransferInv, NEW p \in Profiles, NEW e \in SoundFile,
           db[p] # Nothing => Keeps(db[p], e),
           db' = [db EXCEPT ![p] = e]
    PROVE  /\ db' \in [Profiles -> SoundFile \cup {Nothing}]
           /\ \A q \in Profiles : db'[q] = IF q = p THEN e ELSE db[q]
           /\ \A q \in Profiles : db[q] # Nothing => db'[q] # Nothing
           /\ \A t \in told : db'[t[1]] # Nothing /\ db'[t[1]].rows[t[2]] # Nothing
<1>1. db \in [Profiles -> SoundFile \cup {Nothing}] /\ told \subseteq Profiles \X Records
  BY DEF TransferInv, FilesInv
<1>2. \A q \in Profiles : db'[q] = IF q = p THEN e ELSE db[q]
  BY <1>1
<1>3. \A q \in Profiles : db[q] # Nothing => db'[q] # Nothing
  BY <1>2, Sentinels
<1>4. ASSUME NEW t \in told PROVE db'[t[1]] # Nothing /\ db'[t[1]].rows[t[2]] # Nothing
  <2>1. t[1] \in Profiles /\ t[2] \in Records
    BY <1>1
  <2>2. db[t[1]] # Nothing /\ db[t[1]].rows[t[2]] # Nothing
    BY DEF TransferInv, ToldRecordsAreThere
  <2> QED
    BY <1>2, <1>3, <2>1, <2>2 DEF Keeps
<1> QED
  BY <1>1, <1>2, <1>3, <1>4

(* No work is in hand.                                                     *)
LEMMA Idle ==
    ASSUME job' = NoJob
    PROVE  JobInv' /\ ImportInv' /\ BackupInv' /\ ExportInv'
<1>1. NoRows \in Snapshots
  BY DEF NoRows, Snapshots
<1>2. NoJob \in Job /\ NoJob.step = "none"
  BY <1>1 DEF NoJob, NoSource, Job, Source
<1> QED
  BY <1>2 DEF JobInv, ImportInv, BackupInv, ExportInv, At, FileSteps, ImportSteps

(* The databases are as they were, and so is what hangs on them.           *)
LEMMA FilesAsTheyWere ==
    ASSUME TransferInv, UNCHANGED <<db, legacy, bak, dirs, told>>,
           open' \in {open, Nothing}
    PROVE  FilesInv' /\ ToldRecordsAreThere' /\ ArchivesAreWhole'
BY DEF TransferInv, FilesInv, ToldRecordsAreThere, ArchivesAreWhole

(* The invariant holds at first.                                           *)
LEMMA TransferInvInit == ASSUME TransferInit PROVE TransferInv
<1> USE DEF TransferInit
<1>1. NoRows \in Rows /\ NewerDatabase \in SoundFile /\ OldDatabases \subseteq SoundFile
  BY NewFileIsSound, OldFileIsSound, TransferAssumption DEF NewerDatabase, NoRows, Rows
<1>2. db \in [Profiles -> SoundFile \cup {Nothing}] /\ legacy \in SoundFile \cup {Nothing}
  BY <1>1
<1>3. /\ NoBackup \in [newest : BackupFile \cup {Nothing}, older : SUBSET BackupFile]
      /\ [NoBackup EXCEPT !.newest = Backup(Database(0, NoRows))]
            \in [newest : BackupFile \cup {Nothing}, older : SUBSET BackupFile]
  BY <1>1 DEF NoBackup, Backup, BackupFile, Database
<1>4. bak \in [Profiles -> [newest : BackupFile \cup {Nothing}, older : SUBSET BackupFile]]
  BY <1>3
<1>5. dirs \in [Archives -> Archive \cup {Nothing}] /\ ArchivesAreWhole
  BY DEF ArchivesAreWhole
<1>6. FilesInv /\ ToldRecordsAreThere
  BY <1>2, <1>4, <1>5 DEF FilesInv, ToldRecordsAreThere
<1>7. NoJob \in Job /\ NoJob.step = "none"
  <2>1. NoRows \in Snapshots
    BY DEF NoRows, Snapshots
  <2> QED
    BY <2>1 DEF NoJob, NoSource, Job, Source
<1>8. JobInv /\ ImportInv /\ BackupInv /\ ExportInv
  BY <1>7 DEF JobInv, ImportInv, BackupInv, ExportInv, At, FileSteps, ImportSteps
<1> QED
  BY <1>5, <1>6, <1>8 DEF TransferInv
(* A step that chooses what to do next leaves the files alone.             *)
LEMMA ChoosingKeepsInv ==
    ASSUME TransferInv, NEW p \in Profiles, ChooseProfile(p) \/ ChooseImport(p)
    PROVE  TransferInv'
<1>1. UNCHANGED <<db, legacy, bak, dirs, told, open>>
  BY DEF ChooseProfile, ChooseImport
<1>2. FilesInv' /\ ToldRecordsAreThere' /\ ArchivesAreWhole'
  BY <1>1, FilesAsTheyWere
<1>3. NoRows \in Snapshots
  BY DEF NoRows, Snapshots
<1>4. /\ job'.step = "prepare" /\ job'.profile = p /\ job'.purpose \in {"open", "import"}
      /\ job' \in Job /\ open # p
      /\ job'.purpose = "import" => db[Guest] # Nothing
  <2>0. NoSource \in Source
    BY <1>3 DEF NoSource, Source
  <2>1. CASE ChooseProfile(p)
    BY <2>0, <2>1 DEF ChooseProfile, NoJob, Job, FileSteps
  <2>2. CASE ChooseImport(p)
    <3>1. open = Guest /\ p \in Accounts /\ p # Guest
      BY <2>2, TransferAssumption DEF ChooseImport, Guest
    <3>2. db[Guest] # Nothing
      BY <3>1, Sentinels DEF TransferInv, FilesInv
    <3> QED
      BY <2>0, <2>2, <3>1, <3>2 DEF ChooseImport, NoJob, Job, FileSteps
  <2> QED
    BY <2>1, <2>2
<1>5. JobInv' /\ ImportInv' /\ BackupInv' /\ ExportInv'
  BY <1>1, <1>4 DEF JobInv, ImportInv, BackupInv, ExportInv, At, FileSteps, ImportSteps
<1> QED
  BY <1>2, <1>5 DEF TransferInv

(* The steps up to an open database go forward on one profile that is not  *)
(* the open one.                                                           *)
LEMMA GoesForward ==
    ASSUME TransferInv, job.step \in FileSteps, NEW step \in FileSteps \ {"prepare"},
           Go(step), UNCHANGED open,
           \A q \in Profiles : db[q] # Nothing => db'[q] # Nothing,
           db'[job.profile] # Nothing
    PROVE  JobInv' /\ ImportInv' /\ ExportInv'
<1>1. job \in Job /\ job' = [job EXCEPT !.step = step]
  BY DEF TransferInv, JobInv, Go
<1>2. /\ job' \in Job /\ job'.step = step /\ job'.profile = job.profile
      /\ job'.purpose = job.purpose
  BY <1>1 DEF Job
<1>3. /\ job.purpose \in {"open", "import"}
      /\ job.profile # open /\ job.profile \in Profiles
      /\ job.purpose = "import" => db[Guest] # Nothing
  BY DEF TransferInv, JobInv, At, FileSteps
<1>4. job.purpose = "import" => db'[Guest] # Nothing
  BY <1>3, Sentinels
<1> QED
  BY <1>2, <1>3, <1>4
     DEF JobInv, ImportInv, ExportInv, At, FileSteps, ImportSteps, Current

(* A missing database is copied or made (prepare_database).                *)
LEMMA PrepareKeepsInv == ASSUME TransferInv, Prepare PROVE TransferInv'
<1> USE DEF Prepare, Current, At
<1>1. job.step = "prepare" /\ job.profile \in Profiles /\ job \in Job
  BY DEF TransferInv, JobInv, At, FileSteps
<1>2. CASE Current # Nothing
  <2>1. UNCHANGED <<db, legacy, bak, dirs, told, open>>
    BY <1>2
  <2>2. JobInv' /\ ImportInv' /\ ExportInv'
    BY <1>1, <1>2, <2>1, GoesForward DEF FileSteps
  <2>3. BackupInv'
    BY <1>1 DEF BackupInv, Go, Job
  <2> QED
    BY <2>1, <2>2, <2>3, FilesAsTheyWere DEF TransferInv
<1>3. CASE Current = Nothing
  <2> DEFINE d == FirstDatabase(job.profile)
  <2>1. d \in SoundFile
    BY NewFileIsSound DEF FirstDatabase, TransferInv, FilesInv
  <2>2. db' = [db EXCEPT ![job.profile] = d]
    BY <1>3
  <2> HIDE DEF d
  <2>3. /\ db' \in [Profiles -> SoundFile \cup {Nothing}]
        /\ \A q \in Profiles : db'[q] = IF q = job.profile THEN d ELSE db[q]
        /\ \A q \in Profiles : db[q] # Nothing => db'[q] # Nothing
        /\ \A t \in told : db'[t[1]] # Nothing /\ db'[t[1]].rows[t[2]] # Nothing
    BY <1>1, <1>3, <2>1, <2>2, OneFileChanged
  <2>4. JobInv' /\ ImportInv' /\ ExportInv'
    BY <1>1, <2>1, <2>3, GoesForward, Sentinels DEF FileSteps
  <2>5. BackupInv'
    BY <1>1 DEF BackupInv, Go, Job
  <2> QED
    BY <2>3, <2>4, <2>5 DEF TransferInv, FilesInv, ToldRecordsAreThere, ArchivesAreWhole
<1> QED
  BY <1>2, <1>3

(* The version says how to go on (migrate).                                *)
LEMMA CheckVersionKeepsInv == ASSUME TransferInv, CheckVersion PROVE TransferInv'
<1> USE DEF CheckVersion, Current, At
<1>1. /\ job.step = "check" /\ job.profile \in Profiles /\ job \in Job /\ Current # Nothing
      /\ UNCHANGED <<db, legacy, bak, dirs, told, open>>
  BY DEF TransferInv, JobInv, At, FileSteps
<1>2. CASE job' = NoJob
  BY <1>1, <1>2, Idle, FilesAsTheyWere DEF TransferInv
<1>3. CASE Go("ready") \/ Go("backup") \/ (Current.version = 0 /\ Go("migrate"))
  <2>1. JobInv' /\ ImportInv' /\ ExportInv'
    BY <1>1, <1>3, GoesForward DEF FileSteps
  <2>2. BackupInv'
    BY <1>1, <1>3 DEF BackupInv, Go, Job
  <2> QED
    BY <1>1, <2>1, <2>2, FilesAsTheyWere DEF TransferInv
<1> QED
  BY <1>2, <1>3

(* The backup is written (_create_verified_backup).                        *)
LEMMA WriteBackupKeepsInv == ASSUME TransferInv, WriteBackup PROVE TransferInv'
<1> USE DEF WriteBackup, Current, At
<1>1. /\ job.step = "backup" /\ job.profile \in Profiles /\ job \in Job /\ Current # Nothing
      /\ UNCHANGED <<db, legacy, dirs, told, open>>
  BY DEF TransferInv, JobInv, At, FileSteps
<1>2. Current \in DatabaseFile
  BY <1>1 DEF TransferInv, FilesInv, SoundFile
<1> DEFINE B == [newest : BackupFile \cup {Nothing}, older : SUBSET BackupFile]
           old == bak[job.profile]
           new == [newest |-> Backup(Current),
                   older  |-> {b \in old.older \cup ({old.newest} \ {Nothing}) :
                                  b.from # Current.version}]
<1>3. bak \in [Profiles -> B] /\ old \in B
  BY <1>1 DEF TransferInv, FilesInv
<1>4. Backup(Current) \in BackupFile
  BY <1>2 DEF Backup, BackupFile, DatabaseFile
<1>5. new \in B
  BY <1>3, <1>4
<1>6. bak' = [bak EXCEPT ![job.profile] = new]
  BY DEF new, old
<1> HIDE DEF B, new, old
<1>7. bak' \in [Profiles -> B] /\ bak'[job.profile] = new
  BY <1>1, <1>3, <1>5, <1>6
<1>8. FilesInv' /\ ToldRecordsAreThere' /\ ArchivesAreWhole'
  BY <1>1, <1>7 DEF TransferInv, FilesInv, ToldRecordsAreThere, ArchivesAreWhole, B
<1>9. JobInv' /\ ImportInv' /\ ExportInv'
  BY <1>1, GoesForward DEF FileSteps
<1>10. BackupInv'
  BY <1>1, <1>7 DEF BackupInv, Go, Job, new
<1> QED
  BY <1>8, <1>9, <1>10 DEF TransferInv

(* Older backups are removed (_retain_backups).                            *)
LEMMA RetainKeepsInv == ASSUME TransferInv, Retain PROVE TransferInv'
<1> USE DEF Retain, Current, At
<1>1. /\ job.step = "retain" /\ job.profile \in Profiles /\ job \in Job /\ Current # Nothing
      /\ UNCHANGED <<db, legacy, dirs, told, open>>
  BY DEF TransferInv, JobInv, At, FileSteps
<1> DEFINE B == [newest : BackupFile \cup {Nothing}, older : SUBSET BackupFile]
<1>2. bak \in [Profiles -> B]
  BY DEF TransferInv, FilesInv
<1>3. Retained(bak[job.profile]) \in B
      /\ Retained(bak[job.profile]).newest = bak[job.profile].newest
  BY <1>1, <1>2 DEF Retained
<1>4. bak' \in [Profiles -> B] /\ bak'[job.profile].newest = bak[job.profile].newest
  BY <1>1, <1>2, <1>3
<1>5. FilesInv' /\ ToldRecordsAreThere' /\ ArchivesAreWhole'
  BY <1>1, <1>4 DEF TransferInv, FilesInv, ToldRecordsAreThere, ArchivesAreWhole
<1>6. JobInv' /\ ImportInv' /\ ExportInv'
  BY <1>1, GoesForward DEF FileSteps
<1>7. BackupInv'
  BY <1>1, <1>4 DEF TransferInv, BackupInv, Go, Job
<1> QED
  BY <1>5, <1>6, <1>7 DEF TransferInv

(* The migration is committed (migrate).                                   *)
LEMMA MigrateKeepsInv == ASSUME TransferInv, Migrate PROVE TransferInv'
<1> USE DEF Migrate, Current, At
<1>1. job.step = "migrate" /\ job.profile \in Profiles /\ job \in Job /\ Current # Nothing
  BY DEF TransferInv, JobInv, At, FileSteps
<1>2. Current \in SoundFile
  BY <1>1 DEF TransferInv, FilesInv
<1> DEFINE d == Migrated(Current)
<1>3. d \in SoundFile /\ Keeps(Current, d) /\ db' = [db EXCEPT ![job.profile] = d]
  BY <1>2, MigratedIsSound
<1> HIDE DEF d
<1>4. /\ db' \in [Profiles -> SoundFile \cup {Nothing}]
      /\ \A q \in Profiles : db'[q] = IF q = job.profile THEN d ELSE db[q]
      /\ \A q \in Profiles : db[q] # Nothing => db'[q] # Nothing
      /\ \A t \in told : db'[t[1]] # Nothing /\ db'[t[1]].rows[t[2]] # Nothing
  BY <1>1, <1>3, OneFileChanged
<1>5. JobInv' /\ ImportInv' /\ ExportInv'
  BY <1>1, <1>4, GoesForward DEF FileSteps
<1>6. BackupInv'
  BY <1>1 DEF BackupInv, Go, Job
<1> QED
  BY <1>4, <1>5, <1>6 DEF TransferInv, FilesInv, ToldRecordsAreThere, ArchivesAreWhole

(* The database is opened (switch_profile).                                *)
LEMMA OpenKeepsInv == ASSUME TransferInv, Open PROVE TransferInv'
<1>1. /\ job.step = "ready" /\ job.profile \in Profiles /\ Current # Nothing
      /\ job' = NoJob /\ open' = job.profile
      /\ UNCHANGED <<db, legacy, bak, dirs, told>>
  BY DEF Open, TransferInv, JobInv, At, FileSteps
<1> QED
  BY <1>1, Idle DEF TransferInv, FilesInv, ToldRecordsAreThere, ArchivesAreWhole, Current
(* A snapshot of the guest's database is taken (import_guest_records).     *)
LEMMA SnapshotKeepsInv == ASSUME TransferInv, Snapshot PROVE TransferInv'
<1>1. /\ job.step = "ready" /\ job.purpose = "import" /\ job \in Job
      /\ job.profile \in Profiles /\ job.profile # open /\ Current # Nothing
      /\ db[Guest] # Nothing
      /\ UNCHANGED <<db, legacy, bak, dirs, told, open>>
  BY DEF Snapshot, TransferInv, JobInv, At, FileSteps
<1> DEFINE records == Live(db[Guest])
           source  == [kind |-> Guest, archive |-> Nothing,
                       records |-> records, sum |-> records]
<1>2. db[Guest] \in SoundFile
  BY <1>1, Sentinels DEF TransferInv, FilesInv
<1>3. records \in Snapshots
  BY <1>2, LiveType
<1>4. source \in Source /\ source.kind = Guest /\ source.records = source.sum
  BY <1>3, Sentinels DEF Source
<1>5. job' = [job EXCEPT !.step = "begin", !.source = source]
  BY DEF Snapshot
<1> HIDE DEF records, source
<1>6. /\ job' \in Job /\ job'.step = "begin" /\ job'.source = source
      /\ job'.profile = job.profile /\ job'.purpose = "import"
  BY <1>1, <1>4, <1>5 DEF Job, ImportSteps
<1>7. JobInv' /\ ImportInv' /\ BackupInv' /\ ExportInv'
  BY <1>1, <1>4, <1>6
     DEF JobInv, ImportInv, BackupInv, ExportInv, At, FileSteps, ImportSteps, Current
<1> QED
  BY <1>1, <1>7, FilesAsTheyWere DEF TransferInv

(* An archive is read into memory (_read_archive).                         *)
LEMMA ReadArchiveKeepsInv ==
    ASSUME TransferInv, NEW a \in Archives, ReadArchive(a) PROVE TransferInv'
<1>1. /\ open # Nothing /\ open \in Profiles /\ db[open] # Nothing
      /\ UNCHANGED <<db, legacy, bak, dirs, told, open>>
  BY DEF ReadArchive, TransferInv, FilesInv
<1>2. dirs[a] \in Archive /\ dirs[a].records = dirs[a].sum
  BY DEF ReadArchive, Readable, TransferInv, FilesInv
<1> DEFINE source == [kind |-> dirs[a].kind, archive |-> a,
                      records |-> dirs[a].records, sum |-> dirs[a].sum]
<1>3. source \in Source /\ source.records = source.sum
  BY <1>2 DEF Source, Archive
<1>4. source.kind \in {Guest, "registered"}
  BY <1>2 DEF Archive
<1>5. job' = [step |-> "begin", profile |-> open, purpose |-> "archive", source |-> source]
  BY DEF ReadArchive
<1> HIDE DEF source
<1>6. job' \in Job
  BY <1>1, <1>3, <1>5 DEF Job, ImportSteps
<1>7. JobInv' /\ ImportInv' /\ BackupInv' /\ ExportInv'
  BY <1>1, <1>3, <1>4, <1>5, <1>6
     DEF JobInv, ImportInv, BackupInv, ExportInv, At, FileSteps, ImportSteps, Current
<1> QED
  BY <1>1, <1>7, FilesAsTheyWere DEF TransferInv
(* After an import the work ends, or goes on to open the account.          *)
LEMMA FinishKeepsInv ==
    ASSUME TransferInv, job.step \in ImportSteps, Finish, UNCHANGED open,
           \A q \in Profiles : db[q] # Nothing => db'[q] # Nothing
    PROVE  JobInv' /\ ImportInv' /\ BackupInv' /\ ExportInv'
<1>1. CASE job' = NoJob
  BY <1>1, Idle
<1>2. CASE job.purpose = "import"
          /\ job' = [NoJob EXCEPT !.step = "prepare", !.profile = job.profile, !.purpose = "open"]
  <2>1. job.profile # open /\ job.profile \in Profiles
    BY <1>2 DEF TransferInv, JobInv, At, ImportSteps
  <2>2. NoSource \in Source
    BY DEF NoSource, Source, NoRows, Snapshots
  <2>3. job' \in Job /\ job'.step = "prepare" /\ job'.profile = job.profile /\ job'.purpose = "open"
    BY <1>2, <2>1, <2>2 DEF NoJob, Job, FileSteps
  <2> QED
    BY <2>1, <2>3 DEF JobInv, ImportInv, BackupInv, ExportInv, At, FileSteps, ImportSteps
<1> QED
  BY <1>1, <1>2 DEF Finish

(* The batch is looked for, and the records are told to be there if it is  *)
(* found (_completed_batch_matches).                                       *)
LEMMA BeginKeepsInv == ASSUME TransferInv, Begin PROVE TransferInv'
<1>1. /\ job.step = "begin" /\ job \in Job /\ job.profile \in Profiles /\ Current # Nothing
      /\ UNCHANGED <<db, legacy, bak, dirs, open>>
  BY DEF Begin, TransferInv, JobInv, At, ImportSteps
<1>2. CASE /\ \E b \in Current.batches : SameBatch(b, job.source)
           /\ Tell /\ Finish
  <2>1. JobInv' /\ ImportInv' /\ BackupInv' /\ ExportInv'
    BY <1>1, <1>2, FinishKeepsInv DEF ImportSteps
  <2>2. PICK b \in Current.batches : b = Batch(job.source)
    BY <1>2 DEF SameBatch
  <2>3. \A g \in Records : job.source.sum[g] # Nothing => Current.rows[g] # Nothing
    BY <1>1, <2>2 DEF TransferInv, FilesInv, SoundFile, Batch, Current
  <2>4. told' = told \cup {<<job.profile, g>> : g \in In(job.source.sum)}
    BY <1>2 DEF Tell
  <2>5. ToldRecordsAreThere' /\ told' \subseteq Profiles \X Records
    <3> SUFFICES ASSUME NEW t \in told'
                 PROVE  /\ t \in Profiles \X Records
                        /\ db[t[1]] # Nothing /\ db[t[1]].rows[t[2]] # Nothing
      BY <1>1 DEF ToldRecordsAreThere
    <3>1. CASE t \in told
      BY <3>1 DEF TransferInv, FilesInv, ToldRecordsAreThere
    <3>2. CASE t \notin told
      <4>1. PICK g \in In(job.source.sum) : t = <<job.profile, g>>
        BY <2>4, <3>2
      <4>2. g \in Records /\ job.source.sum[g] # Nothing
        BY DEF In
      <4> QED
        BY <1>1, <2>3, <4>1, <4>2 DEF Current
    <3> QED
      BY <3>1, <3>2
  <2> QED
    BY <1>1, <2>1, <2>5 DEF TransferInv, FilesInv, ArchivesAreWhole
<1>3. CASE Go("insert") /\ UNCHANGED told
  <2>1. /\ job' \in Job /\ job'.step = "insert" /\ job'.profile = job.profile
        /\ job'.purpose = job.purpose /\ job'.source = job.source
    BY <1>1, <1>3 DEF Go, Job, ImportSteps
  <2>2. JobInv' /\ ImportInv' /\ BackupInv' /\ ExportInv'
    BY <1>1, <2>1
       DEF TransferInv, JobInv, ImportInv, BackupInv, ExportInv, At, FileSteps, ImportSteps,
           Current
  <2> QED
    BY <1>1, <1>3, <2>2, FilesAsTheyWere DEF TransferInv
<1> QED
  BY <1>2, <1>3 DEF Begin

(* The records are inserted (_import_records).                             *)
LEMMA InsertKeepsInv == ASSUME TransferInv, Insert PROVE TransferInv'
<1>1. /\ job.step = "insert" /\ job \in Job /\ job.profile \in Profiles /\ Current # Nothing
      /\ job.source \in Source /\ job.source.kind \in {Guest, "registered"}
      /\ job.source.records = job.source.sum
      /\ UNCHANGED <<legacy, bak, dirs, open>>
  BY DEF Insert, TransferInv, JobInv, ImportInv, At, ImportSteps, Job
<1>2. Current \in SoundFile
  BY <1>1 DEF TransferInv, FilesInv, Current
<1> DEFINE d == WithBatch(Current, job.source)
<1>3. /\ d \in SoundFile /\ Keeps(Current, d)
      /\ \A g \in Records : job.source.sum[g] # Nothing => d.rows[g] # Nothing
  BY <1>1, <1>2, ImportedIsSound
<1>4. db' = [db EXCEPT ![job.profile] = d]
  BY DEF Insert, Current
<1> HIDE DEF d
<1>5. /\ db' \in [Profiles -> SoundFile \cup {Nothing}]
      /\ \A q \in Profiles : db'[q] = IF q = job.profile THEN d ELSE db[q]
      /\ \A q \in Profiles : db[q] # Nothing => db'[q] # Nothing
      /\ \A t \in told : db'[t[1]] # Nothing /\ db'[t[1]].rows[t[2]] # Nothing
  BY <1>1, <1>3, <1>4, OneFileChanged DEF Current
<1>6. JobInv' /\ ImportInv' /\ BackupInv' /\ ExportInv'
  BY <1>1, <1>5, FinishKeepsInv DEF Insert, ImportSteps
<1>7. told' = told \cup {<<job.profile, g>> : g \in In(job.source.sum)}
  BY DEF Insert, Tell
<1>8. ToldRecordsAreThere' /\ told' \subseteq Profiles \X Records
  <2> SUFFICES ASSUME NEW t \in told'
               PROVE  /\ t \in Profiles \X Records
                      /\ db'[t[1]] # Nothing /\ db'[t[1]].rows[t[2]] # Nothing
    BY DEF ToldRecordsAreThere
  <2>1. CASE t \in told
    BY <1>5, <2>1 DEF TransferInv, FilesInv
  <2>2. CASE t \notin told
    <3>1. PICK g \in In(job.source.sum) : t = <<job.profile, g>>
      BY <1>7, <2>2
    <3>2. g \in Records /\ job.source.sum[g] # Nothing
      BY DEF In
    <3> QED
      BY <1>1, <1>3, <1>5, <3>1, <3>2, Sentinels
  <2> QED
    BY <2>1, <2>2
<1> QED
  BY <1>1, <1>5, <1>6, <1>8 DEF TransferInv, FilesInv, ArchivesAreWhole
(* The directory of one archive changes; it is complete if it has the name *)
(* the user gave.                                                          *)
LEMMA OneArchiveChanged ==
    ASSUME TransferInv, NEW a \in Archives, NEW d \in Archive \cup {Nothing},
           d # Nothing => (d.published => d.written = Files),
           dirs' = [dirs EXCEPT ![a] = d], UNCHANGED <<db, legacy, bak, told>>,
           open' \in {open, Nothing}
    PROVE  FilesInv' /\ ToldRecordsAreThere' /\ ArchivesAreWhole' /\ dirs'[a] = d
<1>1. /\ dirs \in [Archives -> Archive \cup {Nothing}]
      /\ dirs' \in [Archives -> Archive \cup {Nothing}]
      /\ \A b \in Archives : dirs'[b] = IF b = a THEN d ELSE dirs[b]
  BY DEF TransferInv, FilesInv
<1>2. ArchivesAreWhole'
  BY <1>1 DEF TransferInv, ArchivesAreWhole
<1> QED
  BY <1>1, <1>2 DEF TransferInv, FilesInv, ToldRecordsAreThere

(* An archive is begun under another name (export_portable_archive).       *)
LEMMA StartExportKeepsInv ==
    ASSUME TransferInv, NEW a \in Archives, StartExport(a) PROVE TransferInv'
<1> DEFINE records == Live(db[open])
           new == Staged(records)
<1>1. /\ open # Nothing /\ open \in Profiles /\ db[open] # Nothing
      /\ UNCHANGED <<db, legacy, bak, told, open>>
  BY DEF StartExport, TransferInv, FilesInv
<1>2. records \in Snapshots
  BY <1>1, LiveType DEF TransferInv, FilesInv
<1>3. new \in Archive /\ ~new.published
  BY <1>2 DEF Staged, Archive, KindOf, Files
<1>4. dirs' = [dirs EXCEPT ![a] = new]
  BY DEF StartExport
<1> HIDE DEF records, new
<1>5. FilesInv' /\ ToldRecordsAreThere' /\ ArchivesAreWhole' /\ dirs'[a] = new
  BY <1>1, <1>3, <1>4, OneArchiveChanged
<1>6. NoRows \in Snapshots
  BY DEF NoRows, Snapshots
<1>7. job' \in Job /\ job'.step = "export" /\ job'.purpose = "export" /\ job'.source.archive = a
  BY <1>6 DEF StartExport, NoJob, NoSource, Job, Source
<1>8. JobInv' /\ ImportInv' /\ BackupInv' /\ ExportInv'
  BY <1>3, <1>5, <1>7
     DEF JobInv, ImportInv, BackupInv, ExportInv, At, FileSteps, ImportSteps
<1> QED
  BY <1>5, <1>8 DEF TransferInv

(* One more file of it is written.                                         *)
LEMMA WriteFileKeepsInv == ASSUME TransferInv, WriteFile PROVE TransferInv'
<1> DEFINE a   == job.source.archive
           new == [dirs[a] EXCEPT !.written = @ + 1]
<1>1. /\ job.step = "export" /\ a \in Archives /\ dirs[a] \in Archive /\ ~dirs[a].published
      /\ dirs[a].written < Files
      /\ UNCHANGED <<db, legacy, bak, told, open, job>>
  BY DEF WriteFile, TransferInv, ExportInv, At
<1>2. new \in Archive /\ ~new.published
  BY <1>1 DEF Archive, Files
<1>3. dirs' = [dirs EXCEPT ![a] = new]
  BY DEF WriteFile
<1> HIDE DEF new, a
<1>4. FilesInv' /\ ToldRecordsAreThere' /\ ArchivesAreWhole' /\ dirs'[a] = new
  BY <1>1, <1>2, <1>3, OneArchiveChanged
<1>5. JobInv' /\ ImportInv' /\ BackupInv' /\ ExportInv'
  BY <1>1, <1>2, <1>4
     DEF TransferInv, JobInv, ImportInv, BackupInv, ExportInv, At, FileSteps, ImportSteps,
         Current, a
<1> QED
  BY <1>4, <1>5 DEF TransferInv

(* It is read back, and gets its name.                                     *)
LEMMA PublishKeepsInv == ASSUME TransferInv, Publish PROVE TransferInv'
<1> DEFINE a   == job.source.archive
           new == [dirs[a] EXCEPT !.published = TRUE]
<1>1. /\ a \in Archives /\ dirs[a] \in Archive /\ dirs[a].written = Files
      /\ UNCHANGED <<db, legacy, bak, told, open>> /\ job' = NoJob
  BY DEF Publish, Readable, TransferInv, ExportInv, At
<1>2. new \in Archive /\ new.written = Files
  BY <1>1 DEF Archive
<1>3. dirs' = [dirs EXCEPT ![a] = new]
  BY DEF Publish
<1> HIDE DEF new, a
<1> QED
  BY <1>1, <1>2, <1>3, OneArchiveChanged, Idle DEF TransferInv

(* A step that fails takes the directory along that was being written.     *)
LEMMA GiveUpKeepsInv == ASSUME TransferInv, GiveUp PROVE TransferInv'
<1>1. /\ UNCHANGED <<db, legacy, bak, told>> /\ job' = NoJob /\ open' \in {open, Nothing}
  BY DEF GiveUp
<1>2. CASE At("export")
  <2>1. job.source.archive \in Archives
    BY <1>2 DEF TransferInv, ExportInv
  <2>2. dirs' = [dirs EXCEPT ![job.source.archive] = Nothing]
    BY <1>2 DEF GiveUp
  <2> DEFINE d == Nothing
  <2>3. d # Nothing => (d.published => d.written = Files)
    OBVIOUS
  <2> QED
    BY <1>1, <2>1, <2>2, <2>3, OneArchiveChanged, Idle DEF TransferInv
<1>3. CASE ~At("export")
  <2>1. UNCHANGED dirs
    BY <1>3 DEF GiveUp
  <2> QED
    BY <1>1, <2>1, FilesAsTheyWere, Idle DEF TransferInv
<1> QED
  BY <1>2, <1>3

(* The process is killed.                                                  *)
LEMMA KilledKeepsInv == ASSUME TransferInv, Killed PROVE TransferInv'
<1>1. UNCHANGED <<db, legacy, bak, dirs, told>> /\ job' = NoJob /\ open' \in {open, Nothing}
  BY DEF Killed
<1> QED
  BY <1>1, FilesAsTheyWere, Idle DEF TransferInv

(* An archive is damaged.                                                  *)
LEMMA DamageKeepsInv ==
    ASSUME TransferInv, NEW a \in Archives, Damage(a) PROVE TransferInv'
<1>1. PICK g \in In(dirs[a].records) : dirs' = [dirs EXCEPT ![a].records[g] = Nothing]
  BY DEF Damage
<1> DEFINE new == [dirs[a] EXCEPT !.records = [dirs[a].records EXCEPT ![g] = Nothing]]
<1>2. /\ dirs[a] \in Archive /\ dirs[a].published /\ dirs[a].written = Files
      /\ UNCHANGED <<db, legacy, bak, told, open, job>>
  BY DEF Damage, TransferInv, FilesInv, ArchivesAreWhole
<1>3. g \in Records /\ [dirs[a].records EXCEPT ![g] = Nothing] \in Snapshots
  BY <1>2 DEF In, Archive, Snapshots
<1>4. new \in Archive /\ new.written = Files /\ new.published
  BY <1>2, <1>3 DEF Archive
<1>5. dirs' = [dirs EXCEPT ![a] = new]
  BY <1>1
<1> HIDE DEF new
<1>6. FilesInv' /\ ToldRecordsAreThere' /\ ArchivesAreWhole' /\ dirs'[a] = new
  BY <1>2, <1>4, <1>5, OneArchiveChanged
<1>7. At("export") => job.source.archive # a
  BY <1>2 DEF TransferInv, ExportInv
<1>8. \A b \in Archives : b # a => dirs'[b] = dirs[b]
  BY <1>5 DEF TransferInv, FilesInv
<1>9. JobInv' /\ ImportInv' /\ BackupInv' /\ ExportInv'
  BY <1>2, <1>7, <1>8
     DEF TransferInv, JobInv, ImportInv, BackupInv, ExportInv, At, Current
<1> QED
  BY <1>6, <1>9 DEF TransferInv
(* A row of the open database changes while its invariant holds and no     *)
(* import writes to it.                                                    *)
LEMMA OpenFileChanged ==
    ASSUME TransferInv, open # Nothing, NEW e \in SoundFile, Keeps(db[open], e),
           db' = [db EXCEPT ![open] = e],
           UNCHANGED <<bak, legacy, dirs, open, job, told>>
    PROVE  TransferInv'
<1>1. open \in Profiles /\ db[open] # Nothing
  BY DEF TransferInv, FilesInv
<1>2. /\ db' \in [Profiles -> SoundFile \cup {Nothing}]
      /\ \A q \in Profiles : db'[q] = IF q = open THEN e ELSE db[q]
      /\ \A q \in Profiles : db[q] # Nothing => db'[q] # Nothing
      /\ \A t \in told : db'[t[1]] # Nothing /\ db'[t[1]].rows[t[2]] # Nothing
  BY <1>1, OneFileChanged
<1>3. FilesInv' /\ ToldRecordsAreThere' /\ ArchivesAreWhole' /\ ImportInv' /\ ExportInv'
  BY <1>1, <1>2, Sentinels
     DEF TransferInv, FilesInv, ToldRecordsAreThere, ArchivesAreWhole, ImportInv, ExportInv, At
<1>4. JobInv'
  BY <1>2, Sentinels DEF TransferInv, JobInv, At, Current
<1>5. job.step \in FileSteps => job.profile \in Profiles /\ db'[job.profile] = db[job.profile]
  BY <1>2 DEF TransferInv, JobInv, At, FileSteps
<1>6. BackupInv'
  BY <1>5 DEF TransferInv, BackupInv, Current, FileSteps
<1> QED
  BY <1>3, <1>4, <1>6 DEF TransferInv

(* The user enters, edits or deletes a record (insert_game, update_game,   *)
(* delete_game).                                                           *)
LEMMA EnterKeepsInv ==
    ASSUME TransferInv, NEW g \in Records, Enter(g) PROVE TransferInv'
<1> DEFINE row == db[open].rows[g]
<1>1. /\ open # Nothing /\ UNCHANGED <<bak, legacy, dirs, open, job, told>>
      /\ db[open] \in SoundFile /\ row \in DatabaseRow \cup {Nothing}
  BY DEF Enter, TransferInv, FilesInv, SoundFile, DatabaseFile, Rows
<1>2. ASSUME NEW new \in DatabaseRow, Agrees(new), db' = [db EXCEPT ![open].rows[g] = new]
      PROVE  TransferInv'
  <2> DEFINE d == db[open]
             e == [d EXCEPT !.rows[g] = new]
  <2>1. db' = [db EXCEPT ![open] = e]
    BY <1>2
  <2>2. e \in SoundFile /\ Keeps(d, e)
    BY <1>1, <1>2, RowReplaced
  <2> HIDE DEF e
  <2> QED
    BY <1>1, <2>1, <2>2, OpenFileChanged
<1>3. CASE \E c \in Contents \ Unfit : db' = [db EXCEPT ![open].rows[g] = Row(c)]
  BY <1>2, <1>3, RowIsSound
<1>4. CASE /\ row # Nothing
           /\ \/ \E c \in Contents \ Unfit : db' = [db EXCEPT ![open].rows[g] = Edited(@, c, FALSE)]
              \/ db' = [db EXCEPT ![open].rows[g] = Edited(@, @.content, TRUE)]
  <2>1. row \in DatabaseRow /\ row.content \in Contents
    BY <1>1, <1>4 DEF DatabaseRow
  <2>2. \E c \in Contents, deleted \in BOOLEAN :
            db' = [db EXCEPT ![open].rows[g] = Edited(row, c, deleted)]
    BY <1>4, <2>1
  <2> QED
    BY <1>2, <2>1, <2>2, EditedIsSound
<1> QED
  BY <1>3, <1>4 DEF Enter

(* The queue of the open database was sent.                                *)
LEMMA UploadedKeepsInv == ASSUME TransferInv, Uploaded PROVE TransferInv'
<1> DEFINE d    == db[open]
           rows == [g \in Records |-> IF d.rows[g] = Nothing THEN Nothing
                                      ELSE [d.rows[g] EXCEPT !.status = "synced", !.queue = 0]]
           e    == [d EXCEPT !.rows = rows]
<1>1. /\ open # Nothing /\ UNCHANGED <<bak, legacy, dirs, open, job, told>>
      /\ d \in SoundFile /\ d.rows \in Rows
  BY DEF Uploaded, TransferInv, FilesInv, SoundFile, DatabaseFile
<1>2. db' = [db EXCEPT ![open] = e]
  BY DEF Uploaded
<1>3. ASSUME NEW row \in DatabaseRow
      PROVE  /\ [row EXCEPT !.status = "synced", !.queue = 0] \in DatabaseRow
             /\ Agrees([row EXCEPT !.status = "synced", !.queue = 0])
  <2> DEFINE new == [row EXCEPT !.status = "synced", !.queue = 0]
  <2>1. new \in DatabaseRow /\ new.status = "synced" /\ new.queue = 0
    BY DEF DatabaseRow
  <2> HIDE DEF new
  <2>2. Agrees(new)
    BY <2>1 DEF Agrees
  <2> QED
    BY <2>1, <2>2 DEF new
<1>4. \A g \in Records : /\ rows[g] \in DatabaseRow \cup {Nothing} /\ Agrees(rows[g])
                         /\ d.rows[g] # Nothing => rows[g] # Nothing
  <2> SUFFICES ASSUME NEW g \in Records
               PROVE  /\ rows[g] \in DatabaseRow \cup {Nothing} /\ Agrees(rows[g])
                      /\ d.rows[g] # Nothing => rows[g] # Nothing
    OBVIOUS
  <2>1. CASE d.rows[g] = Nothing
    BY <2>1 DEF Agrees
  <2>2. CASE d.rows[g] # Nothing
    <3>1. d.rows[g] \in DatabaseRow
      BY <1>1, <2>2 DEF Rows
    <3>2. rows[g] = [d.rows[g] EXCEPT !.status = "synced", !.queue = 0]
      BY <2>2
    <3> QED
      BY <1>3, <3>1, <3>2, Sentinels
  <2> QED
    BY <2>1, <2>2
<1>5. rows \in Rows
  BY <1>4 DEF Rows
<1> HIDE DEF rows
<1>6. e \in SoundFile /\ Keeps(d, e)
  BY <1>1, <1>4, <1>5, RowsReplaced
<1> HIDE DEF e
<1> QED
  BY <1>1, <1>2, <1>6, OpenFileChanged

(* A record arrives from another device (apply_remote_game).               *)
LEMMA PulledKeepsInv ==
    ASSUME TransferInv, NEW g \in Records, Pulled(g) PROVE TransferInv'
<1>1. PICK c \in Contents, deleted \in BOOLEAN :
          db' = [db EXCEPT ![open].rows[g] =
                    [content |-> c, deleted |-> deleted, status |-> "synced", queue |-> 0]]
  BY DEF Pulled
<1> DEFINE d   == db[open]
           new == [content |-> c, deleted |-> deleted, status |-> "synced", queue |-> 0]
           e   == [d EXCEPT !.rows[g] = new]
<1>2. open \in Profiles /\ open # Nothing /\ UNCHANGED <<bak, legacy, dirs, open, job, told>>
  BY Sentinels DEF Pulled, Profiles
<1>3. d \in SoundFile
  BY <1>2 DEF TransferInv, FilesInv
<1>4. new \in DatabaseRow /\ Agrees(new)
  BY DEF DatabaseRow, Agrees
<1>5. db' = [db EXCEPT ![open] = e]
  BY <1>1
<1> HIDE DEF new
<1>6. e \in SoundFile /\ Keeps(d, e)
  BY <1>3, <1>4, RowReplaced
<1> HIDE DEF e
<1> QED
  BY <1>2, <1>5, <1>6, OpenFileChanged
(* TransferInv is inductive.                                               *)
LEMMA TransferInvStep == ASSUME TransferInv, [TransferNext]_transferVars PROVE TransferInv'
<1>1. CASE \E p \in Profiles : ChooseProfile(p) \/ ChooseImport(p)
  BY <1>1, ChoosingKeepsInv
<1>2. CASE Prepare
  BY <1>2, PrepareKeepsInv
<1>3. CASE CheckVersion
  BY <1>3, CheckVersionKeepsInv
<1>4. CASE WriteBackup
  BY <1>4, WriteBackupKeepsInv
<1>5. CASE Retain
  BY <1>5, RetainKeepsInv
<1>6. CASE Migrate
  BY <1>6, MigrateKeepsInv
<1>7. CASE Open
  BY <1>7, OpenKeepsInv
<1>8. CASE Snapshot
  BY <1>8, SnapshotKeepsInv
<1>9. CASE Begin
  BY <1>9, BeginKeepsInv
<1>10. CASE Insert
  BY <1>10, InsertKeepsInv
<1>11. CASE \E a \in Archives : ReadArchive(a) \/ StartExport(a) \/ Damage(a)
  BY <1>11, ReadArchiveKeepsInv, StartExportKeepsInv, DamageKeepsInv
<1>12. CASE WriteFile
  BY <1>12, WriteFileKeepsInv
<1>13. CASE Publish
  BY <1>13, PublishKeepsInv
<1>14. CASE GiveUp
  BY <1>14, GiveUpKeepsInv
<1>15. CASE Killed
  BY <1>15, KilledKeepsInv
<1>16. CASE \E g \in Records : Enter(g) \/ Pulled(g)
  BY <1>16, EnterKeepsInv, PulledKeepsInv
<1>17. CASE Uploaded
  BY <1>17, UploadedKeepsInv
<1>18. CASE UNCHANGED transferVars
  BY <1>18 DEF transferVars, TransferInv, FilesInv, JobInv, ImportInv, BackupInv, ExportInv,
               ToldRecordsAreThere, ArchivesAreWhole, At, Current
<1> QED
  BY <1>1, <1>2, <1>3, <1>4, <1>5, <1>6, <1>7, <1>8, <1>9, <1>10, <1>11, <1>12, <1>13,
     <1>14, <1>15, <1>16, <1>17, <1>18 DEF TransferNext

(* The work in hand can rely on what earlier steps made sure of, and the   *)
(* files are sound, in every state (migrations.py, guest_import.py,        *)
(* portable.py).                                                           *)
THEOREM TransferInvariance == TransferSpec => []TransferInv
<1>1. TransferInit => TransferInv
  BY TransferInvInit
<1>2. TransferInv /\ [TransferNext]_transferVars => TransferInv'
  BY TransferInvStep
<1> QED
  BY <1>1, <1>2, PTL DEF TransferSpec

(* Records the user was told are there are there.                          *)
THEOREM ToldIsTrue == TransferSpec => []ToldRecordsAreThere
<1>1. TransferInv => ToldRecordsAreThere
  BY DEF TransferInv
<1> QED
  BY <1>1, TransferInvariance, PTL

(* An archive under the name the user gave is complete.                    *)
THEOREM ArchivesComplete == TransferSpec => []ArchivesAreWhole
<1>1. TransferInv => ArchivesAreWhole
  BY DEF TransferInv
<1> QED
  BY <1>1, TransferInvariance, PTL

(* Of a database of the latest version, exactly the pending rows are       *)
(* queued.                                                                 *)
THEOREM PendingRowsAreQueued == TransferSpec => []PendingIsQueued
<1>1. ASSUME TransferInv PROVE PendingIsQueued
  BY <1>1, TransferAssumption DEF TransferInv, FilesInv, SoundFile, Agrees, PendingIsQueued
<1> QED
  BY <1>1, TransferInvariance, PTL

(* A step of the import changes one database, and only adds to it; the     *)
(* sync thread, which may go on meanwhile, is kept out of that one.        *)
THEOREM ImportsAdd == TransferSpec => ImportsOnlyAdd
<1> DEFINE Adds ==
        At("insert") =>
            \A p \in Profiles, g \in Records :
                db[p] # Nothing /\ db'[p] # db[p] /\ db'[p].rows[g] # db[p].rows[g] =>
                    \/ p # job.profile
                    \/ /\ db[p].rows[g] = Nothing
                       /\ job.source.sum[g] # Nothing
                       /\ db'[p].rows[g] = Row(job.source.sum[g])
<1>1. ASSUME TransferInv, TransferNext, At("insert"), NEW g \in Records,
             db'[job.profile].rows[g] # db[job.profile].rows[g]
      PROVE  /\ db[job.profile].rows[g] = Nothing /\ job.source.sum[g] # Nothing
             /\ db'[job.profile].rows[g] = Row(job.source.sum[g])
  <2>1. /\ job.step = "insert" /\ job.profile \in Profiles /\ db[job.profile] # Nothing
        /\ job.source \in Source /\ job.source.kind \in {Guest, "registered"}
        /\ job.source.records = job.source.sum
    BY <1>1 DEF TransferInv, JobInv, ImportInv, ImportSteps, At, Job, Current
  <2>2. db \in [Profiles -> SoundFile \cup {Nothing}]
    BY <1>1 DEF TransferInv, FilesInv
  <2>3. Insert \/ Uploaded \/ \E h \in Records : Pulled(h)
    <3>1. db' # db
      BY <1>1
    <3> QED
      BY <1>1, <2>1, <3>1
         DEF TransferNext, At, ChooseProfile, ChooseImport, Prepare, CheckVersion, WriteBackup,
             Retain, Migrate, Open, Snapshot, Begin, ReadArchive, StartExport, Damage,
             WriteFile, Publish, GiveUp, Killed, Enter
  <2>4. CASE Insert
    <3> DEFINE d == WithBatch(db[job.profile], job.source)
    <3>1. db' = [db EXCEPT ![job.profile] = d]
      BY <2>4 DEF Insert
    <3>2. db'[job.profile] = d
      BY <2>1, <2>2, <3>1
    <3> QED
      BY <1>1, <2>1, <2>2, <3>2, ImportedIsSound
  <2>5. CASE Uploaded \/ \E h \in Records : Pulled(h)
    <3>1. open # job.profile /\ \E e : db' = [db EXCEPT ![open] = e]
      BY <2>1, <2>5 DEF Uploaded, Pulled, Locked, At
    <3> QED
      BY <1>1, <2>1, <2>2, <3>1
  <2> QED
    BY <2>3, <2>4, <2>5
<1>2. TransferInv /\ [TransferNext]_transferVars => [Adds]_transferVars
  BY <1>1
<1> QED
  BY <1>2, TransferInvariance, PTL DEF TransferSpec, ImportsOnlyAdd

(* A database that is brought to a newer schema was backed up.             *)
THEOREM MigratesAfterBackup == TransferSpec => BackupBeforeMigration
<1> DEFINE Backed ==
        \A p \in Profiles :
            db[p] # Nothing /\ db[p].version > 0 /\ db'[p].version > db[p].version =>
                bak'[p].newest = Backup(db[p])
<1>1. ASSUME TransferInv, TransferNext, NEW p \in Profiles,
             db[p] # Nothing, db[p].version > 0, db'[p].version > db[p].version
      PROVE  bak'[p].newest = Backup(db[p])
  <2>1. /\ db \in [Profiles -> SoundFile \cup {Nothing}] /\ db[p] \in SoundFile
        /\ db[p].version \in Nat
    BY <1>1 DEF TransferInv, FilesInv, SoundFile, DatabaseFile
  <2>2. \/ Migrate \/ Prepare \/ Insert \/ Uploaded
        \/ \E g \in Records : Enter(g) \/ Pulled(g)
    <3>1. db' # db
      BY <1>1, <2>1
    <3> QED
      BY <1>1, <3>1
         DEF TransferNext, ChooseProfile, ChooseImport, CheckVersion, WriteBackup,
             Retain, Open, Snapshot, Begin, ReadArchive, StartExport, Damage,
             WriteFile, Publish, GiveUp, Killed
  <2>3. CASE Migrate
    <3>1. job.step = "migrate" /\ UNCHANGED bak
      BY <2>3 DEF Migrate, At
    <3>2. job.profile \in Profiles /\ db' = [db EXCEPT ![job.profile] = Migrated(db[job.profile])]
      BY <1>1, <2>3, <3>1 DEF Migrate, TransferInv, JobInv, FileSteps
    <3>3. job.profile = p
      BY <1>1, <2>1, <3>2
    <3> QED
      BY <1>1, <3>1, <3>3 DEF TransferInv, BackupInv, Current
  <2>4. CASE Prepare
    BY <1>1, <2>1, <2>4 DEF Prepare, Current
  <2>5. ASSUME NEW q, NEW e, db' = [db EXCEPT ![q] = e], q = p => e.version = db[p].version
        PROVE  FALSE
    BY <1>1, <2>1, <2>5
  <2>6. CASE Insert
    <3>1. db' = [db EXCEPT ![job.profile] = WithBatch(db[job.profile], job.source)]
      BY <2>6 DEF Insert
    <3>2. WithBatch(db[p], job.source).version = db[p].version
      BY <2>1 DEF WithBatch, SoundFile, DatabaseFile
    <3> QED
      BY <2>5, <3>1, <3>2
  <2>7. CASE Uploaded
    <3>1. \E rows : db' = [db EXCEPT ![open] = [db[open] EXCEPT !.rows = rows]]
      BY <2>7 DEF Uploaded
    <3>2. \A rows : [db[p] EXCEPT !.rows = rows].version = db[p].version
      BY <2>1 DEF SoundFile, DatabaseFile
    <3> QED
      BY <2>5, <3>1, <3>2
  <2>8. CASE \E g \in Records : Enter(g) \/ Pulled(g)
    <3>1. \E g \in Records : \E row : db' = [db EXCEPT ![open].rows[g] = row]
      BY <2>8 DEF Enter, Pulled
    <3>2. \E rows : db' = [db EXCEPT ![open] = [db[open] EXCEPT !.rows = rows]]
      BY <3>1
    <3>3. \A rows : [db[p] EXCEPT !.rows = rows].version = db[p].version
      BY <2>1 DEF SoundFile, DatabaseFile
    <3> QED
      BY <2>5, <3>2, <3>3
  <2> QED
    BY <2>2, <2>3, <2>4, <2>6, <2>7, <2>8
<1>2. TransferInv /\ [TransferNext]_transferVars => [Backed]_transferVars
  BY <1>1
<1> QED
  BY <1>2, TransferInvariance, PTL DEF TransferSpec, BackupBeforeMigration
(* What the user was told of records and archives holds.                   *)
THEOREM ToldHolds == TransferSpec => []WhatIsToldHolds
<1>1. TransferInv => WhatIsToldHolds
  BY DEF TransferInv, WhatIsToldHolds
<1> QED
  BY <1>1, TransferInvariance, PTL

(* Neither an import nor a migration loses what a database holds.          *)
THEOREM DatabasesKept == TransferSpec => DatabasesAreKept
BY ImportsAdd, MigratesAfterBackup DEF DatabasesAreKept

-----------------------------------------------------------------------------
(***************************************************************************)
(* The entry of games.  RecordingInv is inductive: the window follows a    *)
(* form that is open for a new game as long as the form's mode is offered, *)
(* and a logged game says of itself what its form said, or nothing.        *)
(***************************************************************************)
\* What can be typed or chosen for a standing of a kind.
ValueOf(kind) == IF kind = "rank" THEN Rungs \cup {Blank} ELSE Int \cup {Blank}

StandingValues == Int \cup Rungs \cup {Blank}

ModeRows == [Modes -> Definition \cup {Blank}]

\* A form that is open: its standings are of the kind it was opened for.
Form ==
    {f \in [mode : Modes \cup {Blank}, as : Definition, editing : Nat \cup {Blank},
            base : StandingValues, last : StandingValues, gone : BOOLEAN] :
        /\ f.base \in ValueOf(f.as.kind) /\ f.last \in ValueOf(f.as.kind)
        /\ f.as.kind = "event_points" => f.base \in Int}

\* A row of games.
LoggedGame ==
    {g \in [kind : Kinds, context : Contexts, before : StandingValues, after : StandingValues] :
        g.before \in ValueOf(g.kind) /\ g.after \in ValueOf(g.kind)}

\* What a form said when it was saved.
Saying == [kind : Kinds, context : Contexts,
           values : [before : StandingValues, after : StandingValues], gone : BOOLEAN]

\* A game says what its form said, or nothing if the form has outlived its mode.
AsSaid(game, said) ==
    /\ said.gone \/ (game.context = said.context /\ game.kind = said.kind)
    /\ IF game.kind = said.kind
       THEN game.before = said.values.before /\ game.after = said.values.after
       ELSE game.before = Blank /\ game.after = Blank

LogInv ==
    /\ log \in Seq(LoggedGame) /\ entered \in Seq(Saying)
    /\ outbox \in Seq({"due", "failed", "none"})
    /\ Len(entered) = Len(log) /\ Len(outbox) = Len(log)
    /\ \A g \in 1..Len(log) : AsSaid(log[g], entered[g]) /\ Pair(log[g]) \in given

WindowInv ==
    /\ offered \in ModeRows /\ playModes \in ModeRows /\ Pairs(playModes) \subseteq given
    /\ memory \in [default : Modes \cup {Blank}, lastUsed : Modes \cup {Blank}]
    /\ window = [modes |-> window.modes, mode |-> window.mode]
    /\ window.modes \in ModeRows /\ window.mode \in Modes \cup {Blank}
    /\ \A m \in Modes : window.modes[m] # Blank => Pair(window.modes[m]) \in given
    /\ window.mode # Blank => window.modes[window.mode] # Blank

FormInv ==
    form # Closed =>
        /\ form \in Form /\ Pair(form.as) \in given
        /\ form.editing # Blank => form.editing \in 1..Len(log)
        /\ form.editing = Blank /\ ~form.gone =>
               /\ form.mode \in Modes /\ window.mode = form.mode
               /\ window.modes[form.mode] = form.as

RecordingInv == LogInv /\ WindowInv /\ FormInv

-----------------------------------------------------------------------------
(* Modes, and the newest game of a mode.                                   *)

(* A blank is none of the values that can be typed or chosen.              *)
LEMMA Blanks ==
    /\ \A n \in Int : n # Blank
    /\ \A s \in Rungs : s # Blank
    /\ \A m \in Modes : m # Blank /\ m \in Nat
    /\ \A d \in Definition : d # Blank
BY BlankAssumption, RecordingAssumption

(* Any set of numbers has a least one.                                     *)
LEMMA LeastNumber ==
    ASSUME NEW S \in SUBSET Nat, S # {}
    PROVE  \E m \in S : \A n \in S : m <= n
<1> DEFINE R == OpToRel(<, Nat)
<1>1. IsWellFoundedOn(R, Nat)
  BY NatLessThanWellFounded
<1>2. PICK m \in S : \A n \in S : ~(<<n, m>> \in R)
  <2> HIDE DEF R
  <2> QED
    BY <1>1, WFMin
<1>3. \A n \in S : n < m => <<n, m>> \in R
  BY DEF OpToRel
<1>4. \A n \in S : m <= n
  <2> HIDE DEF R
  <2> TAKE n \in S
  <2>1. ~(n < m) /\ n \in Nat /\ m \in Nat
    BY <1>2, <1>3
  <2> QED
    BY <2>1
<1> QED
  BY <1>4

(* The first mode of a list that is not empty is one of the list.          *)
LEMMA LowestIsAMode ==
    ASSUME NEW modes \in SUBSET Modes, modes # {} PROVE Lowest(modes) \in modes
<1>1. \E m \in modes : \A n \in modes : m <= n
  BY LeastNumber, RecordingAssumption
<1> QED
  BY <1>1 DEF Lowest

(* Any set of positions of a sequence has a last one.                      *)
LEMMA LastPosition ==
    ASSUME NEW n \in Nat, NEW S \in SUBSET (1..n), S # {}
    PROVE  \E g \in S : \A h \in S : h <= g
<1> DEFINE T == {n - g : g \in S}
<1>1. T \in SUBSET Nat /\ T # {}
  <2>1. \A g \in S : g \in Nat /\ n - g \in Nat
    OBVIOUS
  <2>2. T \subseteq Nat
    BY <2>1
  <2>3. PICK g \in S : TRUE
    OBVIOUS
  <2>4. n - g \in T
    OBVIOUS
  <2> QED
    BY <2>2, <2>4
<1>2. PICK m \in T : \A k \in T : m <= k
  <2> HIDE DEF T
  <2> QED
    BY <1>1, LeastNumber
<1>3. PICK g \in S : m = n - g
  BY <1>2
<1>4. \A h \in S : n - h \in T
  OBVIOUS
<1>5. \A h \in S : h <= g
  <2> TAKE h \in S
  <2>1. n - g <= n - h
    BY <1>2, <1>3, <1>4
  <2> QED
    BY <2>1
<1> QED
  BY <1>5

(* The choice that is made when the chosen mode has gone (_resolve_mode).  *)
LEMMA ResolvedType ==
    ASSUME NEW modes \in SUBSET Modes
    PROVE  ResolvedDefault(modes) \in modes \cup {Blank}
BY LowestIsAMode DEF ResolvedDefault

(* What is listed of rows are rows, with what is active of them.           *)
LEMMA ListedRows ==
    ASSUME NEW rows \in ModeRows
    PROVE  /\ Listed(rows) \in ModeRows /\ Active(rows) \subseteq Modes
           /\ \A m \in Modes : m \in Active(rows) <=> Listed(rows)[m] # Blank
           /\ \A m \in Active(rows) : Listed(rows)[m] = rows[m]
           /\ \A m \in Active(rows) : Pair(Listed(rows)[m]) \in Pairs(rows)
<1>1. Listed(rows) \in ModeRows /\ Active(rows) \subseteq Modes
  BY DEF Listed, Active, ModeRows
<1>2. \A m \in Modes : m \in Active(rows) <=> Listed(rows)[m] # Blank
  BY DEF Active
<1>3. \A m \in Active(rows) : Listed(rows)[m] = rows[m]
  BY <1>1, <1>2 DEF Listed
<1>4. \A m \in Active(rows) : Pair(Listed(rows)[m]) \in Pairs(rows)
  BY <1>3 DEF Pairs
<1> QED
  BY <1>1, <1>2, <1>3, <1>4

(* The standings of the last game are standings of its kind, and there are *)
(* always event points to start from (get_last_score).                     *)
LEMMA LastAfterType ==
    ASSUME LogInv, NEW kind \in Kinds, NEW m \in Modes
    PROVE  /\ LastAfter(kind, m) \in ValueOf(kind)
           /\ kind = "event_points" => LastAfter(kind, m) \in Int
<1> DEFINE known == {g \in DOMAIN log : /\ playModes[m] # Blank
                                        /\ log[g].context = playModes[m].context
                                        /\ log[g].kind = kind /\ log[g].after # Blank}
<1>1. log \in Seq(LoggedGame) /\ DOMAIN log = 1..Len(log) /\ Len(log) \in Nat
  BY DEF LogInv
<1>2. CASE known # {}
  <2> DEFINE last == CHOOSE g \in known : \A h \in known : h <= g
  <2>1. known \in SUBSET (1..Len(log))
    BY <1>1
  <2>2. \E g \in known : \A h \in known : h <= g
    <3> HIDE DEF known
    <3> QED
      BY <1>1, <1>2, <2>1, LastPosition
  <2>3. last \in known
    BY <2>2
  <2>4. log[last] \in LoggedGame /\ log[last].kind = kind /\ log[last].after # Blank
    <3>1. last \in 1..Len(log) /\ log[last].kind = kind /\ log[last].after # Blank
      BY <2>1, <2>3
    <3> HIDE DEF last
    <3> QED
      BY <1>1, <3>1
  <2>5. LastAfter(kind, m) = log[last].after
    BY <1>2 DEF LastAfter
  <2> HIDE DEF last
  <2> QED
    BY <2>4, <2>5 DEF LoggedGame, ValueOf
<1>3. CASE known = {}
  BY <1>3 DEF LastAfter, ValueOf
<1> QED
  BY <1>2, <1>3

-----------------------------------------------------------------------------
(* The standings a form works out.                                         *)

(* A step up or down the tiers stays on them.                              *)
LEMMA RungsType ==
    ASSUME NEW s \in Rungs PROVE Promoted(s) \in Rungs /\ Demoted(s) \in Rungs
<1>1. s[1] \in 1..Tiers /\ s[2] \in 1..Divisions /\ s = <<s[1], s[2]>>
  BY DEF Rungs
<1>2. Tiers \in Nat \ {0} /\ Divisions \in Nat \ {0}
  BY RecordingAssumption
<1> QED
  BY <1>1, <1>2 DEF Promoted, Demoted, Rungs

(* A form for points or a rating takes numbers.                            *)
LEMMA NumberInputsType ==
    ASSUME NEW f \in Form, f.as.kind # "rank", NEW i \in Inputs(f)
    PROVE  /\ i.before \in Int \cup {Blank} /\ i.number \in Int \cup {Blank}
           /\ i.quick = "unused"
           /\ f.editing = Blank => Parsed(i.before) = i.before /\ Parsed(i.number) = i.number
<1>1. f.base \in Int \cup {Blank} /\ f.last \in Int \cup {Blank}
  BY DEF Form, ValueOf
<1>2. \A n \in Entries : n \in Int /\ n \in 0..MaxNumber
  <2>1. Entries \subseteq 0..MaxNumber /\ MaxNumber \in Nat
    BY RecordingAssumption
  <2> QED
    BY <2>1
<1>3. i \in NumberInputs(f)
  BY DEF Inputs
<1>4. /\ i.before \in Entries \cup {Blank} \cup (IF f.editing = Blank THEN {} ELSE {f.base})
      /\ i.number \in Entries \cup {Blank} \cup (IF f.editing = Blank THEN {} ELSE {f.last})
      /\ i.quick = "unused"
  BY <1>3 DEF NumberInputs
<1>5. CASE f.editing = Blank
  <2>1. i.before \in Entries \cup {Blank} /\ i.number \in Entries \cup {Blank}
    BY <1>4, <1>5
  <2>2. i.before \in Int \cup {Blank} /\ i.number \in Int \cup {Blank}
    BY <1>2, <2>1
  <2>3. Parsed(i.before) = i.before /\ Parsed(i.number) = i.number
    BY <1>2, <2>1 DEF Parsed
  <2> QED
    BY <1>4, <2>2, <2>3
<1>6. CASE f.editing # Blank
  <2>1. i.before \in Int \cup {Blank} /\ i.number \in Int \cup {Blank}
    BY <1>1, <1>2, <1>4, <1>6
  <2> QED
    BY <1>4, <1>6, <2>1
<1> QED
  BY <1>5, <1>6

(* A form for a rank takes rungs.                                          *)
LEMMA RungInputsType ==
    ASSUME NEW f \in Form, f.as.kind = "rank", NEW i \in Inputs(f)
    PROVE  i.before \in Rungs /\ i.number \in Rungs /\ i.quick \in Quick \cup {"unused"}
BY DEF Inputs, RungInputs, Quick

(* What a form lets through is a pair of standings of its kind.            *)
LEMMA OutcomeType ==
    ASSUME NEW f \in Form, NEW values \in Outcomes(f)
    PROVE  /\ values \in [before : StandingValues, after : StandingValues]
           /\ values.before \in ValueOf(f.as.kind) /\ values.after \in ValueOf(f.as.kind)
<1>1. PICK i \in Inputs(f) : values = DesktopValues(f, i) /\ values # Blank
  BY DEF Outcomes
<1> DEFINE typed  == \/ f.as.kind = "rank" \/ f.editing # Blank
                     \/ f.as.kind = "rating" /\ f.base = Blank
           before == IF typed THEN i.before ELSE f.base
           after  == DesktopAfter(f, before, i)
<1>2. values = [before |-> before, after |-> after] /\ before # Blank /\ after # Blank
  BY <1>1 DEF DesktopValues, Standings
<1>3. before \in ValueOf(f.as.kind) /\ after \in ValueOf(f.as.kind)
  <2>1. CASE f.as.kind = "rank"
    BY <2>1, RungInputsType, RungsType DEF DesktopAfter, ValueOf
  <2>2. CASE f.as.kind # "rank"
    <3>1. before \in Int
      BY <1>2, <2>2, NumberInputsType DEF Form, ValueOf
    <3>2. i.number \in Int \cup {Blank}
      BY <2>2, NumberInputsType
    <3>3. after \in Int \cup {Blank}
      BY <2>2, <3>1, <3>2 DEF DesktopAfter, Swing
    <3> QED
      BY <2>2, <3>1, <3>3 DEF ValueOf
  <2> QED
    BY <2>1, <2>2
<1> HIDE DEF before, after
<1> QED
  BY <1>2, <1>3 DEF ValueOf, StandingValues

(* Numbers typed as they are get into both forms, unless one is out of     *)
(* range (an edited game).                                                 *)
LEMMA TypedNumbersAgree ==
    ASSUME NEW before \in Int \cup {Blank}, NEW after \in Int \cup {Blank}
    PROVE  \/ Standings(Parsed(before), Parsed(after)) = Standings(before, after)
           \/ /\ Standings(Parsed(before), Parsed(after)) = Blank
              /\ OutOfRange(Standings(before, after))
<1>1. CASE Blank \in {before, after}
  <2>1. Blank \in {Parsed(before), Parsed(after)}
    BY <1>1 DEF Parsed
  <2> QED
    BY <1>1, <2>1 DEF Standings
<1>2. CASE before \in 0..MaxNumber /\ after \in 0..MaxNumber
  BY <1>2 DEF Parsed
<1>3. CASE ~(Blank \in {before, after}) /\ ~(before \in 0..MaxNumber /\ after \in 0..MaxNumber)
  <2>1. Standings(before, after) = [before |-> before, after |-> after]
    BY <1>3 DEF Standings
  <2>2. Standings(Parsed(before), Parsed(after)) = Blank
    BY <1>3 DEF Standings, Parsed
  <2>3. OutOfRange([before |-> before, after |-> after])
    BY <1>3 DEF OutOfRange
  <2> QED
    BY <2>1, <2>2, <2>3
<1> QED
  BY <1>1, <1>2, <1>3

(* The forms for a rank agree on every button.                             *)
LEMMA RankFormsAgree ==
    ASSUME NEW f \in Form, f.as.kind = "rank", NEW i \in Inputs(f)
    PROVE  WebValues(f, i) = DesktopValues(f, i)
<1>1. f.as.kind # "event_points" /\ f.as.kind # "rating"
  OBVIOUS
<1>2. i.quick \in {"same", "up", "down", "unused"}
  BY RungInputsType DEF Quick
<1> QED
  BY <1>1, <1>2 DEF WebValues, DesktopValues, DesktopAfter, RankQuick

(* The forms for event points agree.                                       *)
LEMMA PointFormsAgree ==
    ASSUME NEW f \in Form, f.as.kind = "event_points", NEW i \in Inputs(f), i.result # Blank
    PROVE  \/ WebValues(f, i) = DesktopValues(f, i)
           \/ WebValues(f, i) = Blank /\ OutOfRange(DesktopValues(f, i))
<1>1. /\ i.before \in Int \cup {Blank} /\ i.number \in Int \cup {Blank} /\ i.quick = "unused"
      /\ f.editing = Blank => Parsed(i.number) = i.number
  BY NumberInputsType
<1>2. f.base \in Int /\ f.base # Blank
  BY Blanks DEF Form
<1>3. WebValues(f, i) = WebPoints(f, i)
  BY DEF WebValues
<1>4. CASE f.editing # Blank
  <2>1. WebPoints(f, i) = Standings(Parsed(i.before), Parsed(i.number))
    BY <1>4 DEF WebPoints
  <2>2. DesktopValues(f, i) = Standings(i.before, i.number)
    BY <1>1, <1>4 DEF DesktopValues, DesktopAfter
  <2> QED
    BY <1>1, <1>3, <2>1, <2>2, TypedNumbersAgree
<1>5. CASE f.editing = Blank /\ i.number = Blank
  <2>1. WebPoints(f, i) = Blank
    BY <1>1, <1>5 DEF WebPoints, Standings
  <2>2. DesktopValues(f, i) = Blank
    BY <1>5 DEF DesktopValues, DesktopAfter, Standings
  <2> QED
    BY <1>3, <2>1, <2>2
<1>6. CASE f.editing = Blank /\ i.number # Blank
  <2>1. Parsed(i.number) = i.number /\ i.number \in Int
    BY <1>1, <1>6
  <2>2. CASE i.style = "direct"
    <3>1. WebPoints(f, i) = Standings(f.base, i.number)
      BY <1>6, <2>1, <2>2 DEF WebPoints
    <3>2. DesktopValues(f, i) = Standings(f.base, i.number)
      BY <1>1, <1>6, <2>2 DEF DesktopValues, DesktopAfter
    <3> QED
      BY <1>3, <3>1, <3>2
  <2>3. CASE i.style = "delta"
    <3>1. Swing(f.base, i) \in Int
      BY <1>2, <2>1 DEF Swing
    <3>2. DesktopValues(f, i) = [before |-> f.base, after |-> Swing(f.base, i)]
      <4>1. Swing(f.base, i) # Blank
        BY <3>1, Blanks
      <4> QED
        BY <1>1, <1>2, <1>6, <2>3, <4>1 DEF DesktopValues, DesktopAfter, Standings
    <3>3. CASE Swing(f.base, i) < 0
      <4>1. WebPoints(f, i) = Blank
        BY <1>6, <2>1, <2>3, <3>3 DEF WebPoints
      <4> QED
        BY <1>3, <3>1, <3>2, <3>3, <4>1 DEF OutOfRange
    <3>4. CASE ~(Swing(f.base, i) < 0)
      <4>1. WebPoints(f, i) = Standings(f.base, Swing(f.base, i))
        BY <1>6, <2>1, <2>3, <3>4 DEF WebPoints
      <4>2. Swing(f.base, i) # Blank
        BY <3>1, Blanks
      <4> QED
        BY <1>2, <1>3, <3>2, <4>1, <4>2 DEF Standings
    <3> QED
      BY <3>3, <3>4
  <2>4. i.style \in {"delta", "direct"}
    BY DEF Inputs, NumberInputs
  <2> QED
    BY <2>2, <2>3, <2>4
<1> QED
  BY <1>4, <1>5, <1>6

(* The forms for a rating agree.                                           *)
LEMMA RatingFormsAgree ==
    ASSUME NEW f \in Form, f.as.kind = "rating", NEW i \in Inputs(f), i.result # Blank
    PROVE  \/ WebValues(f, i) = DesktopValues(f, i)
           \/ WebValues(f, i) = Blank /\ OutOfRange(DesktopValues(f, i))
<1>1. /\ i.before \in Int \cup {Blank} /\ i.number \in Int \cup {Blank} /\ i.quick = "unused"
      /\ f.editing = Blank => Parsed(i.before) = i.before /\ Parsed(i.number) = i.number
  BY NumberInputsType
<1>2. WebValues(f, i) = WebRating(f, i)
  BY DEF WebValues
<1>3. CASE f.editing # Blank
  <2>1. WebRating(f, i) = Standings(Parsed(i.before), Parsed(i.number))
    BY <1>3 DEF WebRating
  <2>2. DesktopValues(f, i) = Standings(i.before, i.number)
    BY <1>1, <1>3 DEF DesktopValues, DesktopAfter
  <2> QED
    BY <1>1, <1>2, <2>1, <2>2, TypedNumbersAgree
<1>4. CASE f.editing = Blank
  <2> DEFINE before == IF f.base = Blank THEN i.before ELSE f.base
  <2>1. Parsed(i.number) = i.number /\ Parsed(i.before) = i.before
    BY <1>1, <1>4
  <2>2. WebRating(f, i) =
            IF i.style = "direct" THEN Standings(before, i.number)
            ELSE IF Blank \in {before, i.number} THEN Blank ELSE Standings(before, Swing(before, i))
    BY <1>4, <2>1 DEF WebRating
  <2>3. DesktopValues(f, i) = Standings(before, DesktopAfter(f, before, i))
    BY <1>4 DEF DesktopValues
  <2>4. i.style \in {"delta", "direct"}
    BY DEF Inputs, NumberInputs
  <2>5. CASE i.style = "direct"
    <3>1. DesktopAfter(f, before, i) = i.number
      BY <1>1, <2>5 DEF DesktopAfter
    <3> QED
      BY <1>2, <2>2, <2>3, <2>5, <3>1
  <2>6. CASE i.style = "delta"
    <3>1. DesktopAfter(f, before, i) =
              IF Blank \in {before, i.number} THEN Blank ELSE Swing(before, i)
      BY <1>1, <1>4, <2>6 DEF DesktopAfter
    <3> HIDE DEF before
    <3> QED
      BY <1>2, <2>2, <2>3, <2>6, <3>1 DEF Standings
  <2> QED
    BY <2>4, <2>5, <2>6
<1> QED
  BY <1>3, <1>4

(* An input without a result is refused by both.                           *)
LEMMA NoResultNoValues ==
    ASSUME NEW f, NEW i, i.result = Blank
    PROVE  WebValues(f, i) = Blank /\ DesktopValues(f, i) = Blank
BY DEF WebValues, DesktopValues
-----------------------------------------------------------------------------
(* Steps.                                                                  *)

(* The invariant holds at first.                                           *)
LEMMA RecordingInvInit == ASSUME RecordingInit PROVE RecordingInv
<1> USE DEF RecordingInit
<1>1. LogInv
  BY DEF LogInv
<1>2. playModes \in ModeRows /\ offered \in ModeRows /\ Pairs(playModes) \subseteq given
  BY RecordingAssumption DEF ModeRows
<1>3. /\ window = [modes |-> window.modes, mode |-> window.mode]
      /\ window.modes = Listed(playModes)
      /\ window.mode \in Active(playModes) \cup {Blank}
  BY <1>2, ListedRows, LowestIsAMode
<1>4. WindowInv
  BY <1>2, <1>3, ListedRows DEF WindowInv
<1>5. FormInv
  BY DEF FormInv
<1> QED
  BY <1>1, <1>4, <1>5 DEF RecordingInv

(* An open form in a state with the same log and window.                   *)
LEMMA SameLogSameWindow ==
    ASSUME RecordingInv, UNCHANGED <<log, entered, window>>,
           outbox' \in Seq({"due", "failed", "none"}), Len(outbox') = Len(outbox),
           UNCHANGED form \/ form' = Closed,
           offered' \in ModeRows, playModes' \in ModeRows,
           given \subseteq given', Pairs(playModes') \subseteq given',
           memory' \in [default : Modes \cup {Blank}, lastUsed : Modes \cup {Blank}]
    PROVE  RecordingInv'
<1>1. LogInv'
  BY DEF RecordingInv, LogInv, AsSaid
<1>2. WindowInv'
  <2>1. Pairs(playModes)' = Pairs(playModes')
    BY DEF Pairs, Active, Listed
  <2>2. \A m \in Modes : window'.modes[m] # Blank => Pair(window'.modes[m]) \in given'
    BY DEF RecordingInv, WindowInv
  <2> QED
    BY <2>1, <2>2 DEF RecordingInv, WindowInv
<1>3. FormInv'
  BY DEF RecordingInv, FormInv
<1> QED
  BY <1>1, <1>2, <1>3 DEF RecordingInv

(* Modes are defined and withdrawn, read and chosen as the default.        *)
LEMMA ModesKeepInv ==
    ASSUME RecordingInv, SyncModes \/ \E m \in Modes : ManageMode(m) \/ SetDefaultMode(m)
    PROVE  RecordingInv'
<1>1. UNCHANGED <<log, entered, window, outbox, form>>
  BY DEF SyncModes, ManageMode, SetDefaultMode
<1>2. offered \in ModeRows /\ playModes \in ModeRows /\ Pairs(playModes) \subseteq given
  BY DEF RecordingInv, WindowInv
<1>3. offered' \in ModeRows /\ playModes' \in ModeRows
  <2>1. ASSUME NEW m \in Modes, ManageMode(m) PROVE offered' \in ModeRows /\ playModes' = playModes
    <3>1. PICK d \in Definitions[m] \cup {Blank} : offered' = [offered EXCEPT ![m] = d]
      BY <2>1 DEF ManageMode
    <3>2. d \in Definition \cup {Blank}
      BY RecordingAssumption
    <3> QED
      BY <1>2, <2>1, <3>1, <3>2 DEF ManageMode, ModeRows
  <2> QED
    BY <1>2, <2>1 DEF SyncModes, SetDefaultMode
<1>4. given \subseteq given' /\ Pairs(playModes') \subseteq given'
  <2>1. CASE SyncModes
    BY <2>1 DEF SyncModes
  <2>2. CASE \E m \in Modes : ManageMode(m) \/ SetDefaultMode(m)
    BY <1>2, <2>2 DEF ManageMode, SetDefaultMode
  <2> QED
    BY <2>1, <2>2
<1>5. memory' \in [default : Modes \cup {Blank}, lastUsed : Modes \cup {Blank}]
  BY DEF SyncModes, ManageMode, SetDefaultMode, RecordingInv, WindowInv
<1>6. outbox' \in Seq({"due", "failed", "none"}) /\ Len(outbox') = Len(outbox)
  BY <1>1 DEF RecordingInv, LogInv
<1> QED
  BY <1>1, <1>3, <1>4, <1>5, <1>6, SameLogSameWindow

(* What is left is a log, whose modes were offered to the device.          *)
LEMMA SameLog ==
    ASSUME LogInv, UNCHANGED <<log, entered, outbox, given>> PROVE LogInv'
BY DEF LogInv, AsSaid

(* A mode is chosen in the window, which has no form open.                 *)
LEMMA OnModeChangedKeepsInv ==
    ASSUME RecordingInv, NEW m \in Modes, OnModeChanged(m) PROVE RecordingInv'
<1>1. /\ window'.modes = window.modes /\ window'.mode = m
      /\ window' = [modes |-> window'.modes, mode |-> window'.mode]
      /\ window.modes[m] # Blank
  <2>1. window' = [window EXCEPT !.mode = m] /\ window.modes[m] # Blank
    BY DEF OnModeChanged
  <2>2. window = [modes |-> window.modes, mode |-> window.mode]
    BY DEF RecordingInv, WindowInv
  <2> QED
    BY <2>1, <2>2
<1>2. form' = Closed /\ UNCHANGED <<offered, playModes, memory, log, entered, outbox, given>>
  BY DEF OnModeChanged
<1>3. WindowInv'
  <2>1. Pairs(playModes)' = Pairs(playModes)
    BY <1>2 DEF Pairs, Active, Listed
  <2> QED
    BY <1>1, <1>2, <2>1 DEF RecordingInv, WindowInv
<1>4. LogInv'
  BY <1>2, SameLog DEF RecordingInv
<1> QED
  BY <1>2, <1>3, <1>4 DEF RecordingInv, FormInv

(* A new list of modes arrives at the window (_reload_modes_if_changed).   *)
LEMMA SetSyncStatusKeepsInv == ASSUME RecordingInv, SetSyncStatus PROVE RecordingInv'
<1>1. /\ UNCHANGED <<offered, playModes, memory, log, entered, outbox, given>>
      /\ playModes \in ModeRows /\ Pairs(playModes) \subseteq given
      /\ window' = Reloaded(playModes)
  BY DEF RecordingInv, WindowInv, SetSyncStatus
<1>2. /\ window' = [modes |-> window'.modes, mode |-> window'.mode]
      /\ window'.modes = Listed(playModes) /\ window'.mode \in Active(playModes) \cup {Blank}
      /\ window.mode \in Active(playModes) => window'.mode = window.mode
  BY <1>1, ResolvedType, ListedRows DEF Reloaded
<1>3. WindowInv'
  <2>1. Pairs(playModes)' = Pairs(playModes)
    BY <1>1 DEF Pairs, Active, Listed
  <2>2. window'.modes \in ModeRows /\ window'.mode \in Modes \cup {Blank}
    BY <1>1, <1>2, ListedRows
  <2>3. \A m \in Modes : window'.modes[m] # Blank => Pair(window'.modes[m]) \in given
    BY <1>1, <1>2, ListedRows
  <2>4. window'.mode # Blank => window'.modes[window'.mode] # Blank
    BY <1>1, <1>2, ListedRows
  <2> QED
    BY <1>1, <1>2, <2>1, <2>2, <2>3, <2>4 DEF RecordingInv, WindowInv
<1>4. LogInv'
  BY <1>1, SameLog DEF RecordingInv
<1>5. FormInv'
  <2>1. CASE form = Closed
    BY <2>1 DEF SetSyncStatus, FormInv
  <2> SUFFICES ASSUME form # Closed PROVE FormInv'
    BY <2>1
  <2>2. /\ form \in Form /\ Pair(form.as) \in given
        /\ form.editing # Blank => form.editing \in 1..Len(log)
        /\ form.editing = Blank /\ ~form.gone => form.mode \in Modes /\ window.mode = form.mode
    BY DEF RecordingInv, FormInv
  <2>3. CASE form.mode # Blank /\ window'.modes[form.mode] # form.as
    <3>1. form' = [form EXCEPT !.gone = TRUE]
      BY <2>3 DEF SetSyncStatus
    <3>2. /\ form' \in Form /\ form'.gone /\ form'.editing = form.editing
          /\ form'.as = form.as
      BY <2>2, <3>1 DEF Form
    <3> QED
      BY <1>1, <2>2, <3>2 DEF FormInv
  <2>4. CASE ~(form.mode # Blank /\ window'.modes[form.mode] # form.as)
    <3>1. UNCHANGED form
      BY <2>4 DEF SetSyncStatus
    <3>2. ASSUME form.editing = Blank, ~form.gone
          PROVE  window'.modes[form.mode] = form.as /\ window'.mode = form.mode
      <4>1. form.mode \in Modes /\ form.mode # Blank /\ window.mode = form.mode
        BY <2>2, <3>2, Blanks
      <4>2. window'.modes[form.mode] = form.as /\ form.as \in Definition
        BY <2>2, <2>4, <4>1 DEF Form
      <4>3. form.mode \in Active(playModes)
        BY <1>1, <1>2, <4>1, <4>2, ListedRows, Blanks
      <4> QED
        BY <1>2, <4>1, <4>2, <4>3
    <3> QED
      BY <1>1, <2>2, <3>1, <3>2 DEF FormInv
  <2> QED
    BY <2>3, <2>4
<1> QED
  BY <1>3, <1>4, <1>5 DEF RecordingInv

(* A form is opened for a new game (show_detail).                          *)
LEMMA ShowDetailKeepsInv == ASSUME RecordingInv, ShowDetail PROVE RecordingInv'
<1> DEFINE d == window.modes[window.mode]
           start == LastAfter(d.kind, window.mode)
<1>1. /\ UNCHANGED <<offered, playModes, memory, window, log, entered, outbox, given>>
      /\ window.mode \in Modes /\ LogInv /\ WindowInv
  BY DEF ShowDetail, RecordingInv, WindowInv
<1>2. /\ d # Blank /\ d \in Definition /\ d.kind \in Kinds /\ Pair(d) \in given
      /\ window.mode # Blank
  BY <1>1, Blanks DEF WindowInv, ModeRows, Definition
<1>3. start \in ValueOf(d.kind) /\ (d.kind = "event_points" => start \in Int)
  BY <1>1, <1>2, LastAfterType
<1>4. form' = [mode |-> window.mode, as |-> d, editing |-> Blank, base |-> start,
               last |-> Blank, gone |-> FALSE]
  BY DEF ShowDetail
<1>5. Blank \in ValueOf(d.kind) /\ ValueOf(d.kind) \subseteq StandingValues
  BY DEF ValueOf, StandingValues
<1> HIDE DEF start, d
<1>6. form' \in Form
  BY <1>1, <1>2, <1>3, <1>4, <1>5 DEF Form
<1>7. form'.editing = Blank /\ form'.mode = window.mode /\ form'.as = d
  BY <1>4
<1>8. FormInv'
  BY <1>1, <1>2, <1>6, <1>7 DEF FormInv, d
<1>9. WindowInv'
  <2>1. Pairs(playModes)' = Pairs(playModes)
    BY <1>1 DEF Pairs, Active, Listed
  <2> QED
    BY <1>1, <2>1 DEF WindowInv
<1>10. LogInv'
  BY <1>1, SameLog
<1> QED
  BY <1>8, <1>9, <1>10 DEF RecordingInv

(* The window and the modes as they were.                                  *)
LEMMA SameWindow ==
    ASSUME WindowInv, UNCHANGED <<offered, playModes, window, given>>,
           memory' \in [default : Modes \cup {Blank}, lastUsed : Modes \cup {Blank}]
    PROVE  WindowInv'
<1>1. Pairs(playModes)' = Pairs(playModes)
  BY DEF Pairs, Active, Listed
<1> QED
  BY <1>1 DEF WindowInv

(* A form is opened with a game (edit_selected).                           *)
LEMMA EditSelectedKeepsInv ==
    ASSUME RecordingInv, NEW g \in DOMAIN log, EditSelected(g) PROVE RecordingInv'
<1>1. /\ UNCHANGED <<offered, playModes, memory, window, log, entered, outbox, given>>
      /\ form' = FormOf(g) /\ g \in 1..Len(log) /\ g \in Nat
      /\ LogInv /\ WindowInv
  BY DEF EditSelected, RecordingInv, LogInv
<1>2. log[g] \in LoggedGame /\ Pair(log[g]) \in given
  BY <1>1 DEF LogInv
<1> DEFINE own == [kind |-> log[g].kind, context |-> log[g].context, active |-> TRUE]
<1>3. /\ own \in Definition /\ own.kind = log[g].kind /\ Pair(own) = Pair(log[g])
  BY <1>2 DEF LoggedGame, Definition, Pair
<1>4. FormOf(g) \in Form /\ FormOf(g).editing = g /\ FormOf(g).as = own
  <2> DEFINE start == IF log[g].kind = "event_points" /\ log[g].before = Blank
                     THEN 0 ELSE log[g].before
  <2>1. start \in ValueOf(log[g].kind) /\ (log[g].kind = "event_points" => start \in Int)
    BY <1>2 DEF LoggedGame, ValueOf
  <2>2. ValueOf(log[g].kind) \subseteq StandingValues /\ log[g].after \in ValueOf(log[g].kind)
    BY <1>2 DEF ValueOf, StandingValues, LoggedGame
  <2>3. FormOf(g) = [mode |-> Blank, as |-> own, editing |-> g,
                     base |-> start, last |-> log[g].after, gone |-> FALSE]
    BY DEF FormOf
  <2> HIDE DEF start, own
  <2>4. FormOf(g) \in [mode : Modes \cup {Blank}, as : Definition, editing : Nat \cup {Blank},
                       base : StandingValues, last : StandingValues, gone : BOOLEAN]
    <3>1. start \in StandingValues /\ log[g].after \in StandingValues
      BY <2>1, <2>2
    <3> QED
      BY <1>1, <1>3, <2>3, <3>1
  <2>5. /\ FormOf(g).base = start /\ FormOf(g).last = log[g].after
        /\ FormOf(g).as = own /\ FormOf(g).editing = g
    BY <2>3
  <2> QED
    BY <1>3, <2>1, <2>2, <2>4, <2>5 DEF Form
<1> HIDE DEF own
<1>5. g # Blank
  BY <1>1, Blanks
<1>6. FormInv'
  BY <1>1, <1>2, <1>3, <1>4, <1>5 DEF FormInv
<1>7. WindowInv'
  BY <1>1, SameWindow DEF WindowInv
<1>8. LogInv'
  BY <1>1, SameLog
<1> QED
  BY <1>6, <1>7, <1>8 DEF RecordingInv

(* What a form makes of its standings under a kind and a context is a      *)
(* game, and says what the form said if the kinds are the same (_payload). *)
LEMMA GameType ==
    ASSUME form \in Form, NEW values \in Outcomes(form), NEW kind \in Kinds,
           NEW context \in Contexts
    PROVE  /\ Game(kind, context, values) \in LoggedGame
           /\ Pair(Game(kind, context, values)) = <<kind, context>>
           /\ Said(values) \in Saying
           /\ Said(values).gone \/ (kind = form.as.kind /\ context = form.as.context) =>
                 AsSaid(Game(kind, context, values), Said(values))
<1> DEFINE game == Game(kind, context, values)
<1>1. /\ values \in [before : StandingValues, after : StandingValues]
      /\ values.before \in ValueOf(form.as.kind) /\ values.after \in ValueOf(form.as.kind)
  BY OutcomeType
<1>2. form.as.kind \in Kinds /\ form.as.context \in Contexts /\ form.gone \in BOOLEAN
  BY DEF Form, Definition
<1>3. /\ game.kind = kind /\ game.context = context
      /\ game.before = (IF kind = form.as.kind THEN values.before ELSE Blank)
      /\ game.after  = (IF kind = form.as.kind THEN values.after  ELSE Blank)
      /\ game = [kind |-> kind, context |-> context, before |-> game.before, after |-> game.after]
  BY DEF Game
<1>4. Blank \in ValueOf(kind) /\ ValueOf(kind) \subseteq StandingValues
  BY DEF ValueOf, StandingValues
<1>5. game.before \in ValueOf(kind) /\ game.after \in ValueOf(kind)
  BY <1>1, <1>3, <1>4
<1>6. /\ Said(values).context = form.as.context /\ Said(values).kind = form.as.kind
      /\ Said(values).values = values
      /\ Said(values) \in Saying
  BY <1>1, <1>2 DEF Said, Saying
<1> HIDE DEF game
<1>7. game \in LoggedGame
  <2>1. game \in [kind : Kinds, context : Contexts, before : StandingValues, after : StandingValues]
    BY <1>3, <1>4, <1>5
  <2> QED
    BY <1>3, <1>5, <2>1 DEF LoggedGame
<1>8. ASSUME Said(values).gone \/ (kind = form.as.kind /\ context = form.as.context)
      PROVE  AsSaid(game, Said(values))
  BY <1>3, <1>6, <1>8 DEF AsSaid
<1>9. Pair(game) = <<kind, context>>
  BY <1>3 DEF Pair
<1> QED
  BY <1>6, <1>7, <1>8, <1>9 DEF game

(* A new game is saved (on_confirm).                                       *)
LEMMA OnConfirmKeepsInv == ASSUME RecordingInv, OnConfirm PROVE RecordingInv'
<1>1. /\ form \in Form /\ Pair(form.as) \in given
      /\ ~form.gone => /\ form.mode \in Modes /\ window.mode = form.mode
                       /\ window.modes[form.mode] = form.as
      /\ form' = Closed /\ outbox' = Append(outbox, "due")
      /\ UNCHANGED <<offered, playModes, window, given>> /\ LogInv /\ WindowInv
  BY DEF OnConfirm, RecordingInv, FormInv
<1>2. PICK values \in Outcomes(form) : /\ log'     = Append(log, Confirmed(values))
                                       /\ entered' = Append(entered, Said(values))
  BY DEF OnConfirm
<1>3. form.as \in Definition /\ form.gone \in BOOLEAN
  BY <1>1 DEF Form
<1>4. window.mode \in Modes \cup {Blank}
  BY <1>1 DEF WindowInv
<1> DEFINE d == IF window.mode = Blank THEN form.as ELSE window.modes[window.mode]
<1>5. d \in Definition /\ Pair(d) \in given
  <2>1. CASE window.mode = Blank
    BY <1>1, <1>3, <2>1
  <2>2. CASE window.mode # Blank
    BY <1>1, <1>4, <2>2 DEF WindowInv, ModeRows
  <2> QED
    BY <2>1, <2>2
<1>6. Confirmed(values) = Game(d.kind, d.context, values)
  BY DEF Confirmed
<1>7. Said(values).gone \/ d = form.as
  BY <1>1, <1>3, Blanks DEF Said
<1> HIDE DEF d
<1>8. d.kind \in Kinds /\ d.context \in Contexts
  BY <1>5 DEF Definition
<1>9. /\ Confirmed(values) \in LoggedGame /\ Said(values) \in Saying
      /\ AsSaid(Confirmed(values), Said(values)) /\ Pair(Confirmed(values)) = Pair(d)
  BY <1>1, <1>6, <1>7, <1>8, GameType DEF Pair
<1>10. LogInv'
  <2>1. /\ log \in Seq(LoggedGame) /\ entered \in Seq(Saying)
        /\ outbox \in Seq({"due", "failed", "none"})
        /\ Len(entered) = Len(log) /\ Len(outbox) = Len(log) /\ Len(log) \in Nat
        /\ \A g \in 1..Len(log) : AsSaid(log[g], entered[g]) /\ Pair(log[g]) \in given
    BY <1>1 DEF LogInv
  <2>2. /\ log' \in Seq(LoggedGame) /\ Len(log') = Len(log) + 1
        /\ \A g \in 1..Len(log) : log'[g] = log[g]
        /\ log'[Len(log) + 1] = Confirmed(values)
    BY <1>2, <1>9, <2>1, AppendProperties
  <2>3. /\ entered' \in Seq(Saying) /\ Len(entered') = Len(log) + 1
        /\ \A g \in 1..Len(log) : entered'[g] = entered[g]
        /\ entered'[Len(log) + 1] = Said(values)
    BY <1>2, <1>9, <2>1, AppendProperties
  <2>4. outbox' \in Seq({"due", "failed", "none"}) /\ Len(outbox') = Len(log) + 1
    BY <1>1, <2>1, AppendProperties
  <2>5. ASSUME NEW g \in 1..Len(log')
        PROVE  AsSaid(log'[g], entered'[g]) /\ Pair(log'[g]) \in given'
    <3>1. CASE g \in 1..Len(log)
      BY <1>1, <2>1, <2>2, <2>3, <3>1
    <3>2. CASE g = Len(log) + 1
      BY <1>1, <1>5, <1>9, <2>2, <2>3, <3>2
    <3> QED
      BY <2>1, <2>2, <3>1, <3>2
  <2> QED
    BY <2>2, <2>3, <2>4, <2>5 DEF LogInv
<1>11. memory' \in [default : Modes \cup {Blank}, lastUsed : Modes \cup {Blank}]
  BY <1>1, <1>4 DEF OnConfirm, WindowInv
<1>12. WindowInv'
  BY <1>1, <1>11, SameWindow
<1> QED
  BY <1>1, <1>10, <1>12 DEF RecordingInv, FormInv

(* An edited game is saved (accept).                                       *)
LEMMA SaveEditedKeepsInv == ASSUME RecordingInv, SaveEdited PROVE RecordingInv'
<1> DEFINE e == form.editing
<1>1. /\ form \in Form /\ Pair(form.as) \in given
      /\ e # Blank /\ e \in 1..Len(log) /\ form' = Closed
      /\ outbox' = [outbox EXCEPT ![e] = "due"]
      /\ UNCHANGED <<offered, playModes, memory, window, given>> /\ LogInv /\ WindowInv
  BY DEF SaveEdited, RecordingInv, FormInv
<1>2. PICK values \in Outcomes(form) :
          /\ log'     = [log EXCEPT ![e] = Game(form.as.kind, form.as.context, values)]
          /\ entered' = [entered EXCEPT ![e] = Said(values)]
  BY DEF SaveEdited
<1> DEFINE game == Game(form.as.kind, form.as.context, values)
<1>3. form.as.kind \in Kinds /\ form.as.context \in Contexts
  BY <1>1 DEF Form, Definition
<1>4. /\ game \in LoggedGame /\ Said(values) \in Saying /\ AsSaid(game, Said(values))
      /\ Pair(game) \in given
  BY <1>1, <1>3, GameType DEF Pair
<1> HIDE DEF e, game
<1>5. /\ log \in Seq(LoggedGame) /\ entered \in Seq(Saying)
      /\ outbox \in Seq({"due", "failed", "none"})
      /\ Len(entered) = Len(log) /\ Len(outbox) = Len(log) /\ Len(log) \in Nat
      /\ \A g \in 1..Len(log) : AsSaid(log[g], entered[g]) /\ Pair(log[g]) \in given
  BY <1>1 DEF LogInv
<1>6. /\ log' \in Seq(LoggedGame) /\ Len(log') = Len(log)
      /\ \A g \in 1..Len(log) : log'[g] = IF g = e THEN game ELSE log[g]
  BY <1>1, <1>2, <1>4, <1>5, ExceptSeq DEF game
<1>7. /\ entered' \in Seq(Saying) /\ Len(entered') = Len(log)
      /\ \A g \in 1..Len(log) : entered'[g] = IF g = e THEN Said(values) ELSE entered[g]
  BY <1>1, <1>2, <1>4, <1>5, ExceptSeq
<1>8. outbox' \in Seq({"due", "failed", "none"}) /\ Len(outbox') = Len(log)
  BY <1>1, <1>5, ExceptSeq
<1>9. LogInv'
  BY <1>1, <1>4, <1>5, <1>6, <1>7, <1>8 DEF LogInv
<1>10. WindowInv'
  BY <1>1, SameWindow DEF WindowInv
<1> QED
  BY <1>1, <1>9, <1>10 DEF RecordingInv, FormInv

(* Games are sent, or queued again.                                        *)
LEMMA SendingKeepsInv ==
    ASSUME RecordingInv, Push \/ RetryFailed \/ Back PROVE RecordingInv'
<1>1. /\ UNCHANGED <<log, entered, window, offered, playModes, memory>>
      /\ UNCHANGED form \/ form' = Closed
      /\ offered' \in ModeRows /\ playModes' \in ModeRows
      /\ given \subseteq given' /\ Pairs(playModes') \subseteq given'
      /\ memory' \in [default : Modes \cup {Blank}, lastUsed : Modes \cup {Blank}]
  BY DEF Push, RetryFailed, Back, RecordingInv, WindowInv
<1>2. /\ DOMAIN log = 1..Len(log) /\ Len(log) \in Nat /\ Len(outbox) = Len(log)
      /\ outbox \in Seq({"due", "failed", "none"})
      /\ \A g \in 1..Len(log) : outbox[g] \in {"due", "failed", "none"}
  BY DEF RecordingInv, LogInv
<1>3. outbox' \in Seq({"due", "failed", "none"}) /\ Len(outbox') = Len(log)
  <2>1. CASE Back
    BY <1>2, <2>1 DEF Back
  <2>2. CASE RetryFailed
    BY <1>2, <2>2, IsASeq DEF RetryFailed
  <2>3. CASE Push
    BY <1>2, <2>3, IsASeq DEF Push
  <2> QED
    BY <2>1, <2>2, <2>3
<1> QED
  BY <1>1, <1>2, <1>3, SameLogSameWindow
(* RecordingInv is inductive.                                              *)
LEMMA RecordingInvStep ==
    ASSUME RecordingInv, [RecordingNext]_recordingVars PROVE RecordingInv'
<1>1. CASE SyncModes \/ \E m \in Modes : ManageMode(m) \/ SetDefaultMode(m)
  BY <1>1, ModesKeepInv
<1>2. CASE \E m \in Modes : OnModeChanged(m)
  BY <1>2, OnModeChangedKeepsInv
<1>3. CASE SetSyncStatus
  BY <1>3, SetSyncStatusKeepsInv
<1>4. CASE ShowDetail
  BY <1>4, ShowDetailKeepsInv
<1>5. CASE \E g \in DOMAIN log : EditSelected(g)
  BY <1>5, EditSelectedKeepsInv
<1>6. CASE OnConfirm
  BY <1>6, OnConfirmKeepsInv
<1>7. CASE SaveEdited
  BY <1>7, SaveEditedKeepsInv
<1>8. CASE Push \/ RetryFailed \/ Back
  BY <1>8, SendingKeepsInv
<1>9. CASE UNCHANGED recordingVars
  <2>1. LogInv' /\ WindowInv'
    BY <1>9, SameLog, SameWindow DEF recordingVars, RecordingInv, WindowInv
  <2> QED
    BY <1>9, <2>1 DEF recordingVars, RecordingInv, FormInv
<1> QED
  BY <1>1, <1>2, <1>3, <1>4, <1>5, <1>6, <1>7, <1>8, <1>9 DEF RecordingNext

(* The window follows an open form, and games say what their forms said,   *)
(* in every state (main_window.py, detail_form.py, edit_dialog.py).        *)
THEOREM RecordingInvariance == RecordingSpec => []RecordingInv
<1>1. RecordingInit => RecordingInv
  BY RecordingInvInit
<1>2. RecordingInv /\ [RecordingNext]_recordingVars => RecordingInv'
  BY RecordingInvStep
<1> QED
  BY <1>1, <1>2, PTL DEF RecordingSpec

(* A game is saved under the kind and context its form was opened for,     *)
(* with the standings the form worked out, unless the mode was withdrawn   *)
(* or made into something else under the form.                             *)
THEOREM GamesAreSavedAsEntered == RecordingSpec => []SavedAsEntered
<1>1. ASSUME RecordingInv PROVE SavedAsEntered
  <2>1. DOMAIN log = 1..Len(log) /\ \A g \in 1..Len(log) : AsSaid(log[g], entered[g])
    BY <1>1 DEF RecordingInv, LogInv
  <2> QED
    BY <2>1 DEF SavedAsEntered, AsSaid
<1> QED
  BY <1>1, RecordingInvariance, PTL

(* The form of the web client and the one of the desktop work out the same *)
(* standings, and refuse the same but numbers out of the range that can be *)
(* typed.                                                                  *)
THEOREM BothFormsAgree == RecordingSpec => []FormsAgree
<1>1. ASSUME RecordingInv, form # Closed, NEW i \in Inputs(form)
      PROVE  \/ WebValues(form, i) = DesktopValues(form, i)
             \/ /\ WebValues(form, i) = Blank /\ form.as.kind # "rank"
                /\ OutOfRange(DesktopValues(form, i))
  <2>1. form \in Form /\ form.as \in Definition
    BY <1>1 DEF RecordingInv, FormInv, Form
  <2>2. CASE i.result = Blank
    BY <2>2, NoResultNoValues
  <2>3. CASE form.as.kind = "rank"
    BY <1>1, <2>1, <2>3, RankFormsAgree
  <2>4. CASE form.as.kind = "event_points" /\ i.result # Blank
    BY <1>1, <2>1, <2>4, PointFormsAgree
  <2>5. CASE form.as.kind = "rating" /\ i.result # Blank
    BY <1>1, <2>1, <2>5, RatingFormsAgree
  <2> QED
    BY <2>1, <2>2, <2>3, <2>4, <2>5 DEF Definition, Kinds
<1>2. RecordingInv => FormsAgree
  BY <1>1 DEF FormsAgree
<1> QED
  BY <1>2, RecordingInvariance, PTL

(* A push is refused because of a mode that was offered and is not any     *)
(* more, or of points below zero that were entered.                        *)
THEOREM RefusalsHaveReasons == RecordingSpec => RefusedForAReason
<1> DEFINE HasReason ==
        \A g \in DOMAIN log : outbox[g] = "due" /\ outbox'[g] = "failed" =>
            \E h \in DueGames : \/ Pair(log[h]) \in given \ Pairs(offered)
                                \/ entered[h].kind = "event_points" /\ Negative(entered[h].values)
<1>1. ASSUME RecordingInv, RecordingNext, NEW g \in DOMAIN log,
             outbox[g] = "due", outbox'[g] = "failed"
      PROVE  \E h \in DueGames :
                 \/ Pair(log[h]) \in given \ Pairs(offered)
                 \/ entered[h].kind = "event_points" /\ Negative(entered[h].values)
  <2>1. /\ DOMAIN log = 1..Len(log) /\ Len(outbox) = Len(log) /\ Len(log) \in Nat
        /\ outbox \in Seq({"due", "failed", "none"}) /\ log \in Seq(LoggedGame)
        /\ \A h \in 1..Len(log) :
               log[h] \in LoggedGame /\ AsSaid(log[h], entered[h]) /\ Pair(log[h]) \in given
    BY <1>1 DEF RecordingInv, LogInv
  <2>2. Push
    <3>1. outbox' # outbox
      BY <1>1
    <3>2. CASE OnConfirm
      <4>1. outbox' = Append(outbox, "due")
        BY <3>2 DEF OnConfirm
      <4>2. outbox'[g] = outbox[g]
        BY <1>1, <2>1, <4>1, AppendProperties
      <4> QED
        BY <1>1, <4>2
    <3>3. CASE SaveEdited
      <4>1. \A h \in DOMAIN outbox : outbox'[h] \in {"due", outbox[h]}
        BY <3>3 DEF SaveEdited
      <4>2. g \in DOMAIN outbox
        BY <2>1
      <4> QED
        BY <1>1, <4>1, <4>2
    <3>4. CASE RetryFailed
      BY <1>1, <3>4 DEF RetryFailed
    <3> QED
      BY <1>1, <3>1, <3>2, <3>3, <3>4
         DEF RecordingNext, SyncModes, ManageMode, SetDefaultMode, OnModeChanged, SetSyncStatus,
             ShowDetail, EditSelected, Back
  <2>3. PICK h \in DueGames : ~Takes(h)
    BY <1>1, <2>2 DEF Push
  <2>4. /\ h \in 1..Len(log) /\ log[h] \in LoggedGame /\ AsSaid(log[h], entered[h])
        /\ Pair(log[h]) \in given
    BY <2>1, <2>3 DEF DueGames, LoggedGame
  <2>5. CASE Pair(log[h]) \notin Pairs(offered)
    BY <2>3, <2>4, <2>5
  <2>6. CASE Pair(log[h]) \in Pairs(offered)
    <3>1. log[h].kind = "event_points" /\ Negative(log[h])
      BY <2>3, <2>4, <2>6 DEF Takes
    <3>2. log[h].before # Blank \/ log[h].after # Blank
      BY <3>1 DEF Negative
    <3>3. /\ entered[h].kind = log[h].kind
          /\ entered[h].values.before = log[h].before /\ entered[h].values.after = log[h].after
      BY <2>4, <3>2 DEF AsSaid
    <3>4. entered[h].kind = "event_points" /\ Negative(entered[h].values)
      BY <3>1, <3>3 DEF Negative
    <3> QED
      BY <2>3, <3>4
  <2> QED
    BY <2>5, <2>6
<1>2. RecordingInv /\ [RecordingNext]_recordingVars => [HasReason]_recordingVars
  BY <1>1
<1> QED
  BY <1>2, RecordingInvariance, PTL DEF RecordingSpec, RefusedForAReason

-----------------------------------------------------------------------------
(***************************************************************************)
(* The settings.  What is applied follows the file as long as nothing      *)
(* failed, and what was agreed with the server is its row, and whatever a  *)
(* download has still to store of it.                                      *)
(***************************************************************************)

\* What is shown and applied is what a load would find, unless one failed.
FileIsInForce ==
    ~trouble => /\ Started \/ shown # None => applied = Applied(Loaded(file))
                /\ shown # None => Loaded(file) = shown

\* What was agreed is on the server, and can be taken back as it is.
AgreedIsServed == agreed # None =>
    /\ server = agreed
    /\ \A k \in Preferences : agreed[k] \in Choices
    /\ toStore # None => toStore = agreed[Mode]

SettingsInv == SettingsTypeOK /\ FileIsInForce /\ AgreedIsServed

(* A file that can be read is loaded as it is, any other as the defaults.  *)
LEMMA LoadedType ==
    /\ Defaults \in Settings
    /\ \A f \in SettingsFiles : Loaded(f) \in Settings
    /\ \A s \in Settings : s # None /\ s \in SettingsFiles /\ Loaded(s) = s
    /\ \A s \in Settings : Applied(s) \in [Keys \ AtStart -> Choices]
<1>1. Defaults \in Settings
  BY SettingsAssumption DEF Defaults, Settings, Choices
<1>2. ASSUME NEW f \in SettingsFiles PROVE Loaded(f) \in Settings
  <2>1. CASE f = None
    BY <1>1, <2>1 DEF Loaded
  <2>2. CASE f # None
    <3>1. f \in [Keys -> Choices \cup {Odd}]
      BY <2>2 DEF SettingsFiles
    <3>2. Loaded(f) = [k \in Keys |-> IF f[k] = Odd THEN 0 ELSE f[k]]
      BY <2>2 DEF Loaded
    <3>3. \A k \in Keys : (IF f[k] = Odd THEN 0 ELSE f[k]) \in Choices
      BY <3>1, SettingsAssumption DEF Choices
    <3> QED
      BY <3>2, <3>3 DEF Settings
  <2> QED
    BY <2>1, <2>2
<1>3. ASSUME NEW s \in Settings
      PROVE  /\ s # None /\ s \in SettingsFiles /\ Loaded(s) = s
             /\ Applied(s) \in [Keys \ AtStart -> Choices]
  <2>1. s # None
    BY NoSettingsAssumption
  <2>2. \A k \in Keys : s[k] \in Choices /\ s[k] # Odd
    BY SettingsAssumption DEF Settings, Choices, Odd
  <2>3. s \in SettingsFiles
    BY <2>2 DEF SettingsFiles, Settings
  <2>4. Loaded(s) = [k \in Keys |-> s[k]]
    BY <2>1, <2>2 DEF Loaded
  <2>5. Loaded(s) = s
    BY <2>4 DEF Settings
  <2>6. Applied(s) \in [Keys \ AtStart -> Choices]
    BY <2>2 DEF Applied
  <2> QED
    BY <2>1, <2>3, <2>5, <2>6
<1> QED
  BY <1>1, <1>2, <1>3

(* A load gives what the file says, or trouble.                            *)
LEMMA LoadGives ==
    ASSUME SettingsTypeOK, NEW s \in Settings, Load(s)
    PROVE  trouble' \in BOOLEAN /\ (~trouble' => ~trouble /\ s = Loaded(file))
BY DEF Load, SettingsTypeOK

(* Whatever is committed is shown, in the file and in force, or trouble.   *)
LEMMA CommitKeeps ==
    ASSUME SettingsTypeOK, NEW s \in Settings, Commit(s)
    PROVE  /\ shown' = s /\ shown' \in Settings
           /\ file' \in SettingsFiles /\ trouble' \in BOOLEAN
           /\ applied' \in [Keys \ AtStart -> Choices] /\ applied' = Applied(shown')
           /\ ~trouble' => Loaded(file') = shown'
BY LoadedType DEF Commit, Save, SettingsTypeOK

(* The three parts hold when the program is started for the first time.    *)
LEMMA SettingsInitInv == SettingsInit => SettingsInv
<1> SUFFICES ASSUME SettingsInit PROVE SettingsInv
  OBVIOUS
<1>1. file \in SettingsFiles
  <2>1. \A v \in Choices \cup {Odd} : [k \in Keys |-> v] \in SettingsFiles
    BY DEF SettingsFiles
  <2> QED
    BY <2>1 DEF SettingsInit, SettingsFiles
<1>2. SettingsTypeOK
  BY <1>1 DEF SettingsInit, SettingsTypeOK
<1> QED
  BY <1>2 DEF SettingsInit, SettingsInv, FileIsInForce, AgreedIsServed, Started

(* What is uploaded is a row of the server, with every preference in it.   *)
LEMMA SentType ==
    ASSUME SettingsTypeOK, shown # None
    PROVE  /\ Sent \in Uploads /\ Sent \in SettingsRows /\ Sent # None
           /\ \A k \in Preferences : Sent[k] \in Choices
<1>1. shown \in [Keys -> Choices]
  BY DEF SettingsTypeOK, Settings
<1>2. DefaultMode \in Choices \cup {Odd}
  BY SettingsAssumption DEF DefaultMode, SettingsTypeOK, Choices, Odd, Unset
<1>3. \A k \in Shared : IF k = Mode THEN DefaultMode \in Choices \cup {Odd}
                                    ELSE k \in Keys /\ shown[k] \in Choices
  BY <1>1, <1>2 DEF Shared, Keys
<1>4. Sent \in Uploads
  BY <1>3 DEF Sent, Uploads
<1>5. Sent \in SettingsRows
  <2>1. [Shared -> Choices \cup {Odd}] \in {[K -> Choices \cup {Odd}] : K \in SUBSET Shared}
    OBVIOUS
  <2> QED
    BY <1>4, <2>1 DEF SettingsRows, Uploads
<1>6. \A k \in Preferences : k \in Shared /\ k # Mode /\ k \in Keys
  BY SettingsAssumption DEF Shared, Keys
<1>7. \A k \in Preferences : Sent[k] \in Choices
  BY <1>3, <1>6 DEF Sent
<1> QED
  BY <1>4, <1>5, <1>7, NoSettingsAssumption

(* What a download leaves in the window.                                   *)
Downloaded ==
    [k \in Keys |-> IF k \in Preferences /\ Taken(k) THEN server[k] ELSE shown[k]]

LEMMA DownloadedType ==
    ASSUME SettingsTypeOK, shown # None PROVE Downloaded \in Settings
<1>1. shown \in [Keys -> Choices]
  BY DEF SettingsTypeOK, Settings
<1>2. \A k \in Keys :
         (IF k \in Preferences /\ Taken(k) THEN server[k] ELSE shown[k]) \in Choices
  BY <1>1 DEF Taken
<1> QED
  BY <1>2 DEF Downloaded, Settings

(* A row of the server gives the default mode a value a column can have.   *)
LEMMA ServedMode ==
    ASSUME SettingsTypeOK, server # None, Mode \in DOMAIN server
    PROVE  server[Mode] \in Choices \cup {Odd}
<1>1. server \in SettingsRows
  BY DEF SettingsTypeOK
<1>2. PICK K \in SUBSET Shared : server \in [K -> Choices \cup {Odd}]
  BY <1>1 DEF SettingsRows
<1> QED
  BY <1>2

(* Every step keeps the types.                                             *)
LEMMA SettingsTypes == ASSUME SettingsTypeOK, SettingsNext PROVE SettingsTypeOK'
<1> USE DEF SettingsTypeOK
<1>1. CASE StartProgram
  <2>1. PICK s \in Settings : Load(s) /\ applied' = Applied(s)
    BY <1>1 DEF StartProgram
  <2> QED
    BY <1>1, <2>1, LoadGives, LoadedType DEF StartProgram
<1>2. CASE OpenWindow
  <2>1. PICK s \in Settings : Load(s) /\ shown' = s
    BY <1>2 DEF OpenWindow
  <2> QED
    BY <1>2, <2>1, LoadGives DEF OpenWindow
<1>3. CASE Close
  BY <1>3 DEF Close
<1>4. CASE EndProgram
  BY <1>4 DEF EndProgram
<1>5. CASE Change
  <2>1. PICK k \in Keys, v \in Choices : Commit([shown EXCEPT ![k] = v])
    BY <1>5 DEF Change
  <2>2. [shown EXCEPT ![k] = v] \in Settings
    BY <1>5 DEF Change, Ready, Settings
  <2> QED
    BY <1>5, <2>1, <2>2, CommitKeeps DEF Change
<1>6. CASE ResetToDefaults
  BY <1>6, CommitKeeps, LoadedType DEF ResetToDefaults
<1>7. CASE ChooseDefaultMode
  BY <1>7 DEF ChooseDefaultMode
<1>8. CASE Upload
  BY <1>8, SentType DEF Upload, Ready
<1>9. CASE UploadFails
  BY <1>9, SentType DEF UploadFails, Ready
<1>10. CASE ArrivesLate
  <2>1. Uploads \subseteq SettingsRows
    BY DEF Uploads, SettingsRows
  <2> QED
    BY <1>10, <2>1 DEF ArrivesLate
<1>11. CASE OtherUpload
  BY <1>11, SettingsAssumption DEF OtherUpload
<1>12. CASE Download
  <2>1. /\ file' \in SettingsFiles /\ applied' \in [Keys \ AtStart -> Choices] \cup {None}
        /\ shown' \in Settings \cup {None} /\ trouble' \in BOOLEAN
    <3>1. CASE Commit(Downloaded)
      BY <1>12, <3>1, DownloadedType, CommitKeeps DEF Download, Ready
    <3>2. CASE UNCHANGED <<file, applied, shown, trouble>>
      BY <3>2
    <3> QED
      BY <1>12, <3>1, <3>2 DEF Download, Downloaded
  <2>2. toStore' \in Choices \cup {Odd, None}
    BY <1>12, ServedMode DEF Download
  <2> QED
    BY <1>12, <2>1, <2>2 DEF Download
<1>13. CASE StoreMode
  BY <1>13 DEF StoreMode
<1> QED
  BY <1>1, <1>2, <1>3, <1>4, <1>5, <1>6, <1>7, <1>8, <1>9, <1>10, <1>11, <1>12, <1>13
     DEF SettingsNext

(* What is committed is in force.                                          *)
LEMMA CommitInForce ==
    ASSUME SettingsTypeOK, NEW s \in Settings, Commit(s) PROVE FileIsInForce'
<1>1. ~trouble' => Loaded(file') = shown'
  BY CommitKeeps
<1>2. applied' = Applied(shown')
  BY CommitKeeps
<1> QED
  BY <1>1, <1>2 DEF FileIsInForce

(* Every step keeps the file in force: it is read or written by load and   *)
(* save alone, and both say so when they fail.                             *)
LEMMA ForceStep == ASSUME SettingsInv, SettingsNext PROVE FileIsInForce'
<1>1. SettingsTypeOK /\ FileIsInForce
  BY DEF SettingsInv
<1>2. CASE StartProgram
  <2>1. PICK s \in Settings : Load(s) /\ applied' = Applied(s)
    BY <1>2 DEF StartProgram
  <2>2. ~trouble' => ~trouble /\ s = Loaded(file)
    BY <1>1, <2>1, LoadGives
  <2> QED
    BY <1>1, <1>2, <2>1, <2>2 DEF StartProgram, FileIsInForce
<1>3. CASE OpenWindow
  <2>1. PICK s \in Settings : Load(s) /\ shown' = s
    BY <1>3 DEF OpenWindow
  <2>2. ~trouble' => ~trouble /\ s = Loaded(file)
    BY <1>1, <2>1, LoadGives
  <2> QED
    BY <1>1, <1>3, <2>1, <2>2 DEF OpenWindow, FileIsInForce
<1>4. CASE Change
  <2>1. PICK k \in Keys, v \in Choices : Commit([shown EXCEPT ![k] = v])
    BY <1>4 DEF Change
  <2>2. [shown EXCEPT ![k] = v] \in Settings
    BY <1>1, <1>4 DEF Change, Ready, Settings, SettingsTypeOK
  <2> QED
    BY <1>1, <2>1, <2>2, CommitInForce
<1>5. CASE ResetToDefaults
  BY <1>1, <1>5, CommitInForce, LoadedType DEF ResetToDefaults
<1>6. CASE Download
  <2>1. CASE Commit(Downloaded)
    BY <1>1, <1>6, <2>1, DownloadedType, CommitInForce DEF Download, Ready
  <2>2. CASE UNCHANGED <<file, applied, shown, trouble>>
    BY <1>1, <2>2 DEF FileIsInForce, Started
  <2> QED
    BY <1>6, <2>1, <2>2 DEF Download, Downloaded
<1>7. CASE UNCHANGED <<file, applied, shown, trouble>>
  BY <1>1, <1>7 DEF FileIsInForce, Started
<1>8. CASE Close \/ EndProgram
  BY <1>1, <1>8 DEF Close, EndProgram, FileIsInForce, Started
<1> QED
  BY <1>2, <1>3, <1>4, <1>5, <1>6, <1>7, <1>8
     DEF SettingsNext, ChooseDefaultMode, Upload, UploadFails, ArrivesLate, OtherUpload, StoreMode

(* Every step keeps what was agreed, or forgets that it was: only an       *)
(* upload writes the row, and a window stores what it took before the next *)
(* one.                                                                    *)
LEMMA AgreedStep == ASSUME SettingsInv, SettingsNext PROVE AgreedIsServed'
<1>1. SettingsTypeOK /\ AgreedIsServed
  BY DEF SettingsInv
<1>2. CASE Upload
  BY <1>1, <1>2, SentType DEF Upload, Ready, AgreedIsServed
<1>3. CASE UploadFails \/ ArrivesLate \/ OtherUpload
  BY <1>1, <1>3 DEF UploadFails, ArrivesLate, OtherUpload, AgreedIsServed
<1>4. CASE Download
  BY <1>1, <1>4 DEF Download, AgreedIsServed
<1>5. CASE StoreMode \/ EndProgram
  BY <1>1, <1>5 DEF StoreMode, EndProgram, AgreedIsServed
<1>6. CASE UNCHANGED <<server, toStore, agreed>>
  BY <1>1, <1>6 DEF AgreedIsServed
<1> QED
  BY <1>2, <1>3, <1>4, <1>5, <1>6
     DEF SettingsNext, StartProgram, OpenWindow, Close, Change, ResetToDefaults, ChooseDefaultMode

(* The inductive invariant of the settings: types, a file in force unless  *)
(* a load or a save failed, and an agreement that is the server's row.     *)
THEOREM SettingsInvariance == SettingsSpec => []SettingsInv
<1>1. ASSUME SettingsInv, [SettingsNext]_settingsVars PROVE SettingsInv'
  <2>1. CASE SettingsNext
    BY <1>1, <2>1, SettingsTypes, ForceStep, AgreedStep DEF SettingsInv
  <2>2. CASE UNCHANGED settingsVars
    BY <1>1, <2>2 DEF settingsVars, SettingsInv, SettingsTypeOK, FileIsInForce, AgreedIsServed,
                      Started
  <2> QED
    BY <1>1, <2>1, <2>2
<1> QED
  BY <1>1, SettingsInitInv, PTL DEF SettingsSpec

(* After any changes, downloads, resets and restarts, what the settings    *)
(* window shows is what the program follows and what the next start will   *)
(* read, unless a load or a save failed (app_settings.py, _commit).        *)
THEOREM WindowShowsWhatHolds == SettingsSpec => []ShownIsInForce
<1>1. SettingsInv => ShownIsInForce
  <2> SUFFICES ASSUME SettingsInv, shown # None, ~trouble
               PROVE  applied = Applied(shown) /\ Loaded(file) = shown
    BY DEF ShownIsInForce
  <2> QED
    BY DEF SettingsInv, FileIsInForce
<1> QED
  BY <1>1, SettingsInvariance, PTL

(* A device gets back all the preferences it uploaded, as far as it was    *)
(* told that they were stored, and its own settings stay                   *)
(* (_apply_downloaded_preferences).                                        *)
THEOREM SettingsComeBack == SettingsSpec => UploadsComeBack
<1>1. ASSUME SettingsInv, Download
      PROVE  /\ \A k \in Device : shown'[k] = shown[k]
             /\ agreed # None => \A k \in Preferences : shown'[k] = agreed[k]
  <2>1. Downloaded \in Settings
    BY <1>1, DownloadedType DEF SettingsInv, Download, Ready
  <2>2. \/ shown' = Downloaded
        \/ shown' = shown /\ ~\E k \in Preferences : Taken(k)
    BY <1>1 DEF Download, Downloaded, Commit
  <2>3. ASSUME NEW k \in Device PROVE shown'[k] = shown[k]
    BY <2>2, SettingsAssumption DEF Downloaded, Keys
  <2>4. ASSUME agreed # None, NEW k \in Preferences PROVE shown'[k] = agreed[k]
    <3>1. k \in DOMAIN server /\ server = agreed /\ server[k] \in Choices
      BY <1>1, <2>4 DEF SettingsInv, AgreedIsServed, SettingsTypeOK, Uploads, Shared
    <3>2. Taken(k)
      BY <3>1 DEF Taken
    <3> QED
      BY <2>2, <3>1, <3>2 DEF Downloaded, Keys
  <2> QED
    BY <2>3, <2>4
<1>2. ASSUME SettingsInv, StoreMode, agreed # None PROVE mode' \in {mode, agreed[Mode]}
  BY <1>2 DEF SettingsInv, AgreedIsServed, StoreMode
<1> QED
  BY <1>1, <1>2, SettingsInvariance, PTL DEF SettingsSpec, UploadsComeBack
=============================================================================
