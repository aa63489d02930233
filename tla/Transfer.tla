------------------------------ MODULE Transfer ------------------------------
(***************************************************************************)
(* Records on the move between databases: the database of a profile made   *)
(* ready and migrated (profiles.py, migrations.py), a guest's records      *)
(* taken into an account at sign-in (guest_import.py), and portable        *)
(* archives written and read (portable.py).                                *)
(*                                                                         *)
(* All of this is work of the one UI thread, step by step on files and     *)
(* transactions, and ends with the process at any moment.  Beside it the   *)
(* sync thread of the open profile writes to the same database.            *)
(***************************************************************************)
EXTENDS Integers

CONSTANTS
    Records,        \* ids of records (sync_id)
    Contents,       \* what a record says, but for the standings
    Unfit,          \* contents of old records that an archive does not take
    Accounts,       \* registered profiles of this device
    Archives,       \* archives (archive_id)
    Nothing,        \* no row, no file, no profile
    Latest,         \* LATEST_SCHEMA_VERSION
    MaxTransferEdits,   \* bound: changes the user makes
    MaxPulls,           \* bound: records that arrive from the server
    MaxTransferFaults   \* bound: failures, crashes, damaged archives

\* The schema version that brought the sync columns and the outbox.
SyncVersion == 2

ASSUME TransferAssumption ==
    /\ Unfit \subseteq Contents
    /\ "guest" \notin Accounts
    /\ Latest \in Nat /\ Latest >= SyncVersion
    /\ {MaxTransferEdits, MaxPulls, MaxTransferFaults} \subseteq Nat

VARIABLES
    db,      \* db[p]: the database of profile p
    bak,     \* bak[p]: the backup files beside it, the newest and the older ones
    legacy,  \* the database of the versions without profiles
    dirs,    \* dirs[a]: the directory of archive a
    open,    \* the profile that is open
    job,     \* the work of the UI thread
    told,    \* history: records the user was told a profile has
    left     \* what is left of the bounds

transferVars == <<db, bak, legacy, dirs, open, job, told, left>>

Guest    == "guest"
Profiles == Accounts \cup {Guest}

\* ProfileKind.
KindOf(p) == IF p = Guest THEN Guest ELSE "registered"

\* A row of games; status and queue, the row's changes in the outbox, count
\* from SyncVersion on.
Row(content) == [content |-> content, deleted |-> FALSE, status |-> "pending", queue |-> 1]
Raw(content) == [content |-> content, deleted |-> FALSE, status |-> Nothing, queue |-> 0]

DatabaseRow ==
    [content : Contents, deleted : BOOLEAN, status : {"pending", "synced", Nothing}, queue : Nat]

\* What an import or an archive says of the records, Nothing where there is none.
Snapshots == [Records -> Contents \cup {Nothing}]
Rows      == [Records -> DatabaseRow \cup {Nothing}]

ImportBatch == [kind : {Guest, "registered"}, archive : Archives \cup {Nothing}, sum : Snapshots]

DatabaseFile == [version : Nat, rows : Rows, batches : SUBSET ImportBatch]

ASSUME NothingAssumption ==
    Nothing \notin DatabaseRow \cup DatabaseFile \cup Contents \cup Profiles

NoRows == [g \in Records |-> Nothing]

Database(version, rows) == [version |-> version, rows |-> rows, batches |-> {}]

\* Databases of older versions, and of a newer one, that this version may meet.
OldDatabases ==
    {Database(1, rows) : rows \in [Records -> {Nothing} \cup {Raw(c) : c \in Contents}]}
NewerDatabase == Database(Latest + 1, NoRows)

Backup(d) == [from |-> d.version, rows |-> d.rows]
NoBackup  == [newest |-> Nothing, older |-> {}]

\* The live records of a database, as an export or an import takes them.
Live(d) == [g \in Records |-> IF d.rows[g] = Nothing \/ d.rows[g].deleted
                              THEN Nothing ELSE d.rows[g].content]
In(records) == {g \in Records : records[g] # Nothing}

\* _validate_record, of every record.
AllFit(records) == \A g \in In(records) : records[g] \notin Unfit

NoSource == [kind |-> Nothing, archive |-> Nothing, records |-> NoRows, sum |-> NoRows]
NoJob    == [step |-> "none", profile |-> Nothing, purpose |-> Nothing, source |-> NoSource]

\* One old file is met in a behaviour: the legacy database or an account's,
\* which an earlier migration may have left a backup of.
TransferInit ==
    /\ \/ \E d \in {Nothing, NewerDatabase} \cup OldDatabases, older \in BOOLEAN :
            /\ legacy = Nothing
            /\ older => d \in OldDatabases
            /\ db  = [p \in Profiles |-> IF p = Guest THEN Nothing ELSE d]
            /\ bak = [p \in Profiles |->
                         IF p # Guest /\ older
                         THEN [NoBackup EXCEPT !.newest = Backup(Database(0, NoRows))]
                         ELSE NoBackup]
       \/ /\ legacy \in OldDatabases
          /\ db  = [p \in Profiles |-> Nothing]
          /\ bak = [p \in Profiles |-> NoBackup]
    /\ dirs = [a \in Archives |-> Nothing]
    /\ open = Nothing /\ job = NoJob /\ told = {}
    /\ left = [edits |-> MaxTransferEdits, pulls |-> MaxPulls, faults |-> MaxTransferFaults]

Pay(what) == left[what] > 0 /\ left' = [left EXCEPT ![what] = @ - 1]

At(step) == job.step = step
Current  == db[job.profile]
Go(step) == job' = [job EXCEPT !.step = step]

-----------------------------------------------------------------------------
(* A profile's database is made ready: prepare_database and migrate.       *)

\* The user chooses a profile, or signs in and leaves a guest's records alone.
ChooseProfile(p) ==
    /\ At("none") /\ open # p
    /\ job' = [NoJob EXCEPT !.step = "prepare", !.profile = p, !.purpose = "open"]
    /\ UNCHANGED <<db, bak, legacy, dirs, open, told, left>>

\* A guest who signs in takes the records along.
ChooseImport(p) ==
    /\ At("none") /\ open = Guest /\ p \in Accounts
    /\ In(Live(db[Guest])) # {}
    /\ job' = [NoJob EXCEPT !.step = "prepare", !.profile = p, !.purpose = "import"]
    /\ UNCHANGED <<db, bak, legacy, dirs, open, told, left>>

\* copy_database_via_backup: the copy gets its name when it is whole.
FirstDatabase(p) ==
    IF p = Guest /\ legacy # Nothing THEN legacy ELSE Database(0, NoRows)

\* A missing file is copied from the legacy database, for the guest, or made.
Prepare ==
    /\ At("prepare")
    /\ db' = IF Current # Nothing THEN db
             ELSE [db EXCEPT ![job.profile] = FirstDatabase(job.profile)]
    /\ Go("check")
    /\ UNCHANGED <<bak, legacy, dirs, open, told, left>>

CheckVersion ==
    /\ At("check")
    /\ \/ Current.version = Latest /\ Go("ready")
       \/ Current.version > Latest /\ job' = NoJob
       \/ Current.version = 0      /\ Go("migrate")
       \/ Current.version \in 1..(Latest - 1) /\ Go("backup")
    /\ UNCHANGED <<db, bak, legacy, dirs, open, told, left>>

\* _create_verified_backup: written under another name, put in place at once.
\* A backup of the same version is replaced.
WriteBackup ==
    /\ At("backup")
    /\ bak' = [bak EXCEPT ![job.profile] =
          [newest |-> Backup(Current),
           older  |-> {b \in @.older \cup ({@.newest} \ {Nothing}) : b.from # Current.version}]]
    /\ Go("retain")
    /\ UNCHANGED <<db, legacy, dirs, open, told, left>>

\* _retain_backups: BACKUP_RETENTION is 1.
Retained(backups) == [backups EXCEPT !.older = {}]

Retain ==
    /\ At("retain")
    /\ bak' = [bak EXCEPT ![job.profile] = Retained(@)]
    /\ Go("migrate")
    /\ UNCHANGED <<db, legacy, dirs, open, told, left>>

\* Step 2 marks the rows but leaves the outbox empty.
MigratedUnqueued(d) ==
    [d EXCEPT !.version = Latest,
              !.rows = [g \in Records |->
                  IF d.version >= SyncVersion \/ @[g] = Nothing THEN @[g]
                  ELSE [@[g] EXCEPT !.status = "pending"]]]

\* The steps up to the latest version, committed together.  Step 2 gives every
\* row an id, a status and an entry of the outbox; the others add columns.
Migrated(d) ==
    [d EXCEPT !.version = Latest,
              !.rows = [g \in Records |->
                  IF d.version >= SyncVersion \/ @[g] = Nothing THEN @[g]
                  ELSE Row(@[g].content)]]

Migrate ==
    /\ At("migrate")
    /\ db' = [db EXCEPT ![job.profile] = Migrated(@)]
    /\ Go("ready")
    /\ UNCHANGED <<bak, legacy, dirs, open, told, left>>

\* switch_profile: the old scope is closed only now.
Open ==
    /\ At("ready") /\ job.purpose = "open"
    /\ open' = job.profile /\ job' = NoJob
    /\ UNCHANGED <<db, bak, legacy, dirs, told, left>>

-----------------------------------------------------------------------------
(* Records are taken in: import_guest_records, import_portable_archive.    *)

\* The snapshot of the guest's database that the import works on.
Snapshot ==
    /\ At("ready") /\ job.purpose = "import"
    /\ LET records == Live(db[Guest])
       IN  job' = [job EXCEPT !.step = "begin",
                     !.source = [kind |-> Guest, archive |-> Nothing,
                                 records |-> records, sum |-> records]]
    /\ UNCHANGED <<db, bak, legacy, dirs, open, told, left>>

Files == 3   \* records.ndjson, manifest.json and checksums.sha256

\* _read_archive: all files there, and the records fit and those of the checksum.
Readable(d) ==
    d # Nothing /\ d.written = Files /\ d.records = d.sum /\ AllFit(d.records)

ReadArchive(a) ==
    /\ At("none") /\ open # Nothing
    /\ Readable(dirs[a]) /\ dirs[a].published
    /\ job' = [step |-> "begin", profile |-> open, purpose |-> "archive",
               source |-> [kind |-> dirs[a].kind, archive |-> a,
                           records |-> dirs[a].records, sum |-> dirs[a].sum]]
    /\ UNCHANGED <<db, bak, legacy, dirs, open, told, left>>

Batch(source) == [kind |-> source.kind, archive |-> source.archive, sum |-> source.sum]

\* Any import from the same kind of profile.
SameKind(b, source) == b.kind = source.kind /\ b.archive = source.archive

\* _completed_batch_matches.
SameBatch(b, source) == b = Batch(source)

\* The user is told that the records are there now, or were before.
Tell == told' = told \cup {<<job.profile, g>> : g \in In(job.source.sum)}

\* After the import a guest goes on into the account.
Finish ==
    job' = IF job.purpose = "import"
           THEN [NoJob EXCEPT !.step = "prepare", !.profile = job.profile, !.purpose = "open"]
           ELSE NoJob

\* BEGIN IMMEDIATE, which keeps the sync thread out, and a look for the batch.
Begin ==
    /\ At("begin")
    /\ \/ /\ \E b \in Current.batches : SameBatch(b, job.source)
          /\ Tell /\ Finish
       \/ /\ ~\E b \in Current.batches : SameBatch(b, job.source)
          /\ Go("insert") /\ UNCHANGED told
    /\ UNCHANGED <<db, bak, legacy, dirs, open, left>>

\* An insertion that replaces what is there.
ImportedOver(rows, records) ==
    [g \in Records |-> IF records[g] # Nothing THEN Row(records[g]) ELSE rows[g]]

\* Records the database has, deleted ones included, are skipped.
Imported(rows, records) ==
    [g \in Records |-> IF rows[g] = Nothing /\ records[g] # Nothing
                       THEN Row(records[g]) ELSE rows[g]]

\* The records and the row of import_batches, committed together.
WithBatch(d, source) == [d EXCEPT !.rows    = Imported(@, source.records),
                                  !.batches = @ \cup {Batch(source)}]

Insert ==
    /\ At("insert")
    /\ db' = [db EXCEPT ![job.profile] = WithBatch(@, job.source)]
    /\ Tell /\ Finish
    /\ UNCHANGED <<bak, legacy, dirs, open, left>>

-----------------------------------------------------------------------------
(* Records are written to an archive: export_portable_archive.             *)

\* Written to a directory of another name.
Staged(records) ==
    [published |-> FALSE, written |-> 0, kind |-> KindOf(open), records |-> records, sum |-> records]

\* One record that does not pass refuses the whole export.
StartExport(a) ==
    /\ At("none") /\ open # Nothing /\ dirs[a] = Nothing
    /\ LET records == Live(db[open])
       IN  /\ In(records) # {} /\ AllFit(records)
           /\ dirs' = [dirs EXCEPT ![a] = Staged(records)]
    /\ job' = [NoJob EXCEPT !.step = "export", !.purpose = "export", !.source.archive = a]
    /\ UNCHANGED <<db, bak, legacy, open, told, left>>

WriteFile ==
    /\ At("export") /\ dirs[job.source.archive].written < Files
    /\ dirs' = [dirs EXCEPT ![job.source.archive].written = @ + 1]
    /\ UNCHANGED <<db, bak, legacy, open, job, told, left>>

\* Read back like any archive, and renamed.
Publish ==
    /\ At("export") /\ Readable(dirs[job.source.archive])
    /\ dirs' = [dirs EXCEPT ![job.source.archive].published = TRUE]
    /\ job' = NoJob
    /\ UNCHANGED <<db, bak, legacy, open, told, left>>

-----------------------------------------------------------------------------
(* What goes wrong.                                                        *)

\* A step fails: the transaction is rolled back and a directory that is being
\* written is removed.  What was open stays open, unless it was closed already
\* for the profile that was to take its place.
GiveUp ==
    /\ ~At("none") /\ Pay("faults")
    /\ open' \in IF At("ready") /\ job.purpose = "open" THEN {open, Nothing} ELSE {open}
    /\ job' = NoJob
    /\ dirs' = IF At("export") THEN [dirs EXCEPT ![job.source.archive] = Nothing] ELSE dirs
    /\ UNCHANGED <<db, bak, legacy, told>>

\* The process is killed.  Transactions roll back; files stay.
Killed ==
    /\ Pay("faults")
    /\ open' = Nothing /\ job' = NoJob
    /\ UNCHANGED <<db, bak, legacy, dirs, told>>

\* A record is lost from an archive that was kept somewhere.
Damage(a) ==
    /\ dirs[a] # Nothing /\ dirs[a].published
    /\ \E g \in In(dirs[a].records) : dirs' = [dirs EXCEPT ![a].records[g] = Nothing]
    /\ Pay("faults")
    /\ UNCHANGED <<db, bak, legacy, open, job, told>>

-----------------------------------------------------------------------------
(* The user and the sync thread on the open database.                      *)

\* No profile, file or archive has the record: ids are random.
Unused(g) ==
    /\ \A p \in Profiles : db[p] # Nothing => db[p].rows[g] = Nothing
    /\ \A a \in Archives : dirs[a] # Nothing => dirs[a].sum[g] = Nothing
    /\ legacy # Nothing => legacy.rows[g] = Nothing

Edited(row, content, deleted) ==
    [content |-> content, deleted |-> deleted, status |-> "pending", queue |-> row.queue + 1]

\* insert_game, update_game and delete_game.
Enter(g) ==
    LET row == db[open].rows[g]
    IN  /\ At("none") /\ open # Nothing /\ Pay("edits")
        /\ \/ \E c \in Contents \ Unfit :
                /\ Unused(g)
                /\ db' = [db EXCEPT ![open].rows[g] = Row(c)]
           \/ /\ row # Nothing /\ ~row.deleted
              /\ \/ \E c \in Contents \ Unfit :
                       db' = [db EXCEPT ![open].rows[g] = Edited(@, c, FALSE)]
                 \/ db' = [db EXCEPT ![open].rows[g] = Edited(@, @.content, TRUE)]
        /\ UNCHANGED <<bak, legacy, dirs, open, job, told>>

\* The import holds the write lock of the open database.
Locked == At("insert") /\ job.profile = open

\* What is queued was sent (GameSync and GuestSync have it in full).
Uploaded ==
    /\ open # Nothing /\ ~Locked
    /\ \E g \in In(db[open].rows) : db[open].rows[g].queue > 0
    /\ db' = [db EXCEPT ![open].rows = [g \in Records |->
            IF @[g] = Nothing THEN Nothing ELSE [@[g] EXCEPT !.status = "synced", !.queue = 0]]]
    /\ UNCHANGED <<bak, legacy, dirs, open, job, told, left>>

\* A record of the account arrives from another device.
Pulled(g) ==
    /\ open \in Accounts /\ ~Locked /\ Pay("pulls")
    /\ db[open].rows[g] # Nothing => db[open].rows[g].queue = 0
    /\ \E c \in Contents \ Unfit, deleted \in BOOLEAN :
          db' = [db EXCEPT ![open].rows[g] =
                    [content |-> c, deleted |-> deleted, status |-> "synced", queue |-> 0]]
    /\ UNCHANGED <<bak, legacy, dirs, open, job, told>>

TransferNext ==
    \/ \E p \in Profiles : ChooseProfile(p) \/ ChooseImport(p)
    \/ Prepare \/ CheckVersion \/ WriteBackup \/ Retain \/ Migrate \/ Open
    \/ Snapshot \/ Begin \/ Insert
    \/ \E a \in Archives : ReadArchive(a) \/ StartExport(a) \/ Damage(a)
    \/ WriteFile \/ Publish \/ GiveUp \/ Killed
    \/ \E g \in Records : Enter(g) \/ Pulled(g)
    \/ Uploaded

TransferSpec == TransferInit /\ [][TransferNext]_transferVars

-----------------------------------------------------------------------------
(* An import changes nothing the database has, whatever the source says of *)
(* it and however often it is repeated: a record edited since stays as it  *)
(* is, one deleted since stays deleted, and every record that comes in is  *)
(* live in the source and queued once for the server (_insert_record,      *)
(* _insert_imported_game).                                                 *)
ImportsOnlyAdd ==
    [][At("insert") =>
        \A p \in Profiles, g \in Records :
            db[p] # Nothing /\ db'[p] # db[p] /\ db'[p].rows[g] # db[p].rows[g] =>
                \/ p # job.profile
                \/ /\ db[p].rows[g] = Nothing
                   /\ job.source.sum[g] # Nothing
                   /\ db'[p].rows[g] = Row(job.source.sum[g])]_transferVars

(* Once the user was told that records were taken in, or had been before,  *)
(* every one of them is in the database: an import is skipped only for     *)
(* records that are there, and a truncated archive never passes for the    *)
(* exported one (_completed_batch_matches, _verify_checksums).             *)
ToldRecordsAreThere ==
    \A t \in told : db[t[1]] # Nothing /\ db[t[1]].rows[t[2]] # Nothing

(* Whenever the process ends, under the name the user gave there is either *)
(* no archive or a complete one (export_portable_archive).                 *)
ArchivesAreWhole ==
    \A a \in Archives : dirs[a] # Nothing /\ dirs[a].published => dirs[a].written = Files

(* What is to be sent is queued, and what is queued is to be sent: a row   *)
(* that came through a migration or an import without an entry of the      *)
(* outbox would never reach the server, and one marked as sent with an     *)
(* entry left would be overwritten by the next page.                       *)
PendingIsQueued ==
    \A p \in Profiles, g \in Records :
        db[p] # Nothing /\ db[p].version = Latest /\ db[p].rows[g] # Nothing =>
            (db[p].rows[g].status = "pending" <=> db[p].rows[g].queue > 0)

(* No database with records is brought to a newer schema unless the newest *)
(* backup beside it holds what it held, whatever was interrupted before    *)
(* and whatever older backups were there (migrate, _retain_backups).       *)
BackupBeforeMigration ==
    [][\A p \in Profiles :
          db[p] # Nothing /\ db[p].version > 0 /\ db'[p].version > db[p].version =>
              bak'[p].newest = Backup(db[p])]_transferVars

\* Both of the files: what the user was told is there, and what stands under
\* the name of an archive is one (import_dialog, export_portable_archive).
WhatIsToldHolds == ToldRecordsAreThere /\ ArchivesAreWhole

\* Both of the databases: nothing they hold is lost, to an import or to a
\* migration (_insert_record, migrate).
DatabasesAreKept == ImportsOnlyAdd /\ BackupBeforeMigration
=============================================================================
