----------------------------- MODULE LocalReset -----------------------------
(***************************************************************************)
(* Resetting the data of an installation, and coming back after a reset    *)
(* that a crash or a failed file operation interrupted.                    *)
(* (src/mdlogger/local_reset.py, its callers in profiles.py, paths.py and  *)
(* profile_router.py, and the thread of sync.py that renews the catalogue  *)
(* of decks in the same directory.)                                        *)
(*                                                                         *)
(* Every rename, write and removal is a step of its own.  It may fail, and *)
(* the failure may come after the effect (a rename whose fsync fails); the *)
(* process may die after every step.  Files are moved in any order.        *)
(***************************************************************************)
EXTENDS Naturals, FiniteSets

CONSTANTS
    Dirs,         \* PROFILE_DIRECTORIES
    Files,        \* MANAGED_RESET_FILES
    DeckFiles,    \* those the deck thread writes
    LegacyFiles,  \* those an older installation left next to the program
    Global,       \* the directory with the profile state, one of Dirs
    NoJournal,    \* no journal
    MaxResets,    \* bound: resets
    MaxErrors,    \* bound: failing file operations
    MaxCrashes    \* bound: deaths of the process

ASSUME ResetAssumption ==
    /\ Global \in Dirs /\ Dirs \cap Files = {}
    /\ DeckFiles \subseteq Files /\ LegacyFiles \subseteq Files
    /\ {MaxResets, MaxErrors, MaxCrashes} \subseteq Nat

Names == Dirs \cup Files

VARIABLES
    fs,           \* the data directory and the staging directory in it
    job,          \* who holds data_root_lock, and where it is
    app,          \* the main window: open, closed, stuck (busy for good) or down
    known,        \* ProfileManager._state: the epoch it was read in
    deck,         \* the thread of sync_decks
    generation,   \* _BACKGROUND_SYNC_GENERATION
    left          \* what is left of the bounds

resetVars == <<fs, job, app, known, deck, generation, left>>

None == [n \in Names |-> 0]

\* A file is known by the epoch it was written in, 0 if it is not there; that
\* stands for the device and inode numbers the journal compares.
Epochs == 0..(MaxResets + 2)
Places == [Names -> Epochs]
Phases == {"precommit", "committed", "purge_pending"}
Journals == [phase : Phases, originals : Places, replacements : Places]

ASSUME JournalAssumption == NoJournal \notin Journals

NoJob == [pc |-> "idle", task |-> "none", within |-> "recover",
          journal |-> NoJournal, committed |-> FALSE]

\* The deck thread remembers the generation and the epoch it was started in.
NoDeck == [pc |-> "off", generation |-> 0, epoch |-> 0]

ResetInit ==
    /\ fs = [root |-> None, old |-> None, new |-> None, staging |-> FALSE,
             folders |-> {}, tmp |-> FALSE, journal |-> NoJournal,
             marker |-> FALSE, epoch |-> 0]
    /\ job = NoJob /\ app = "down" /\ known = 0
    /\ deck = NoDeck /\ generation = 0
    /\ left = [resets |-> MaxResets, errors |-> MaxErrors, crashes |-> MaxCrashes]

SpendOf(what) == left[what] > 0 /\ left' = [left EXCEPT ![what] = @ - 1]

-----------------------------------------------------------------------------
(* One file operation: the program goes on, or an OSError is raised with   *)
(* or without the effect.                                                  *)

At(pc) == job.pc = pc
GoOn(pc) == job' = [job EXCEPT !.pc = pc]

Op(new, pc) ==
    /\ \/ fs' = new /\ GoOn(pc) /\ UNCHANGED left
       \/ SpendOf("errors") /\ fs' \in {fs, new} /\ GoOn("raised")
    /\ UNCHANGED <<app, known, deck, generation>>

\* A step of the program that touches no file.
Think(next) ==
    /\ job' = next
    /\ UNCHANGED <<fs, app, known, deck, generation, left>>

Fail == Think([job EXCEPT !.pc = "raised"])

Present(place) == {n \in Names : place[n] # 0}
OnePlace(id, here, there) == <<here, there>> \in {<<id, 0>>, <<0, id>>}
Move(from, to, n) == [from |-> [from EXCEPT ![n] = 0], to |-> [to EXCEPT ![n] = from[n]]]

\* _write_journal: the temporary file, then the rename over journal.json.
WriteTmp(pc) == Op([fs EXCEPT !.tmp = TRUE], pc)
ReplaceJournal(journal, epoch, pc) ==
    Op([fs EXCEPT !.tmp = FALSE, !.journal = journal, !.epoch = epoch], pc)

-----------------------------------------------------------------------------
(* _discard_unpublished_reset, _recover and _discard_staging.              *)

\* (A slip: only an empty directory is taken for one.)
UnpublishedIfEmpty == fs.journal = NoJournal /\ fs.folders = {} /\ ~fs.tmp

\* Nothing but the first temporary journal was ever put there.
Unpublished == fs.journal = NoJournal /\ fs.folders = {}

Look ==
    /\ At("look")
    /\ \/ ~fs.staging /\ Think([job EXCEPT !.pc = "returned"])
       \/ /\ fs.staging /\ Unpublished
          /\ IF fs.tmp THEN Op([fs EXCEPT !.tmp = FALSE], "look")
                       ELSE Op([fs EXCEPT !.staging = FALSE], "returned")
       \/ fs.staging /\ ~Unpublished /\ fs.journal = NoJournal /\ Fail
       \/ /\ fs.staging /\ fs.journal # NoJournal
          /\ Think([job EXCEPT
                !.pc = IF fs.journal.phase = "precommit" THEN "restore" ELSE "install",
                !.journal = fs.journal])

\* All is checked before anything is moved; a check that held goes on holding
\* while the files move from one place to the other.
OriginalsFound ==
    \A n \in Present(job.journal.originals) :
        OnePlace(job.journal.originals[n], fs.root[n], fs.old[n])

Restore ==
    /\ At("restore")
    /\ \/ ~OriginalsFound /\ Fail
       \/ /\ OriginalsFound
          /\ \E n \in Present(job.journal.originals) \cap Present(fs.old) :
                LET moved == Move(fs.old, fs.root, n)
                IN  Op([fs EXCEPT !.old = moved.from, !.root = moved.to], "restore")
       \/ /\ OriginalsFound /\ Present(job.journal.originals) \cap Present(fs.old) = {}
          /\ Think([job EXCEPT !.pc = "discard"])

ReplacementsFound ==
    \A n \in Present(job.journal.replacements) :
        OnePlace(job.journal.replacements[n], fs.new[n], fs.root[n])

Install ==
    /\ At("install")
    /\ \/ ~ReplacementsFound /\ Fail
       \/ /\ ReplacementsFound
          /\ \E n \in Present(job.journal.replacements) \cap Present(fs.new) :
                LET moved == Move(fs.new, fs.root, n)
                IN  Op([fs EXCEPT !.new = moved.from, !.root = moved.to], "install")
       \/ /\ ReplacementsFound /\ Present(job.journal.replacements) \cap Present(fs.new) = {}
          /\ Op([fs EXCEPT !.marker = TRUE], "purge")

\* The phase in memory changes before the journal is written.
Purge ==
    /\ At("purge")
    /\ Think([job EXCEPT !.pc = "purge_tmp", !.journal.phase = "purge_pending"])

PurgeTmp == At("purge_tmp") /\ WriteTmp("purge_journal")
PurgeJournal == At("purge_journal") /\ ReplaceJournal(job.journal, fs.epoch, "discard")

\* rmtree removes entry by entry; the journal goes last.
RemoveEntry(folder) ==
    \E n \in Present(fs[folder]) :
        Op([fs EXCEPT ![folder] = [@ EXCEPT ![n] = 0]], "discard")

RemoveFolder(folder) ==
    /\ folder \in fs.folders
    /\ \/ RemoveEntry(folder)
       \/ Present(fs[folder]) = {} /\ Op([fs EXCEPT !.folders = @ \ {folder}], "discard")

RemoveTmp == fs.tmp /\ Op([fs EXCEPT !.tmp = FALSE], "discard")

Discard ==
    /\ At("discard")
    /\ \/ RemoveFolder("old")
       \/ "old" \notin fs.folders /\ RemoveFolder("new")
       \/ fs.folders = {} /\ RemoveTmp
       \/ /\ fs.folders = {} /\ ~fs.tmp /\ fs.journal # NoJournal
          /\ Op([fs EXCEPT !.journal = NoJournal], "discard")
       \/ /\ fs.folders = {} /\ ~fs.tmp /\ fs.journal = NoJournal
          /\ Op([fs EXCEPT !.staging = FALSE], "returned")

-----------------------------------------------------------------------------
(* reset_data, between its first recovery and the commit.                  *)

Originals == fs.root

MakeStaging ==
    /\ At("mkdir")
    /\ Op([fs EXCEPT !.staging = TRUE], "precommit_tmp")

PrecommitTmp == At("precommit_tmp") /\ WriteTmp("precommit_journal")

PrecommitJournal ==
    /\ At("precommit_journal")
    /\ ReplaceJournal(job.journal, fs.epoch, "folders")

MakeFolder ==
    /\ At("folders")
    /\ IF "old" \notin fs.folders
       THEN Op([fs EXCEPT !.folders = @ \cup {"old"}], "folders")
       ELSE Op([fs EXCEPT !.folders = @ \cup {"new"}], "move")

\* An original that is no longer what it was ends the reset.
MoveAway ==
    /\ At("move")
    /\ LET staged == Present(job.journal.originals) \ Present(fs.old) IN
       \/ \E n \in staged :
             IF fs.root[n] # job.journal.originals[n] THEN Fail
             ELSE LET moved == Move(fs.root, fs.old, n)
                  IN  Op([fs EXCEPT !.root = moved.from, !.old = moved.to], "move")
       \/ staged = {} /\ Think([job EXCEPT !.pc = "prepare"])

\* prepare(staging / "new") makes the directories of a fresh installation.
Prepare ==
    /\ At("prepare")
    /\ LET missing == Dirs \ Present(fs.new) IN
       \/ \E n \in missing :
             Op([fs EXCEPT !.new[n] = fs.epoch + 1], "prepare")
       \/ missing = {} /\ Think([job EXCEPT !.pc = "commit_tmp", !.within = "commit",
                !.journal.replacements = fs.new, !.journal.phase = "committed"])

CommitTmp == At("commit_tmp") /\ WriteTmp("commit_journal")

\* The rename that decides: from here on the new data counts.
CommitJournal ==
    /\ At("commit_journal")
    /\ ReplaceJournal(job.journal, fs.epoch + 1, "install")

-----------------------------------------------------------------------------
(* What is returned to, and the exception handlers.                        *)

Begun == [job EXCEPT !.pc = "mkdir", !.within = "prepare",
            !.journal = [phase |-> "precommit", originals |-> Originals,
                         replacements |-> None]]

Failed(committed) == [job EXCEPT !.pc = "failed", !.committed = committed]

Returned ==
    /\ At("returned")
    /\ \/ job.within = "begin" /\ Think(Begun)
       \/ job.within \in {"restore", "abort"} /\ Think(Failed(FALSE))
       \/ job.within = "commit" /\ Think([job EXCEPT !.pc = "ready"])
       \/ /\ job.within = "recover"
          /\ Think(IF job.task = "deck" THEN NoJob ELSE [job EXCEPT !.pc = "ready"])

\* (A slip: the commit failed, so the phase is taken to be what it was.)
AfterCommitFromMemory ==
    IF fs.staging /\ fs.journal # NoJournal
    THEN [job EXCEPT !.pc = "restore", !.within = "abort", !.journal = fs.journal]
    ELSE Failed(~fs.staging)

\* reset_data reads the phase back from the disk when the commit fails.
AfterCommit ==
    IF ~fs.staging THEN Failed(TRUE)
    ELSE IF fs.journal = NoJournal THEN Failed(FALSE)
    ELSE IF fs.journal.phase = "precommit"
         THEN [job EXCEPT !.pc = "restore", !.within = "abort", !.journal = fs.journal]
         ELSE Failed(TRUE)

Raised ==
    /\ At("raised")
    /\ \/ /\ job.within = "begin"
          /\ Think(Failed(job.journal # NoJournal /\ job.journal.phase # "precommit"))
       \/ job.within = "prepare" /\ Think([job EXCEPT !.pc = "look", !.within = "restore"])
       \/ job.within \in {"restore", "abort"} /\ Think(Failed(FALSE))
       \/ job.within = "commit" /\ Think(AfterCommit)
       \/ /\ job.within = "recover"
          /\ job' = NoJob
          /\ app' = CASE job.task = "start" -> "down"
                      [] job.task = "repair" -> "stuck"
                      [] OTHER -> app
          /\ deck' = IF job.task = "deck" THEN [deck EXCEPT !.pc = "done"] ELSE deck
          /\ UNCHANGED <<fs, known, generation, left>>

\* reset_local_data reads the new state if the reset counts, and the router
\* answers every error with recover_local_data.
ResetFailed ==
    /\ At("failed")
    /\ known' = IF job.committed /\ fs.root[Global] # 0 THEN fs.root[Global] ELSE known
    /\ job' = [NoJob EXCEPT !.pc = "look", !.task = "repair"]
    /\ UNCHANGED <<fs, app, deck, generation, left>>

-----------------------------------------------------------------------------
(* _migrate_legacy_data, _ensure_directories and _load_or_create_state.    *)

\* Data of an older installation belongs to the first epoch.
Migrate ==
    /\ At("ready") /\ job.task # "reset" /\ ~fs.marker
    /\ LET missing == LegacyFiles \ Present(fs.root) IN
       \/ \E n \in missing : Op([fs EXCEPT !.root[n] = 1], "ready")
       \/ missing = {} /\ Op([fs EXCEPT !.marker = TRUE], "ready")

\* A directory or a state that is missing is made anew.
Made == [n \in Names |-> IF n \in Dirs /\ fs.root[n] = 0 THEN fs.epoch + 1 ELSE fs.root[n]]

Ready ==
    /\ At("ready") /\ (fs.marker \/ job.task = "reset")
    /\ fs' = [fs EXCEPT !.root = Made, !.epoch = IF @ = 0 THEN 1 ELSE @]
    /\ known' = Made[Global] /\ app' = "open" /\ job' = NoJob
    /\ UNCHANGED <<deck, generation, left>>

NotReady ==
    /\ At("ready") /\ (fs.marker \/ job.task = "reset")
    /\ SpendOf("errors")
    /\ job' = IF job.task = "reset" THEN Failed(FALSE) ELSE [job EXCEPT !.pc = "raised"]
    /\ UNCHANGED <<fs, app, known, deck, generation>>

Steps ==
    \/ Look \/ Restore \/ Install \/ Purge \/ PurgeTmp \/ PurgeJournal \/ Discard
    \/ MakeStaging \/ PrecommitTmp \/ PrecommitJournal \/ MakeFolder \/ MoveAway
    \/ Prepare \/ CommitTmp \/ CommitJournal
    \/ Returned \/ Raised \/ ResetFailed \/ Migrate \/ Ready \/ NotReady

-----------------------------------------------------------------------------
(* The process, the user and the deck thread.                              *)

Start ==
    /\ app = "down" /\ At("idle")
    /\ job' = [NoJob EXCEPT !.pc = "look", !.task = "start"]
    /\ generation' = 0
    /\ UNCHANGED <<fs, app, known, deck, left>>

\* The user quits, or the process is killed.
Stop ==
    /\ app' = "down" /\ job' = NoJob /\ known' = 0 /\ deck' = NoDeck
    /\ UNCHANGED <<fs, generation>>

Quit == app \in {"open", "stuck"} /\ At("idle") /\ Stop /\ UNCHANGED left
Die == (app # "down" \/ ~At("idle")) /\ SpendOf("crashes") /\ Stop

\* Settings, caches and databases are written while a window is open.
Use ==
    /\ app = "open" /\ At("idle")
    /\ \E n \in Files : fs' = [fs EXCEPT !.root[n] = known]
    /\ UNCHANGED <<job, app, known, deck, generation, left>>

\* _reset_application, after the scope was closed.
Reset ==
    /\ app = "open" /\ At("idle") /\ SpendOf("resets")
    /\ app' = "closed" /\ generation' = generation + 1
    /\ job' = [NoJob EXCEPT !.pc = "look", !.task = "reset", !.within = "begin"]
    /\ UNCHANGED <<fs, known, deck>>

\* start_background_sync is called once, when the program starts.
DeckStart ==
    /\ app = "open" /\ deck.pc = "off" /\ At("idle")
    /\ deck' = [pc |-> "started", generation |-> generation, epoch |-> fs.epoch]
    /\ UNCHANGED <<fs, job, app, known, generation, left>>

\* ensure_data_dir recovers under the lock before the etag is read; the
\* catalogue is then fetched without the lock.
DeckCheck ==
    /\ deck.pc = "started" /\ At("idle")
    /\ deck' = [deck EXCEPT !.pc = "fetching"]
    /\ job' = IF fs.staging THEN [NoJob EXCEPT !.pc = "look", !.task = "deck"] ELSE job
    /\ UNCHANGED <<fs, app, known, generation, left>>

\* (A slip: the catalogue is written whatever happened during the fetch.)
AnyGeneration == TRUE

SameGeneration == deck.generation = generation

\* decks.json, then decks_sync.json; either write may fail and is swallowed.
DeckWrite ==
    /\ deck.pc = "fetching" /\ At("idle")
    /\ deck' = [deck EXCEPT !.pc = "done"]
    /\ \/ fs' = fs
       \/ /\ SameGeneration
          /\ \E written \in SUBSET DeckFiles :
                fs' = [fs EXCEPT !.root =
                        [n \in Names |-> IF n \in written THEN deck.epoch ELSE @[n]]]
    /\ UNCHANGED <<job, app, known, generation, left>>

ResetNext ==
    \/ Steps
    \/ Start \/ Quit \/ Die \/ Use \/ Reset
    \/ DeckStart \/ DeckCheck \/ DeckWrite

\* The thread that holds the lock runs, and the user starts the program again.
ResetFairness == WF_resetVars(Steps) /\ WF_resetVars(Start)

ResetSpec == ResetInit /\ [][ResetNext]_resetVars /\ ResetFairness

-----------------------------------------------------------------------------
(* Properties.                                                             *)

\* Types of the variables.
ResetTypeOK ==
    /\ fs \in [root : Places, old : Places, new : Places, staging : BOOLEAN,
               folders : SUBSET {"old", "new"}, tmp : BOOLEAN,
               journal : Journals \cup {NoJournal}, marker : BOOLEAN, epoch : Epochs]
    /\ app \in {"open", "closed", "stuck", "down"}
    /\ known \in Epochs /\ generation \in 0..MaxResets
    /\ deck \in [pc : {"off", "started", "fetching", "done"},
                 generation : 0..MaxResets, epoch : Epochs]
    /\ left \in [resets : 0..MaxResets, errors : 0..MaxErrors, crashes : 0..MaxCrashes]

\* A recovery can always tell what to do: without a journal there is nothing
\* to lose in the staging directory, and what the journal names is in exactly
\* one of its two places, whoever else writes files (the checks of _recover
\* that would give up and leave the installation unusable).
RecoveryIsUnambiguous ==
    fs.staging =>
        \/ fs.journal = NoJournal /\ fs.folders = {}
        \/ /\ fs.journal # NoJournal
           /\ \A n \in Names :
                IF fs.journal.phase = "precommit"
                THEN LET id == fs.journal.originals[n]
                     IN  id # 0 => OnePlace(id, fs.root[n], fs.old[n])
                ELSE LET id == fs.journal.replacements[n]
                     IN  id # 0 => OnePlace(id, fs.new[n], fs.root[n])

\* The data that counts: the old data as long as the journal says precommit,
\* wherever it is; the new data from the commit on.
Counts ==
    IF ~fs.staging \/ fs.journal = NoJournal THEN fs.root
    ELSE IF fs.journal.phase = "precommit"
         THEN [n \in Names |-> IF fs.old[n] # 0 THEN fs.old[n] ELSE fs.root[n]]
         ELSE [n \in Names |-> IF fs.new[n] # 0 THEN fs.new[n] ELSE fs.root[n]]

Atomic == INSTANCE AtomicReset WITH
    data <- Counts, epoch <- fs.epoch, visible <- fs.root,
    open <- (app = "open"), known <- (IF app = "open" THEN known ELSE 0)

\* A reset replaces all data at one moment: an interrupted or failed reset
\* leaves the old data or the new and never a mixture, and an application
\* that is open sees exactly that, has read the profile state that goes with
\* it and never meets files of before the reset.
ResetIsAtomic == Atomic!Spec

\* After a crash, or a failed start, the program comes up again as long as
\* the operations do not go on failing for ever; and a reset, however it ends,
\* does not keep the lock.
ComesUpAgain == app = "down" ~> app = "open"
ResetEnds == app = "closed" ~> app # "closed"

\* Both together: nobody waits for ever for a reset or after one.
ResetSettles == ComesUpAgain /\ ResetEnds
=============================================================================
