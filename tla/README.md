# A verification of MDLogger

MDLogger keeps a log of card-game matches in a SQLite database on the device.
A signed-in profile synchronises it with an account on a server (PostgreSQL
functions behind PostgREST) that other devices and a web page write to as well;
a guest profile uploads anonymous observations of its matches. Everything works
offline: the user edits at any time, a background thread brings device and
server together when it can. Around this are the things every desktop program
has and that are hard to test: profiles and migrations, imports and exports, a
sign-in with rotating tokens, a reset of the local data, an updater that
replaces the running program.

These modules model the synchronisation and what is around it. TLC checks them
on small instances; TLAPS proves what it can for all of them.

## The system

| Component | State it keeps | Operations | Talks to |
| --- | --- | --- | --- |
| `db.py` | `games` rows, `play_modes`, default and last mode | `insert_game`, `update_game`, `delete_game`; each writes the row and queues a change in one transaction | UI, sync repository (same file, other connection) |
| `game_sync/repository.py` | `remote_version`, `base_remote_payload`, `sync_status` of a row; `sync_outbox`; `sync_conflicts`; `sync_state` | `fetch_due`, `apply_push_results`, `apply_pull_batch`, `acknowledge`, `record_failure`, `retry_failed`, `get_conflict`, `resolve_conflict` | engine |
| `game_sync/engine.py` | none between calls | `run_once` (registered: register, push, pull, acknowledge; guest: upload), `resolve_conflict` | repository, clients, session manager |
| `game_sync/coordinator.py` | the thread, its wake and stop events, a queue of answers | `start`, `resume`, `request_sync`, `resolve_conflict`, `stop` | engine; signals to the UI |
| `remote/games.py`, `remote/guest_ingest.py` | none | one HTTP exchange each | server |
| `auth/session_manager.py`, `auth/credential_store.py` | session, generations, a rotation not stored yet; the keyring and its file locks | `activate`, `restore`, `session_for_sync`, `run_sync_request`, `sign_out`, `sign_out_all_devices` | account service, other programs of the same user |
| `profile_router.py`, `ui/account_views.py` | the login and settings windows with what they ask, requests under way, the conflict dialog | start, sign in and out, consent, switch, delete, import at sign-in, conflicts, reset | all of the above |
| `app_controller.py`, `profiles.py` | current profile, profile registry, update lock | `switch_profile`, `prepare_database`, `pause_for_update`, `close_for_data_reset` | coordinator, windows |
| `migrations.py` | `user_version`, backups beside the database | `migrate` | db |
| `guest_import.py`, `portable.py` | `import_batches`, archive directories | import, export | db |
| `ui/main_window.py`, `ui/detail_form.py`, `ui/edit_dialog.py` | the modes listed and the one chosen, the open form | record, edit | db, coordinator |
| `local_reset.py` | a journal and a staging directory in the data directory | `reset_data`, `recover_pending_resets` | app start, `profiles.py` |
| `sync.py` | deck cache with a generation | `sync_decks`, `invalidate` | server |
| `app_settings.py`, `remote/settings_sync.py`, `ui/settings_window.py` | `settings.json`, the window's copy, the default mode in the database, the row of `user_settings` | load, change, save, upload, download | server, other devices |
| `release_policy.py` | `release_policy_cache.json` and its temporary file | `fetch`, `load_cached_policy`, the verdict at a start | server |
| `update_controller.py`, `updater.py`, `UpdateHelper.cs` | the offer and the installer kept, job directories, two named mutexes | search, verify, offer, download, launch, authorise, cancel, acknowledge | release page, helper process, installer |
| server, games | `games` with change versions, per-account counter, create receipts, device rows, `game_modes` | `apply_game_changes`, `register_or_touch_device`, `acknowledge_device_version`, `get_record_state`, `list_game_history`, `manage_game_modes` | every client |
| server, guests | `duel_observations`, `ingestion_batches` | `ingest_guest_batch` | guest clients |
| web client | the record controller, the history page, request ids | create, update, delete with receipts; paged reads | server |

What is hard about it, and what makes each part right:

* **The user never waits for the network.** Between any two steps of a cycle the
  user may edit the very record that is being pushed, pulled, merged or asked
  about. An edit must survive until it is on the server, and a late answer must
  not be taken for an answer to a newer state.
* **Other clients write too.** A push must be refused when the row moved, a
  merge must keep both sides' columns, a conflict must be asked about, and an
  answer must not overwrite what the user did not see. A list read page by page
  must still be one list.
* **Requests and answers get lost, come late, or come after the client has
  restarted.** What the server did without the device knowing must come back as
  a page, a refusal or a receipt.
* **More than one thread and more than one program may run.** Closing a profile
  waits five seconds for the thread and does not look at whether it stopped; two
  windows share the keyring; the updater hands over between two processes.
* **The program may end at any moment**: in a reset, a migration, an import, an
  export, a refresh of a token, a download, an installation.
* **Handlers run inside handlers.** A dialog runs an event loop inside the
  handler that opened it; answers and other handlers run there, and the profile
  the outer handler goes on with may no longer be the one that is open.
* **What is offered was read in several requests.** The release page may change
  between any two of them, and the policy that may keep a version offline is
  read from a cache when the server does not answer.
* **Cursor, outbox ids and versions are counters with gaps and reuse.** The
  cursor must never pass what was not stored; an outbox id is given again when
  the table runs empty.
* **The rules for an entry are written twice**, in Python and in TypeScript, and
  modes appear and disappear while a form is open.

The list of hazards with their lines is in `PROJECT.json`.

## Modules

| Module | What it models |
| --- | --- |
| `GamePayload` | A record's synchronised columns, which of them changed, when two sides collide, their merge, and the operation queued for the result (`repository.py`). |
| `MergeCases` | One base and the independent edits of two sides, as a driver for `GamePayload`; no code of its own. |
| `GameServer` | The account on the server: `apply_game_changes` item by item with its compare-and-set, the version counter, pages, device registration and acknowledgement (migrations 0009, 0018, 0023, 0030). |
| `LocalStore` | One record on the device (row, outbox entries, conflict) and the body of every repository transaction as an operator from record to record; and `fetch_due` over the database. |
| `GameSync` | Everything together for one account: user, worker threads, server, other clients, conflict dialog, faults. Extends `GameServer` and `LocalStore`. |
| `GuestSync` | A guest profile and `ingest_guest_batch`. Extends `LocalStore`. |
| `Recording` | Modes on their way to the window, the forms of the desktop and the web, saving and editing a game, and what the server says to a batch. |
| `Transfer` | A profile's database made ready and migrated, a guest's records imported, archives written, read and damaged, beside the sync thread. |
| `Sessions` | Sign-in, restore, refresh and sign-out by several threads of several programs, the credential store and the account service. |
| `AtomicReset` | What a reset of the local data promises. |
| `LocalReset` | How it is done: journal, staging and renames, recovery, the profile registry and the deck thread. Implements `AtomicReset`. |
| `Update` | An update from the offer to the restarted program: controller, its thread, the sync worker, job files, helper, installer, mutexes. |
| `ProfileRouter` | Which profile is open: start, login window, consent, switching, deletion, reset and update, as a stack of handlers and dialogs with requests under way. |
| `Settings` | The settings file, the settings window, what the program applies, the default mode, and the row that devices and the web upload as a whole. |
| `UpdateOffer` | From the search for an update to a checked installer on the disk: `check_update`, `verify_manifest`, `download_update`, the offer. |
| `ReleasePolicy` | The lowest version that may go online, with its cache, as the starts of a program see it. |
| `WebServer` | The server as the web uses it: create receipts, reads of one snapshot, modes. Extends `GameServer`. |
| `WebRecord`, `WebHistory` | The controller of the record page and the history page. Each extends `WebServer`. |
| `Web` | Both pages, the server, other clients and an administrator. |
| `MCGameSync`, `MCSessions`, `MCSettings` | Instances for TLC: symmetry sets, which thread belongs to which window, what others upload. |
| `MCDesktop`, `MCBackground`, `MCOnline`, `MCRest`, `MCWindows` | Several modules in one run: a variable chooses which of them a behaviour is about. |
| `DesktopProofs`, `SyncProofs`, `ResetProofs`, `SessionProofs`, `RouterProofs`, `UpdateProofs`, `WebProofs`, `GuestProofs` | Theorems and lemmas, see below. |

### Where the code's state went

**Synchronisation.**

* `local[g].row` is the row of `games`: `rv` is `remote_version` (0 for null),
  `base` is `base_remote_payload`. `local[g].box` holds its rows of
  `sync_outbox`, `local[g].conflict` those of `sync_conflicts` (`n` counts them).
  `cursor` is `sync_state.last_pulled_version`.
* `worker[w]` is a run of `_registered_cycle` or of a conflict request: `pc`
  names the exchange it is in, `reply` the answer it has received but not used.
  One step is one exchange on the server or one transaction on the device, which
  is how the code interleaves: every transaction is `BEGIN IMMEDIATE` or a
  single statement, and `apply_game_changes` holds an advisory lock.
* `blamed` are the changes of the cycle's first attempt: after a token refresh
  the code fetches again but records failures against the first list.
* `dialog` is the open `ConflictDialog` together with the answer in the
  coordinator's queue: `busy` from submit to completion.
* `late` holds requests whose client has given up on them.
* `games`, `clock`, `acked`, `past` are the server's rows, counter, device
  acknowledgement and (history only) every version it ever stored.

**Sessions.** A session is its refresh token, a token a number. `mem[w]` holds
the fields of a window's `SessionManager`: `logouts` and `activations` are its two
generations, `rotation` the token the server gave that could not be stored,
`refreshing` the thread the others wait for. `keyring` is the credential store,
`lease` its refresh lock per account, `store` its transaction lock. A thread asks
the server with no lock but the lease held, and decides under the locks what the
answer is still worth, as the code does. An answer that is cut off (`CutOff`) leaves
`_refresh` with an exception that is no `AuthError`: the server may have rotated the
token, the lease is given back, and neither a state nor a backoff is set.

**Reset.** `fs` is the data directory: what is in its places, in the staging
directory's `old` and `new`, the journal and its temporary file. A file is known
by the epoch it was written in, which stands for the device and inode numbers of
the journal. `job` is the call that holds `data_root_lock`, `job.pc` the file
operation it is at. Each rename, write, removal is a step that may fail before
or after its effect, and the process may die between any two.

**Profiles.** `profile` is `current_profile`, `store` the state file and the
copy `ProfileManager` works with, `session` the account of the session manager
and whether it is signed in, `keyring` the accounts with a token. `stack` holds the handlers
that have begun: a frame is a window that waits or code that runs, only the last
one moves, and `alive` says whether its window still exists. `pending[r]` is a
thread of `_run_async` and whether its answer is still wanted. `confirmed` is
history: the accounts that signed in here.

**Settings.** `file` is `settings.json`, `shown` the `_settings` of the window,
`applied` what theme, animations and form follow, `mode` the column of the
database, `toStore` the mode a download still has to store, `server` the row,
`late` an upload whose sender gave up. `trouble` and `agreed` are history.

**Offer.** `offer` are the fields of `UpdateController`, `thread` its thread with
the step it is at, `dirs` the directories of the update cache, `expired` the
manifests whose signature is no longer valid; `broken` is history.

**Policy.** `row` is the row of `release_policies`, `start` where a start is and
what decided it (`from`, `by`), `cache` and `tmp` are the two files. `may` and `served`
are history. A query ends in one of three ways: an answer (`Fetch`), a failure that
`fetch` turns into no policy, after which the cache decides (`FallBack`), or an
exception that only `app.py` catches and that decides for going online (`FetchRaises`).

**Update.** `ui` are the fields of `UpdateController`, `task` its thread and the
completion it will post, `jobs` the files of a job directory, `helper` where the
helper of a job is, `mutex` the holders of the two named mutexes, `fresh` the
programs started meanwhile.

**Web.** `rec` and `hist` are the state and refs of the two React components;
`reads` the requests whose answer is still wanted (a superseded one is forgotten
at once, which is what comparing `reading.current` does); `write` the one the
page awaits, `late` those it no longer awaits. A game's number is its place in the
order of the lists, which nothing the pages write can change. `active` are the active
rows of `game_modes`, one of an id, with context and kind in one value; an
administrator adds, redefines, brings back and takes away any of them
(`ManageModes`). `hist.filter` is the id of a mode, and its context is looked up among
the modes that were last fetched, as in the page. `moved` and `told.reopened` are
history.

**Transfer.** `db[p]` is a profile's database, `bak[p]` its backups with the
newest last, `legacy` the database of the versions without profiles, `dirs[a]` an
archive, `job` what the UI thread is at. A transaction is a step; files are
written one by one.

**Recording.** `offered[m]` is the row of `game_modes` of a mode: kind, context and
whether it is active; an administrator may change each of them, or delete the row
(`ManageMode`). `playModes` is the cache of these rows, `window` the active ones the window
lists and the chosen one, `given` (history) every kind and context the device was ever
offered. `form` is the open form, `log` the
games and `outbox` their newest changes. The two rule sets for standings are
functions of a form and an input: `DesktopValues` and `WebValues`.

### Abstractions

Each of them keeps the control of the code.

* A payload is a function from columns to values. `deleted_at` is a column of
  its own with three values: none, a timestamp of the device, a timestamp of the
  server. Two different timestamps are equivalent in a merge and different in an
  exact comparison, as in the code.
* `next_retry_at` and `attempt_count` become `due`, `waiting`, `never`; a waiting
  change becomes due by `Elapse`.
* Two outbox snapshots are equal when their contents are; the code compares the
  same JSON.
* The remote payload of a conflict that is closed is not read again and is
  reset, so that states do not differ by it.
* Records that insert an outbox row in one transaction take consecutive ids in
  the order the code walks them (`Place`). This is exact unless an earlier row of
  the same page empties the outbox of the record that holds the highest id; the
  ids are then smaller in the code, in the same order.
* A field the user leaves undecided in a reloaded dialog cannot be submitted, so
  it is not a value of an answer. Drafts kept across a reload from "the server
  has no record" are kept only as a whole.
* One rejected item makes the code fail the whole batch; a rejected batch is one
  step (`RejectCycle`).
* A deletion without a known version is sent as delete-if-exists with no
  compare-and-set. That is the code's design, and the properties except it.
* `Sessions`: `sign_out_all_devices` and `delete_account` take the same steps.
* `Update`: the stage "check" is part of the download; the calls the code makes
  only from the UI thread are steps of the UI. A completion whose generation
  does not match does not occur, since the controller starts one thread at a
  time.
* `Web`: one page is opened in a behaviour (`uses`); the other page's writes are
  another client's. Every mode has a context, as `manage_game_modes.py` requires.
* `ReleasePolicy`: an answer that breaks off (`IncompleteRead`) and a minimum at which
  `parse_version` raises (a digit that `int` does not take) both let a start go online
  without a look at the cache. The first is `FetchRaises`; the second is part of
  the first when it is met in an answer, and never gets into the cache.
* `Transfer`: `Uploaded` sends all that is queued and `Pulled` brings one record:
  partial sends, refusals and conflicts are `GameSync`'s. The two checksums are
  compared by content. Standings are not part of a record's content, since the
  signature of a guest import leaves them out. One old file is met in a
  behaviour. Files are not lost after they were written: power failures and
  fsync are out. That the newest backup is the last by time assumes a clock that
  does not go back.
* `Recording`: conflicts and pages are `GameSync`'s; a deletion is not repeated
  here. Records without a kind (from old databases) are left out: no form makes
  one. The numbers that may be typed are those from 0 to `MaxNumber` (9,999,999 in the
  code). The desktop's validator asks this of what is typed only: a form is filled
  with `setText` and read with `int`, so a game that is edited keeps a sum outside the
  range, which `NumberInputs` has. The web asks it of every number of the form
  (`Parsed`). `FormOf` is what is in the desktop's form at first; the web's leaves a
  missing number empty where the desktop writes 0, and goes on from there alike.

## Runs

Bounds are CONSTANTS and named after what they bound: outbox ids, edits,
changes of other clients, faults, answers. All of them are spent in guards, so a
property is checked for every order in which they can be spent.

| Run | Instance | What it shows |
| --- | --- | --- |
| `fields` | 1 record, 2 fields, 1 thread, 2 edits, 2 other changes, 1 fault, 1 answer | The core properties where merging by field matters. Two edits put one before and one during a cycle; two other changes make a refused change be refused again. |
| `online` | `GameSync` with 1 thread, 3 records (one held by another account), batches of 2, 1 field, 2 edits, 1 other change, 1 fault, 2 answers; `UpdateOffer` with 3 releases, 2 builds, 2 downloads; `ReleasePolicy` with 2 versions and 1 day | Conflicts without a server row, an answer that goes stale and is given again, versions inside a batch. Of three releases one is run, one is offered and one comes meanwhile. |
| `workers` | 2 threads, 1 record, 1 field, 2 edits, 1 other change, 1 fault, 1 answer | A thread that outlives its profile beside a new one. |
| `rest` | `GameSync` with 1 thread, 1 record, 2 edits, 1 other change, 1 fault, 1 answer; `LocalReset` with 2 directories, 2 files, 2 resets, 3 failing operations, 1 crash; fairness of both | Liveness of the synchronisation. The refinement of `AtomicReset`, recovery, and that a reset ends. A second reset meets what the first left behind. |
| `background` | `GuestSync` with 2 records, a refused value, 3 edits, 1 fault; `Update` with 2 jobs, 2 faults; fairness | The guest upload and the installation. Two downloads, so that an old job and its helper meet a new one. |
| `desktop` | `MergeCases` with 2 fields and 3 values; `Transfer` with 2 records, 1 account, 1 archive, schema versions up to 3, 1 edit, 1 page, 1 fault; `Recording` with a mode for event points that may become one for a rating, one for ranks that may be added above it, 2 games, 1 edit, 2 decisions; `Settings` with 2 exchanged keys, 1 of the device, 2 values | Merges, records on the move, entry and settings. Three values are enough for base, mine and theirs to differ in a field; 2 tiers with 1 division reach both ends of the rank ladder. |
| `sessions` | 2 windows, 3 threads, 1 account, 2 tokens, 1 fault, 1 act, fairness | Refreshes shared by two threads of one window and by two windows, with sign-outs and failures at every step. |
| `windows` | `Web` with 3 games (2 there before), pages of 1, 2 modes, 1 create, and 1 edit beside 1 event of others or 2 decisions on modes (`Bounds`); `ProfileRouter` with 2 accounts and 2 requests | What stands before the user. Pages of one row make every boundary a page boundary; two decisions take a mode away and bring it back, as what it was or as another; two requests are a stale answer and a current one. |
| `deleted_answer`, `guest_reused_batch`, `policy_outage`, `settings_mode` | 1 record each; the policy of `online`; the settings of `desktop` | The four disagreements below. |

`desktop`, `background`, `online`, `rest` and `windows` put modules together that share
no state and no step: a migration or an import is work of the UI thread during which no
form can be used, a merge is inside a transaction, the settings have a file of
their own, a guest's upload and an installation exclude each other in the code
(`pause_for_update`), the release policy is asked for before anything else is begun,
a reset closes the profile first, and the web page is another program. A variable (`uses`,
`works`, `runs`, `does`) chooses one, so that a run checks the sum, not the product, of
their states; the parts that do not move are in a fixed initial state, in which no
fair step of theirs is possible, so that the fairness of `rest` asks nothing of them.

In `windows` a value of `Mode` is a context of its own (`OneKind`), so that the kind
of a mode changes only with its context. The theorems hold for any `ContextOf`.

`policy_outage` and `settings_mode` check for deadlock. The other instances set
`CHECK_DEADLOCK FALSE`: with answers to conflicts the endless refusals of
`deleted_answer` use up `MaxOutboxId`, after which the bounded model stops
although the program would not; a program whose data could not be recovered
(`stuck`), a guest with nothing queued, a program that was
updated, a window that is signed out and a page nobody clicks on really do rest.

Symmetry is declared only in runs without liveness properties, over sets whose
elements the actions and properties do not tell apart.

### Properties

Synchronisation:

* `NoEditForgotten`: the newest queued change carries the row as it is, and a row
  with nothing queued and no open conflict is what the device last knew the
  server to have.
* `BaseIsAncestor`: the base of the next merge is what the server stored as that
  version of that record.
* `CursorCovers`: nothing at or below the cursor is missing on the device.
* `AckBehindCursor`: what a device tells the server about its progress is true.
* `UnsentEditsSurvive`: sync never changes a column that holds an unsent edit.
* `PushChangesOnlyOwnColumns`: an accepted push changes no column the device did
  not change.
* `AnswerIsToWhatWasShown`: a conflict is settled by what the user saw and chose
  (a deletion chosen of a record the server lacks keeps the row's other columns).
* `ChangesAreStampedAhead`: versions are handed out in order.
* `MergeKeepsBothSides`: an automatic merge has every change of both sides.
* `EverythingComesToRest`, `AnswersAreTaken`: liveness.
* `UploadsAreReflected`, `WithdrawnStaysWithdrawn`, `UploadsSettle`: a guest's
  record with nothing left to send is on the server as the user left it, apart
  from the two ways that the history variable `outrun` records (a batch taken
  for an earlier one, an older request that came late); a withdrawal is final;
  and nothing is uploaded again and again on its own.

Sessions:

* `SignedOutStaysSignedOut`: after a sign-out no refresh or login that was under
  way brings the session or its token back.
* `TokenPresentedIsNewest`: nobody presents a refresh token whose successor is
  stored, held, or on its way into the store; the service would end every
  session of the account.
* `OfflineEnds`: an account that went offline is tried again until it is known
  what became of its session (or the bound on tokens is used up).

Reset:

* `ResetIsAtomic`: `LocalReset` implements `AtomicReset`. The mapping reads off
  the files which epoch counts: before the commit of the journal the old files,
  wherever they have been moved; after it the new ones. `visible` is what really
  is in the directory, and must be what counts while the program is open.
* `RecoveryIsUnambiguous`: whatever was interrupted, every file of the epoch that
  counts is in exactly one place, and recovery never has to choose.
* `ResetSettles`: liveness. After an end of the program it comes up again
  (`ComesUpAgain`), and a reset does not keep the lock (`ResetEnds`).

Profiles:

* `ProfilesAreRightful`: whichever way a profile was opened, left, deleted or
  reset, a stored token belongs to a registered account (`TokensAreKnown`), what
  is open has consent (`OpensWithConsent`), only an account that signed in here
  is opened without a login (`OnlyConfirmedReopen`), the session is that of the
  profile (`SessionIsTheProfiles`), a question on the screen is about the profile
  that is open (`QuestionsAreAboutTheOpenProfile`), and nothing is opened after a
  reset that could not be recovered (`NothingOpensUnrecovered`).
* `BusyMeansARequest`: a login form that is disabled has a request out that will
  enable it, or is about to be shown anew.
* `UpdateHoldsProfile`: while an update is installed the profile stays.

Update:

* `PolicyIsEnforced`: a start without the server goes online only if a policy that
  may be the last one stored lets it (`OutageNeverUnblocks`), and a version is kept
  offline only by a minimum above it that the server once had (`BlockedForAReason`).
  A start that an exception decided is excepted, see `policy_outage`.
* `OffersAreSound`: an installer on the disk is the one a signed manifest beside it
  names (`InstallersAreSigned`), what is offered is newer than the program
  (`OffersAreNewer`), the installer that is kept is that of the version on screen
  (`KeepsWhatIsOffered`), and a download that failed leaves nothing
  (`NothingHalfIsLeft`).
* `InstallationIsGuarded`: what is installed was approved by a program that was
  quiet and has exited (`InstallsWhatWasApproved`, `QuietWhenApproved`), and nothing
  writes meanwhile (`NoProgramDuringInstallation`).
* `UpdatesEnd`: liveness. Sync goes on when nothing came of an update
  (`SyncGoesOn`), and in the end there is a program or a message
  (`ComesBackOrTells`).

Web:

* `SavesAreToldAsTheyWent`: what the user is told of a save is so, when its answer
  was lost and it was asked for again. The exception is a refused game whose mode is
  brought back while a copy of its creation is on its way (`told.reopened`).
* `HistoryIsOneSnapshot`: pages read one by one are one list of the filter's context.
  The exception is a list that came with modes that give its filter another context
  (`moved`), until a whole list is read again.
* `OnlyWhatWasShownIsChanged`: undo, edit and deletion hit the version on screen.
* `NextGameStartsFromOwnWrites`: the form starts from standings that have the
  page's own last write.
* `LoadingWaitsForAnAnswer`: a page that says it is loading has a request out. The
  exception is a filter that is changed for one of the same context
  (`TurnsToTheSame`).

Desktop:

* `SavedAsEntered`: a game is saved under the kind and context and with the standings
  of the form it was entered in, unless its mode was withdrawn or redefined under
  the form (`gone`).
* `RefusedForAReason`: the server refuses a batch only for a kind and context that was
  offered and is not any more, or for points the user entered below zero.
* `FormsAgree`: desktop and web make the same standings of the same input. The
  exception are standings out of the range that can be typed, which the desktop works
  out or keeps and the web refuses.
* `WhatIsToldHolds`: an import that is skipped as done was done
  (`ToldRecordsAreThere`), and under the name of an archive there is a complete one
  or none (`ArchivesAreWhole`).
* `DatabasesAreKept`: an import changes nothing that is there (`ImportsOnlyAdd`), and
  no database is migrated unless the newest backup beside it is of what it held
  (`BackupBeforeMigration`).
* `PendingIsQueued`: a row is marked for the server if and only if it has a queued
  change, through migrations, imports, edits, uploads and pages.
* `ShownIsInForce`: what the settings window shows is what the form and the theme
  follow and what the next start will read, unless a load or a save failed.
* `UploadsComeBack`: a device that downloads the settings it uploaded gets all of
  them back and keeps what is its own.

### Fairness

`GameSync` and `GuestSync` assume that the worker loop goes on, that the server
answers and that a retry time comes: weak fairness of each thread's cycle, of
carrying out an answer that was taken, and of `Elapse`. Faults are bounded, so
"the server answers" means that it answers in the end. Taking an answer needs
strong fairness: the loop empties the queue once before each cycle, and an answer
put there just afterwards waits for the next round, so taking it is not
continuously possible, only again and again. Nothing is assumed of the user,
other clients, or requests that were given up. `AtRest` excepts records deleted
on both sides, which the finding `deleted_answer` keeps busy. `UploadsSettle` is
stated with `[]<>`, not `<>[]`: a user may ask for a retry of a refused upload as
often as they like.

`Sessions`: threads that are inside a call go on (a request has a timeout), the
workers ask for a token again and again (the loop of the coordinator), and a
backoff passes. `LocalReset`: file operations return, and a program that was started or
closed goes on; failures are bounded. `Update`: the worker leaves once told, the
controller's thread, the posted completion, the helper and the programs it starts
go on; the user need not do anything. `Web`, `Transfer`, `Recording`, `Settings`,
`ProfileRouter`, `UpdateOffer` and `ReleasePolicy` state no fairness: `LoadingWaitsForAnAnswer` and `BusyMeansARequest` say in terms of steps and states
what a liveness property would need an assumption on the network for.

## Where code and documentation disagree

Found by a run:

* `deleted_answer`: a user who keeps a deleted version with the device's fields
  of a record that is also deleted on the server gets a delete that the server
  always refuses and the client always queues again, without a pause between
  the cycles. The chosen values never arrive.
* `guest_reused_batch`: a guest's edit or withdrawal of a record that was
  uploaded alone gets the same outbox id and hence the same batch id; the server
  answers as it did the first time and stores nothing. Needs no fault. The
  privacy policy and the terms of service say guests' edits and withdrawals
  must reach the server. A refused first batch makes the same id be refused.
* `policy_outage`: the comment at `app.py:89` says that a query that fails leaves the
  decision to the last cache. An answer that breaks off raises an exception that
  neither `remote/client.py` nor `fetch` takes for a failed query; `app.py:92` catches
  it and goes online, also when the cached policy blocks this version.
* `settings_mode`: `get_default_mode` (`db.py:439`) makes the text `None` of the NULL
  of a new database; a device on which no default mode was chosen uploads it, and
  its own settings window selects no option.

Met on the way, excepted in a property or left to this list:

* An edit made after the push of a cycle was acknowledged can get the id of the
  acknowledged change; a later failure of the same cycle is recorded against the
  edit (`record_failure` matches by id alone). A comment at `repository.py:799`
  says ids in progress are not reused. The edit is only delayed.
* A create that arrives after the delete-if-exists that was meant to undo it
  brings the record back with the next pull. `test_sync_engine.py:498` describes
  the order in which the create comes first.
* A form that outlives its mode (the sync thread brings a list without it and the
  window falls back to another mode, or a list with another kind or context for it) is
  saved under the window's new mode, and
  its standings are dropped if the kinds differ (`main_window.py:221`);
  `SavedAsEntered` excepts it by `gone`.
* `detail_form.py` only warns of event points below zero and the test at
  `test_score_input_mode.py:182` says they can be saved; `0002_games.sql:36`
  forbids them, and the web form refuses them. The refused game takes its whole
  batch with it, on every retry: `RefusedForAReason` names the reason,
  `FormsAgree` excepts negative numbers.
* The desktop refuses to let a number above 9,999,999 be typed (`_int_line`), and yet
  saves a greater one that a sum came to or that an edit starts from
  (`detail_form.py:632`, `:669`); `formModel.ts:64` refuses it. `FormsAgree` excepts
  these too.
* The history page fetches modes with the first page of a list. If they give its
  filter another context (the mode was withdrawn, brought back or redefined), the list
  that came with them is shown although it was read for the old one. "Load more" appends
  rows of the new context to it when the first page, which is then read again, does not
  arrive, or when the user asks for more first, which supersedes that read
  (`HistoryPage.tsx:94`, `:136`): `HistoryIsOneSnapshot` excepts it by `moved`.
* Choosing a history filter of the same context empties the list and says it is
  loading, but the effect that reads does not run, since the context did not change
  (`HistoryPage.tsx:121`). The page loads until it is left:
  `LoadingWaitsForAnAnswer` excepts it by `TurnsToTheSame`.
* A save that was refused for its mode lets go of its request id. If the
  administrator brings the mode back while an earlier copy of the creation is still on
  its way, the copy is stored after the user was told that it was refused:
  `SavesAreToldAsTheyWent` excepts it by `told.reopened`.
* A history edit whose answer was lost and that is sent again is reported as a
  conflict with the user's own write. Nothing is lost by it.
* The helper that waits 120 seconds for a program that was told to exit gives up
  without a message; `ComesBackOrTells` excepts it by `gave_up`. A program started
  between its look at the helper's mutex and the acquisition of its own is left to
  the installer's own mutex check (`fresh.early`).
* When leaving a profile fails, the router shows the error
  (`profile_router.py:908`) with neither a main window nor a login window left.
* `0012_release_policy.sql:19` says that only a policy with a later `effective_at`
  than the cached one applies; neither the query nor the client compares it.
* `reset_data` may report that nothing was committed when only its staging
  directory could not be removed. The next start removes it.

## Proofs

All theorems hold for every finite set of records, any sets of fields, values
and threads, and any bounds. The assumptions are the named ASSUMEs of the
modules: that a sentinel (`Absent`, `Blank`, `Nothing`, `None`, `Nobody`) is none of the
values it stands in for, that `deleted_at` is not a field, that the set of records is
finite, that directories are no files, that the guest is no account, and that the
bounds are numbers.

* `SyncProofs` begins with the operators of `LocalStore`: each makes a record of a
  record, and one that is in the database stays there (`Held`, `WellFormed`:
  entries and conflicts belong to a row that exists), one lemma per transaction.
  Then come three inductive invariants, each on top of the one before.
  * `TypeInv`. `TypeOK` alone is not inductive: that an acknowledgement yields a
    `Row` needs that a worker's entries came from rows that are still there, that
    its reply answers the changes it sent, that a dialog shows a payload of a record
    in the database. `ChangesAreStampedAhead` is a step property of the server.
  * `AckInv`, for `AckBehindCursor`: a thread holds the version it is about to
    acknowledge between its pull and its acknowledgement, so `AckInv` adds that
    such a version is at most the cursor. It stays true when other threads pull
    because `PulledAhead` makes the cursor only grow, and `TypeInv` says that no page
    is ahead of the server's counter.
  * `SyncInv`, for everything else. It relates the device to `past`, what the server
    has ever stored. `RecordsInv`: of a record, the newest queued change is the row
    as it is and a deletion is the last (`BoxSound`); with nothing queued the row is
    what its base says (`RestSound`); an open conflict shows a row the server had, or
    is about a record of another account (`ConflictSound`); the version of a row is
    one the server gave (`VersionSound`). `BoundTo` is what makes bases ancestors: a
    change carries version and base together, and the server stored that base as
    that version. It does not hold of a deleted row at rest, whose base may be newer
    than its version, because deleting what is deleted is acknowledged without a
    version; hence it is stated of rows with a queue and of others in `RestSound`.
    `EntrySound` adds that a change deletes exactly if its payload is deleted, so
    that what the server writes is the payload that was sent. `HistoryInv`: versions
    are unique, within the clock, and the server shows no record of another account.
    `ThreadsInv`: what a thread holds was sound when it was read and stays so
    (`RepliesFit`), and a page leaves out nothing between the version it was asked
    from and its last row (`PageComplete`), which is what lets the cursor jump; what
    the server writes later has versions beyond every page. `FetchInv` is the same of
    the row a dialog is about.

  `NoEditForgotten`, `BaseIsAncestor` and `CursorCovers` are parts of `SyncInv` or
  follow from it. `UnsentEditsSurvive`, `PushChangesOnlyOwnColumns` and
  `AnswerIsToWhatWasShown` are step properties: the steps that write a row, that the
  server accepts, that settle a conflict are taken one by one under the invariant.
  The attempt to prove `AnswerIsToWhatWasShown` showed that an earlier form of it
  was false, which the bounds of the run had not reached: a deletion chosen where
  the server has no record keeps the other columns of the row
  (`repository.py:430`). The property now says so.
* `DesktopProofs`, merges: the three properties follow from the definitions
  column by column; the lemmas say which columns a merge may differ in.
* `DesktopProofs`, transfers: the inductive `TransferInv`. The properties are not inductive,
  because each step of an import, an export or a migration relies on an earlier
  one: a record the user was told of may be skipped only because a batch of the
  database names it, a migration finds its backup only because nothing wrote to
  the file since it was made. So `TransferInv` says what is true of every file
  (`SoundFile`: rows agree with the outbox, batches with the rows) and, step by
  step, what the work in hand may rely on (`JobInv`, `ImportInv`, `BackupInv`,
  `ExportInv`). The sync thread writes only to the profile that is open, which is
  another one than the profile being prepared, or is kept out by the lock.
* `DesktopProofs`, forms: the inductive `RecordingInv`. `SavedAsEntered` needs that an
  open form has standings of its mode's kind and that the window still has the
  form's mode, as it was, unless that was withdrawn or redefined. `RefusedForAReason`
  needs that what the log says of kind and context was offered to the device.
  `FormsAgree` quantifies over every input, so it is a proof by cases on kind, style
  and button; `LeastNumber`, which
  the choice of a default mode needs, comes from `WellFoundedInduction`.
* `DesktopProofs`, settings: the inductive `SettingsInv` relates the window, the
  program, the file and the row of the server. `FileIsInForce` says that while no
  load or save failed, what runs is what the file says, also with the window closed,
  for the window reads the file anew; `AgreedIsServed` that an upload that was told
  to be stored is the row, and that a default mode still to be stored came from it.
* `ResetProofs`: the inductive `ResetInv`, and that `LocalReset` implements
  `AtomicReset`. A crash keeps the disk and forgets everything else, so the
  invariant is mostly about the disk alone (`SoundDisk`): before the commit every
  original is in one of two places and what is made can be thrown away
  (`OldCounts`), from the commit on every replacement is (`NewCounts`).
  `JournalDecides` then gives what counts as a function of the journal, so that a
  rename of a file changes nothing and the rename of the journal changes all.
  `Position` says what a step in progress relies on, `AppInv` and `DeckInv` that
  the deck thread writes only beside an open application of its own generation,
  `BudgetInv` that epochs stay in their bounds. Each step is a `Rearrange` of the
  abstract reset but the commit (`Replace`), the migration (`Found`), the end of a
  start (`Open`), writes (`Write`) and closing (`Close`).
* `SessionProofs`: the inductive `SessionInv` of sign-ins, refreshes and sign-outs.
  `SignedOutStaysSignedOut` is not inductive: what keeps an answer from bringing a
  session back is that its thread is behind a counter. `ThreadFits` says so of a
  thread (a refresh with the manager's `logouts` is of its account; a login with
  both counters is of an account nobody signed out of), `ManagerFits` of a window
  (an account it was signed out of is `blocked`, unless a restart forgot it, and
  then the profile state does not open it), `ErasedInv` of the keyring. One lemma,
  `OneThread`, shows that a step of one thread keeps the others behind.
  `TokenPresentedIsNewest` rests on two more parts. `LeaseInv`: of the threads of a
  window one refreshes (`refreshing`), and it, or a rotation that waits to be
  stored, holds the lease of its account; hence an account has one of them.
  `ChainInv`: a token's successor is later and of the same account, what a login
  stores is nobody's successor, and the token a thread is about to present has no
  successor in the keyring (`MayPresent`), since only the lease lets one in.

* `RouterProofs`: the inductive `RouterInv`. A handler that has begun goes on with
  what it read before its dialog, so the invariant is about the stack: where a
  frame may stand in it (`StackFits`), what a frame may rely on when it runs again
  (`StackRelies`), that a reset beyond recovery opens nothing (`SealedIsDead`), that
  an update lets nothing else begin (`UpdateIsQuiet`), and that what the state file
  says is enough to start from, since a crash leaves nothing else
  (`StoreIsStartable`, `OffIsClosed`). `ProfileIsConfirmed` is why a profile opened
  without a login was signed in to before. One lemma per handler.
* `UpdateProofs`: three inductive invariants. `PolicyInv`: the cache is a whole
  policy that the server once had, or none (`CacheIsWhole`), and a start that is kept
  offline carries a policy above its version (`StartIsDecided`). `OfferInv`: what a thread has verified
  stays verified although the page changes (`ThreadIsChecked`), a directory fills in
  one order (`DirectoryIsFilled`), a dialog has a plan (`DialogHasPlan`). `UpdateInv`
  follows the hand-over: the thread the controller waits for is there
  (`ThreadIsAwaited`), the worker is paused from the approval on
  (`WorkerStaysPaused`), an approval names the job that was downloaded and holds
  until its helper has read it (`ApprovalHolds`), a job has one helper
  (`OneHelperPerJob`), and two helpers, or a helper and a program, keep each other out
  by the two mutexes (`HelperIsAlone`, `ProgramsKeepAway`).
* `WebProofs`: the inductive `WebInv`, in eight parts. Types come first: `TypeOK` does
  not say what a read or its answer is, `TypeInv` does. `ServerInv` relates the rows to
  `past` and the clock, so that the snapshot a read answers from is the clock.
  `PagesInv`: a revision under way names the version that was shown, and that is not 0,
  which would mean any version. `CreationsInv`: a creation that the page knows of, or
  that is still on its way, has a game and a request of its own, and its game is there
  only with its receipt; hence a repetition finds the receipt or is the first.
  `ToldInv` is why a refusal is final: the page has given the creation up, so what is
  left of it are copies on their way (`RefusedGame`), and each is `Dead`: its game and
  its receipt are not there, and no active mode admits it. A decision on the modes
  that admits a copy makes its game one of `told.reopened`, and nothing else brings a
  refused game back. `FormInv`: what the form
  starts from, and every answer to come, is at least as new as the last confirmed
  write. `WaitInv`: a form that loads has nothing that a load could lose, so a visit
  never cancels a load and starts none. `HistoryInv`: what is on screen is the list of
  a version down to its cut (`IsList`), and a read under way asks for the page below it
  (`ReadFits`). `PageIsList` shows that the server answers with a list, `ListsJoin`
  that two lists that meet are one, `ListsStay` that later writes change no list of an
  earlier version. A list that is
  `moved` is left out, as in the property: `listed` is the only way the context of a
  page changes without its list being emptied.

* `GuestProofs`: the inductive `GuestInv`. `UploadsAreReflected` speaks of a record
  with nothing left to send; what makes it true then was decided while it was still
  queued. `RecordInv`: the newest queued change is the row as it is, and deletes
  exactly if that is deleted. `UploadInv`: what is being uploaded is still queued, but
  for when it is tried again (`Same`), so an answer takes off the queue what was sent
  and nothing newer. `ReplyInv`: what the server said it took shows in its
  observation, unless the user changed the record since, or its change was taken for
  an old batch or overtaken (`outrun`). `GoneInv`: what is withdrawn, or is about to
  be by a batch on its way, is deleted on the device, and the program does not undo a
  deletion; hence an upsert that comes last meets no withdrawal. The steps that only
  say when a change is tried again have one lemma (`QuietStep`).

`MergeIsSymmetric`, `MergeIsQueuedAsWhatItIs` and `AcknowledgementNeverRegresses`
are proved and no longer checked by a run.

Only model-checked: liveness (`EverythingComesToRest`, `AnswersAreTaken`,
`UploadsSettle`, `OfflineEnds`, `ResetSettles`, `UpdatesEnd`), which needs ENABLED and is beyond TLAPS as used here.

## Not modelled

* Pure formatting and I/O: `export.py`, `remote/client.py`, parsing of answers,
  widgets, themes, statistics and charts.
* Settings: the values a key may have, beyond valid, default and odd ones;
  environment detection.
* Server: row level security, grants, the analytics trigger, deletion and
  pseudonymisation of accounts, rate windows, pruning of batches after 90 days,
  the deck catalogue's function.
* Decks: the merge of downloaded names with local ones, and `load_decks`, which
  seeds `decks.json` from the UI thread while the deck thread may write it.
* Sessions: a window that switches to a guest profile while a rotation is kept
  holds its lease until it ends; a `CredentialStoreError` of `delete_account`, which
  the router does not catch.
* Update: parsing the manifest, the arithmetic of signatures and digests, the size
  limits of a download. Of a release policy the notice and the address only.
* Profiles: ownership marks of a database, permissions of files. Archives: limits
  of size and the names of directories. `restore_backup` is called by tests only.
* The build, release and licence scripts, and vendored code.

## Plan

1. An abstract specification of synchronisation (a register per record that
   clients read and compare-and-set) that `GameSync` implements.
2. The seeding of decks beside a reset.
