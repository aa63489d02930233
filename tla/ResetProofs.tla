---------------------------- MODULE ResetProofs ----------------------------
(***************************************************************************)
(* The properties of LocalReset for any directories and files and any      *)
(* number of resets, errors and crashes; above all that it implements      *)
(* AtomicReset.                                                            *)
(*                                                                         *)
(* ResetInv is inductive.  A crash may leave any disk a step can leave, so *)
(* most of it is about the disk alone (SoundDisk): what a journal says     *)
(* determines what counts, whatever was moved so far.  The rest says where *)
(* on such a disk the program may be, and that whoever else writes files   *)
(* does so only when nothing is being reset.                               *)
(***************************************************************************)
EXTENDS LocalReset, TLAPS

Disk == [root : Places, old : Places, new : Places, staging : BOOLEAN,
         folders : SUBSET {"old", "new"}, tmp : BOOLEAN,
         journal : Journals \cup {NoJournal}, marker : BOOLEAN, epoch : 0..(MaxResets + 1)]

\* What a fresh installation of an epoch has.
Fresh(epoch) == [n \in Names |-> IF n \in Dirs THEN epoch ELSE 0]

Precommit(d) == d.journal # NoJournal /\ d.journal.phase = "precommit"
Committed(d) == d.journal # NoJournal /\ d.journal.phase # "precommit"

\* Before the commit each original is in one of two places, and what is made
\* for the new installation can be thrown away.
OldCounts(d) ==
    /\ \A n \in Names : OnePlace(d.journal.originals[n], d.root[n], d.old[n])
    /\ \A n \in Dirs : d.journal.originals[n] = d.epoch
    /\ \A n \in Names : d.new[n] \in {0, Fresh(d.epoch + 1)[n]}

\* From the commit on each replacement is, and the originals can be.
NewCounts(d) ==
    /\ d.journal.replacements = Fresh(d.epoch)
    /\ \A n \in Names : OnePlace(d.journal.replacements[n], d.new[n], d.root[n])

\* Without a journal nothing is set aside.
NothingAside(d) ==
    /\ d.folders = {}
    /\ d.epoch = 0 => \A n \in Names : d.root[n] \in {0, 1}
    /\ d.epoch > 0 => \A n \in Dirs : d.root[n] = d.epoch

SoundDisk ==
    {d \in Disk :
        /\ ~d.staging => d.journal = NoJournal /\ ~d.tmp
        /\ d.staging => d.epoch > 0
        /\ d.epoch > 0 => d.marker
        /\ "old" \notin d.folders => d.old = None
        /\ "new" \notin d.folders => d.new = None
        /\ d.journal = NoJournal => NothingAside(d)
        /\ Precommit(d) => OldCounts(d)
        /\ Committed(d) => NewCounts(d)}

\* The steps of a reset up to the commit, and those of an end of recovery.
Preparing == {"mkdir", "precommit_tmp", "precommit_journal"}
Journaled == {"folders", "move", "prepare"}
Deciding  == {"commit_tmp", "commit_journal"}
Purging   == {"purge", "purge_tmp", "purge_journal"}
Upcoming  == Preparing \cup Journaled \cup Deciding
Busy      == Upcoming \cup Purging \cup
             {"look", "restore", "install", "discard", "returned", "raised", "failed", "ready"}

Job == [pc : Busy \cup {"idle"},
        task : {"none", "start", "reset", "repair", "deck"},
        within : {"recover", "begin", "prepare", "restore", "abort", "commit"},
        journal : Journals \cup {NoJournal}, committed : BOOLEAN]

\* What job j may rely on, on disk d.
Position(j, d) ==
    /\ j.pc \in {"returned", "ready", "mkdir"} => ~d.staging
    /\ j.pc \in Preparing =>
          /\ d.journal = NoJournal /\ d.epoch > 0
          /\ j.journal = [phase |-> "precommit", originals |-> d.root, replacements |-> None]
    /\ j.pc \in {"precommit_tmp", "precommit_journal"} => d.staging
    /\ j.pc \in Journaled \cup {"restore"} => Precommit(d) /\ j.journal = d.journal
    /\ j.pc = "move" => d.folders = {"old", "new"}
    /\ j.pc = "prepare" => d.folders = {"old", "new"} /\ d.root = None
    /\ j.pc \in Deciding =>
          /\ Precommit(d) /\ d.root = None /\ d.new = Fresh(d.epoch + 1)
          /\ d.folders = {"old", "new"} /\ j.within = "commit"
          /\ j.journal = [d.journal EXCEPT !.phase = "committed", !.replacements = d.new]
    /\ j.pc = "install" => Committed(d) /\ j.journal = d.journal
    /\ j.pc \in Purging =>
          /\ Committed(d) /\ d.new = None
          /\ j.journal \in {d.journal, [d.journal EXCEPT !.phase = "purge_pending"]}
    /\ j.pc = "discard" =>
          /\ d.staging
          /\ Precommit(d) => d.old = None
          /\ Committed(d) => d.new = None

\* An open application has the installation to itself, and what was running
\* when it was closed is either gone or of an older generation.
AppInv ==
    /\ app \in {"open", "closed", "stuck", "down"}
    /\ known \in Epochs
    /\ At("idle") => job = NoJob
    /\ app = "open" => At("idle") /\ ~fs.staging /\ fs.epoch > 0 /\ known = fs.epoch
    /\ app = "down" => deck = NoDeck
    /\ job.task = "start" => app = "down"
    /\ job.task = "deck" => app # "down"

DeckInv ==
    /\ generation \in 0..MaxResets
    /\ deck \in [pc : {"off", "started", "fetching", "done"},
                 generation : 0..MaxResets, epoch : Epochs]
    /\ deck.generation <= generation
    /\ deck.pc \in {"started", "fetching"} /\ SameGeneration =>
          app = "open" /\ deck.epoch = fs.epoch

\* A reset that was paid for, and has not taken effect, has an epoch left.
BudgetInv ==
    /\ left \in [resets : 0..MaxResets, errors : 0..MaxErrors, crashes : 0..MaxCrashes]
    /\ fs.epoch + left.resets <= MaxResets + 1
    /\ generation + left.resets <= MaxResets
    /\ job.task = "reset" \/ job.within = "begin" => fs.epoch > 0
    /\ job.within = "begin" \/ job.pc \in Upcoming => fs.epoch + left.resets <= MaxResets

ResetInv ==
    /\ fs \in SoundDisk /\ job \in Job /\ Position(job, fs)
    /\ AppInv /\ DeckInv /\ BudgetInv

-----------------------------------------------------------------------------
(* Disks, and what counts on them.                                         *)

(* A fresh installation, and none, are files of some epochs.               *)
LEMMA FreshPlaces ==
    /\ None \in Places
    /\ \A e \in 0..(MaxResets + 1) : Fresh(e + 1) \in Places /\ Fresh(e) \in Places
    /\ \A n \in Names : None[n] = 0
BY ResetAssumption DEF Places, Epochs, None, Fresh

\* Counts, of any disk.
Data(d) ==
    IF ~d.staging \/ d.journal = NoJournal THEN d.root
    ELSE IF d.journal.phase = "precommit"
         THEN [n \in Names |-> IF d.old[n] # 0 THEN d.old[n] ELSE d.root[n]]
         ELSE [n \in Names |-> IF d.new[n] # 0 THEN d.new[n] ELSE d.root[n]]

(* The journal says what counts, wherever the files are.                   *)
LEMMA JournalDecides ==
    ASSUME NEW d \in SoundDisk
    PROVE  /\ d \in Disk
           /\ d.journal = NoJournal => Data(d) = d.root
           /\ Precommit(d) => d.staging /\ d.journal \in Journals /\ Data(d) = d.journal.originals
           /\ Committed(d) => d.staging /\ d.journal \in Journals /\ Data(d) = d.journal.replacements
<1>1. d \in Disk /\ (d.journal = NoJournal => Data(d) = d.root)
  BY DEF SoundDisk, Data
<1>2. d.journal # NoJournal => d.staging /\ d.journal \in Journals
  BY <1>1 DEF SoundDisk, Disk
<1>3. ASSUME Precommit(d) PROVE Data(d) = d.journal.originals
  <2>1. \A n \in Names : OnePlace(d.journal.originals[n], d.root[n], d.old[n])
    BY <1>3 DEF SoundDisk, OldCounts
  <2>2. Data(d) = [n \in Names |-> IF d.old[n] # 0 THEN d.old[n] ELSE d.root[n]]
    BY <1>2, <1>3 DEF Precommit, Data
  <2>3. d.journal.originals \in [Names -> Epochs]
    BY <1>2, <1>3 DEF Precommit, Journals, Places
  <2> QED
    BY <2>1, <2>2, <2>3 DEF OnePlace
<1>4. ASSUME Committed(d) PROVE Data(d) = d.journal.replacements
  <2>1. \A n \in Names : OnePlace(d.journal.replacements[n], d.new[n], d.root[n])
    BY <1>4 DEF SoundDisk, NewCounts
  <2>2. Data(d) = [n \in Names |-> IF d.new[n] # 0 THEN d.new[n] ELSE d.root[n]]
    BY <1>2, <1>4 DEF Committed, Data
  <2>3. d.journal.replacements \in [Names -> Epochs]
    BY <1>2, <1>4 DEF Committed, Journals, Places
  <2> QED
    BY <2>1, <2>2, <2>3 DEF OnePlace
<1> QED
  BY <1>1, <1>2, <1>3, <1>4 DEF Precommit, Committed

-----------------------------------------------------------------------------
(* Steps of the program that leave what counts as it is.                   *)

(* Behind an application that is not open such a step is a Rearrange.      *)
LEMMA Quiet ==
    ASSUME app # "open", app' # "open", fs'.epoch = fs.epoch, Data(fs') = Data(fs)
    PROVE  Atomic!Rearrange
BY DEF Atomic!Rearrange, Counts, Data

(* A file operation keeps the invariant, whether it fails or not, if its   *)
(* effect leaves a sound disk and the place it goes on at fits the disk.   *)
LEMMA OpKeepsResetInv ==
    ASSUME ResetInv, ~At("idle"), NEW new \in SoundDisk, new.epoch = fs.epoch,
           NEW pc \in Busy, Position([job EXCEPT !.pc = pc], new),
           pc \in Upcoming => job.pc \in Upcoming,
           Op(new, pc)
    PROVE  ResetInv' /\ fs' \in {fs, new} /\ app # "open" /\ UNCHANGED <<app, known>>
<1> DEFINE after == [job EXCEPT !.pc = pc]
           raised == [job EXCEPT !.pc = "raised"]
<1>1. job \in Job /\ fs \in SoundDisk /\ app # "open" /\ new \in Disk /\ fs \in Disk
  BY JournalDecides DEF ResetInv, AppInv
<1>2. /\ fs' \in SoundDisk /\ fs' \in {fs, new} /\ fs'.epoch = fs.epoch
      /\ UNCHANGED <<app, known, deck, generation>>
      /\ \/ job' = after /\ fs' = new /\ UNCHANGED left
         \/ job' = raised /\ SpendOf("errors")
  BY <1>1 DEF Op, GoOn
<1>3. job' \in Job /\ job'.pc \in {pc, "raised"} /\ job'.task = job.task /\ job'.within = job.within
  BY <1>1, <1>2 DEF Job, Busy
<1>4. Position(job', fs')
  <2>1. CASE job' = raised
    BY <1>1, <2>1 DEF Position, Job, Preparing, Journaled, Deciding, Purging
  <2>2. CASE job' # raised
    BY <1>2, <2>2
  <2> QED  BY <2>1, <2>2
<1>5. AppInv'
  BY <1>1, <1>2, <1>3 DEF ResetInv, AppInv, At, Busy, Upcoming, Preparing, Journaled, Deciding, Purging
<1>6. DeckInv'
  BY <1>2 DEF ResetInv, DeckInv, SameGeneration
<1>7. BudgetInv'
  <2>1. left' \in [resets : 0..MaxResets, errors : 0..MaxErrors, crashes : 0..MaxCrashes]
        /\ left'.resets = left.resets
    BY <1>2, ResetAssumption DEF ResetInv, BudgetInv, SpendOf
  <2>2. job'.pc \in Upcoming => job.pc \in Upcoming
    BY <1>3 DEF Upcoming, Preparing, Journaled, Deciding
  <2> QED
    BY <1>2, <1>3, <2>1, <2>2 DEF ResetInv, BudgetInv
<1> QED
  BY <1>1, <1>2, <1>3, <1>4, <1>5, <1>6, <1>7 DEF ResetInv

LEMMA OpKeepsInv ==
    ASSUME ResetInv, ~At("idle"),
           NEW new \in SoundDisk, new.epoch = fs.epoch, Data(new) = Data(fs),
           NEW pc \in Busy, Position([job EXCEPT !.pc = pc], new),
           pc \in Upcoming => job.pc \in Upcoming,
           Op(new, pc)
    PROVE  ResetInv' /\ Atomic!Rearrange
<1>1. ResetInv' /\ fs' \in {fs, new} /\ app # "open" /\ UNCHANGED <<app, known>>
  BY OpKeepsResetInv
<1> QED
  BY <1>1, Quiet

(* So does a step that touches no file.                                    *)
LEMMA ThinkKeepsInv ==
    ASSUME ResetInv, ~At("idle"),
           NEW next \in Job, Position(next, fs), next.pc = "idle" => next = NoJob,
           next.task \in {job.task, "none"},
           next.within = "begin" => job.within = "begin",
           next.pc \in Upcoming => job.within = "begin" \/ job.pc \in Upcoming,
           Think(next)
    PROVE  ResetInv' /\ Atomic!Rearrange
<1>1. job \in Job /\ fs \in SoundDisk /\ app # "open"
  BY DEF ResetInv, AppInv
<1>2. job' = next /\ UNCHANGED <<fs, app, known, deck, generation, left>>
  BY DEF Think
<1>3. Position(job', fs')
  BY <1>2
<1>4. AppInv'
  BY <1>1, <1>2 DEF ResetInv, AppInv, At
<1>5. DeckInv'
  BY <1>2 DEF ResetInv, DeckInv, SameGeneration
<1>6. BudgetInv'
  BY <1>2 DEF ResetInv, BudgetInv
<1>7. Data(fs') = Data(fs) /\ app' # "open"
  BY <1>1, <1>2 DEF Data
<1> QED
  BY <1>1, <1>2, <1>3, <1>4, <1>5, <1>6, <1>7, Quiet DEF ResetInv

-----------------------------------------------------------------------------
(* Recovery.                                                               *)

(* What the invariant says at a step of a job.                             *)
LEMMA Busied ==
    ASSUME ResetInv
    PROVE  /\ job \in Job /\ fs \in SoundDisk /\ fs \in Disk /\ Position(job, fs)
           /\ At("idle") => job = NoJob
BY JournalDecides DEF ResetInv, AppInv

LEMMA LookKeepsInv == ASSUME ResetInv, Look PROVE ResetInv' /\ Atomic!Rearrange
<1>1. /\ job \in Job /\ fs \in SoundDisk /\ fs \in Disk /\ At("look") /\ ~At("idle")
  BY Busied DEF Look, At
<1>2. CASE ~fs.staging /\ Think([job EXCEPT !.pc = "returned"])
  <2> DEFINE next == [job EXCEPT !.pc = "returned"]
  <2>1. next \in Job /\ next.pc = "returned" /\ next.task = job.task /\ next.within = job.within
    BY <1>1 DEF Job, Busy
  <2>2. Position(next, fs)
    BY <1>2, <2>1 DEF Position, Preparing, Journaled, Deciding, Purging
  <2> QED
    BY <1>1, <1>2, <2>1, <2>2, ThinkKeepsInv DEF Upcoming, Preparing, Journaled, Deciding
<1>3. CASE /\ fs.staging /\ Unpublished
           /\ IF fs.tmp THEN Op([fs EXCEPT !.tmp = FALSE], "look")
                        ELSE Op([fs EXCEPT !.staging = FALSE], "returned")
  <2>1. CASE fs.tmp
    <3> DEFINE new == [fs EXCEPT !.tmp = FALSE]
    <3>1. new \in SoundDisk
      BY <1>1 DEF SoundDisk, Disk, NothingAside, Precommit, Committed, OldCounts, NewCounts
    <3>2. new.epoch = fs.epoch /\ Data(new) = Data(fs)
      BY <1>1 DEF Disk, Data
    <3>3. Position([job EXCEPT !.pc = "look"], new)
      BY <1>1 DEF Position, Job, Preparing, Journaled, Deciding, Purging
    <3> QED
      BY <1>1, <1>3, <2>1, <3>1, <3>2, <3>3, OpKeepsInv
         DEF Busy, Upcoming, Preparing, Journaled, Deciding
  <2>2. CASE ~fs.tmp
    <3> DEFINE new == [fs EXCEPT !.staging = FALSE]
    <3>1. new \in SoundDisk
      BY <1>1, <1>3, <2>2 DEF SoundDisk, Disk, NothingAside, Precommit, Committed, Unpublished
    <3>2. new.epoch = fs.epoch /\ Data(new) = Data(fs)
      BY <1>1, <1>3 DEF Disk, Data, Unpublished
    <3>3. Position([job EXCEPT !.pc = "returned"], new)
      BY <1>1 DEF Position, Job, Disk, Preparing, Journaled, Deciding, Purging
    <3> QED
      BY <1>1, <1>3, <2>2, <3>1, <3>2, <3>3, OpKeepsInv
         DEF Busy, Upcoming, Preparing, Journaled, Deciding
  <2> QED  BY <2>1, <2>2
<1>4. CASE fs.staging /\ ~Unpublished /\ fs.journal = NoJournal /\ Fail
  BY <1>1, <1>4 DEF SoundDisk, NothingAside, Unpublished
<1>5. CASE /\ fs.staging /\ fs.journal # NoJournal
           /\ Think([job EXCEPT
                 !.pc = IF fs.journal.phase = "precommit" THEN "restore" ELSE "install",
                 !.journal = fs.journal])
  <2> DEFINE next == [job EXCEPT
                 !.pc = IF fs.journal.phase = "precommit" THEN "restore" ELSE "install",
                 !.journal = fs.journal]
  <2>1. /\ next \in Job /\ next.task = job.task /\ next.within = job.within
        /\ next.pc \in {"restore", "install"} /\ next.journal = fs.journal
        /\ next.pc = "restore" => Precommit(fs)
        /\ next.pc = "install" => Committed(fs)
    BY <1>1, <1>5 DEF Job, Busy, Disk, Precommit, Committed
  <2>2. Position(next, fs)
    BY <2>1 DEF Position, Preparing, Journaled, Deciding, Purging
  <2> QED
    BY <1>1, <1>5, <2>1, <2>2, ThinkKeepsInv DEF Upcoming, Preparing, Journaled, Deciding
<1> QED
  BY <1>2, <1>3, <1>4, <1>5 DEF Look

(* A step that changes nothing but the place in the program.               *)
LEMMA GoesOn ==
    ASSUME ResetInv, ~At("idle"), NEW pc \in Busy \ Upcoming, Position([job EXCEPT !.pc = pc], fs),
           Think([job EXCEPT !.pc = pc])
    PROVE  ResetInv' /\ Atomic!Rearrange
<1> DEFINE next == [job EXCEPT !.pc = pc]
<1>1. next \in Job /\ next.pc = pc /\ next.task = job.task /\ next.within = job.within /\ pc # "idle"
  BY Busied DEF Job, Busy, Upcoming, Preparing, Journaled, Deciding, Purging
<1> QED
  BY <1>1, ThinkKeepsInv

(* An error that is raised with nothing done.                              *)
LEMMA FailKeepsInv == ASSUME ResetInv, ~At("idle"), Fail PROVE ResetInv' /\ Atomic!Rearrange
<1>1. Position([job EXCEPT !.pc = "raised"], fs)
  BY Busied DEF Position, Job, Preparing, Journaled, Deciding, Purging
<1> QED
  BY <1>1, GoesOn DEF Fail, Busy, Upcoming, Preparing, Journaled, Deciding

(* Moving a file from one of its places to the other changes neither which *)
(* places it has nor what counts.                                          *)
LEMMA MoveKeepsPlaces ==
    ASSUME NEW from \in Places, NEW to \in Places, NEW ids \in Places, NEW n \in Names,
           from[n] = ids[n],
           \A m \in Names : OnePlace(ids[m], to[m], from[m])
    PROVE  /\ Move(from, to, n).from \in Places /\ Move(from, to, n).to \in Places
           /\ \A m \in Names : OnePlace(ids[m], Move(from, to, n).to[m], Move(from, to, n).from[m])
           /\ \A m \in Names : Move(from, to, n).from[m] \in {from[m], 0}
BY DEF Move, Places, Epochs, OnePlace

LEMMA RestoreKeepsInv == ASSUME ResetInv, Restore PROVE ResetInv' /\ Atomic!Rearrange
<1>1. /\ job \in Job /\ fs \in SoundDisk /\ fs \in Disk /\ ~At("idle")
      /\ Precommit(fs) /\ job.journal = fs.journal /\ fs.staging
  BY Busied, JournalDecides DEF Restore, At, Position
<1>2. ASSUME NEW n \in Present(job.journal.originals) \cap Present(fs.old),
             Op([fs EXCEPT !.old  = Move(fs.old, fs.root, n).from,
                           !.root = Move(fs.old, fs.root, n).to], "restore")
      PROVE  ResetInv' /\ Atomic!Rearrange
  <2> DEFINE ids   == fs.journal.originals
             moved == Move(fs.old, fs.root, n)
             new   == [fs EXCEPT !.old = moved.from, !.root = moved.to]
  <2>1. /\ ids \in Places /\ OldCounts(fs) /\ n \in Names /\ fs.old[n] = ids[n]
        /\ fs.old \in Places /\ fs.root \in Places
        /\ \A m \in Names : OnePlace(ids[m], fs.root[m], fs.old[m])
    BY <1>1, <1>2, JournalDecides DEF SoundDisk, OldCounts, OnePlace, Present, Journals, Disk
  <2>2. /\ moved.from \in Places /\ moved.to \in Places
        /\ \A m \in Names : OnePlace(ids[m], moved.to[m], moved.from[m])
        /\ \A m \in Names : moved.from[m] \in {fs.old[m], 0}
    BY <2>1, MoveKeepsPlaces
  <2> HIDE DEF moved
  <2>3. /\ new \in Disk /\ Precommit(new) /\ new.journal = fs.journal /\ ~Committed(new)
        /\ new.epoch = fs.epoch /\ new.staging /\ new.new = fs.new /\ new.folders = fs.folders
        /\ new.old = moved.from /\ new.root = moved.to
    BY <1>1, <2>2 DEF Disk, Precommit, Committed
  <2>4. OldCounts(new)
    BY <2>1, <2>2, <2>3 DEF OldCounts
  <2>5. "old" \notin new.folders => new.old = None
    BY <1>1, <2>2, <2>3 DEF SoundDisk, Places, None
  <2>6. new \in SoundDisk
    BY <1>1, <2>3, <2>4, <2>5 DEF SoundDisk, Disk, Precommit
  <2>7. Data(new) = Data(fs)
    BY <1>1, <2>3, <2>6, JournalDecides
  <2>8. Position([job EXCEPT !.pc = "restore"], new)
    BY <1>1, <2>3 DEF Position, Job, Preparing, Journaled, Deciding, Purging
  <2> HIDE DEF new
  <2>9. Op(new, "restore")
    BY <1>2 DEF new, moved
  <2> QED
    BY <1>1, <2>3, <2>6, <2>7, <2>8, <2>9, OpKeepsInv
       DEF Busy, Upcoming, Preparing, Journaled, Deciding
<1>3. CASE /\ Present(job.journal.originals) \cap Present(fs.old) = {}
           /\ Think([job EXCEPT !.pc = "discard"])
  <2>1. fs.old = None
    BY <1>1, <1>3, JournalDecides
       DEF SoundDisk, OldCounts, OnePlace, Present, Disk, Places, Epochs, Journals, None
  <2>2. Position([job EXCEPT !.pc = "discard"], fs)
    BY <1>1, <2>1 DEF Position, Job, Precommit, Committed, Preparing, Journaled, Deciding, Purging
  <2> QED
    BY <1>1, <1>3, <2>2, GoesOn DEF Busy, Upcoming, Preparing, Journaled, Deciding
<1> QED
  BY <1>1, <1>2, <1>3, FailKeepsInv DEF Restore

LEMMA InstallKeepsInv == ASSUME ResetInv, Install PROVE ResetInv' /\ Atomic!Rearrange
<1>1. /\ job \in Job /\ fs \in SoundDisk /\ fs \in Disk /\ ~At("idle")
      /\ Committed(fs) /\ job.journal = fs.journal /\ fs.staging
  BY Busied, JournalDecides DEF Install, At, Position
<1> DEFINE ids == fs.journal.replacements
<1>2. /\ ids \in Places /\ NewCounts(fs) /\ fs.new \in Places /\ fs.root \in Places
      /\ \A m \in Names : OnePlace(ids[m], fs.root[m], fs.new[m])
  BY <1>1, JournalDecides DEF SoundDisk, NewCounts, OnePlace, Journals, Disk
<1>3. ASSUME NEW n \in Present(job.journal.replacements) \cap Present(fs.new),
             Op([fs EXCEPT !.new  = Move(fs.new, fs.root, n).from,
                           !.root = Move(fs.new, fs.root, n).to], "install")
      PROVE  ResetInv' /\ Atomic!Rearrange
  <2> DEFINE moved == Move(fs.new, fs.root, n)
             new   == [fs EXCEPT !.new = moved.from, !.root = moved.to]
  <2>1. n \in Names /\ fs.new[n] = ids[n]
    BY <1>1, <1>2, <1>3 DEF OnePlace, Present
  <2>2. /\ moved.from \in Places /\ moved.to \in Places
        /\ \A m \in Names : OnePlace(ids[m], moved.to[m], moved.from[m])
        /\ \A m \in Names : moved.from[m] \in {fs.new[m], 0}
    BY <1>2, <2>1, MoveKeepsPlaces
  <2> HIDE DEF moved
  <2>3. /\ new \in Disk /\ Committed(new) /\ new.journal = fs.journal /\ ~Precommit(new)
        /\ new.epoch = fs.epoch /\ new.staging /\ new.old = fs.old /\ new.folders = fs.folders
        /\ new.new = moved.from /\ new.root = moved.to
    BY <1>1, <2>2 DEF Disk, Precommit, Committed
  <2>4. NewCounts(new)
    BY <1>2, <2>2, <2>3 DEF NewCounts, OnePlace
  <2>5. "new" \notin new.folders => new.new = None
    BY <1>1, <2>2, <2>3 DEF SoundDisk, Places, None
  <2>6. new \in SoundDisk
    BY <1>1, <2>3, <2>4, <2>5 DEF SoundDisk, Disk, Committed
  <2>7. Data(new) = Data(fs)
    BY <1>1, <2>3, <2>6, JournalDecides
  <2>8. Position([job EXCEPT !.pc = "install"], new)
    BY <1>1, <2>3 DEF Position, Job, Preparing, Journaled, Deciding, Purging
  <2> HIDE DEF new
  <2>9. Op(new, "install")
    BY <1>3 DEF new, moved
  <2> QED
    BY <1>1, <2>3, <2>6, <2>7, <2>8, <2>9, OpKeepsInv
       DEF Busy, Upcoming, Preparing, Journaled, Deciding
<1>4. CASE /\ Present(job.journal.replacements) \cap Present(fs.new) = {}
           /\ Op([fs EXCEPT !.marker = TRUE], "purge")
  <2> DEFINE new == [fs EXCEPT !.marker = TRUE]
  <2>1. fs.new = None
    BY <1>1, <1>2, <1>4 DEF OnePlace, Present, Places, Epochs, None
  <2>2. new \in SoundDisk /\ new.epoch = fs.epoch /\ Data(new) = Data(fs)
    BY <1>1 DEF SoundDisk, Disk, NothingAside, Precommit, Committed, OldCounts, NewCounts, Data
  <2>3. Position([job EXCEPT !.pc = "purge"], new)
    BY <1>1, <2>1 DEF Position, Job, Disk, Committed, Preparing, Journaled, Deciding, Purging
  <2> QED
    BY <1>1, <1>4, <2>2, <2>3, OpKeepsInv
       DEF Busy, Upcoming, Preparing, Journaled, Deciding, Purging
<1> QED
  BY <1>1, <1>3, <1>4, FailKeepsInv DEF Install

LEMMA PurgeKeepsInv == ASSUME ResetInv, Purge PROVE ResetInv' /\ Atomic!Rearrange
<1> DEFINE next == [job EXCEPT !.pc = "purge_tmp", !.journal.phase = "purge_pending"]
<1>1. /\ job \in Job /\ fs \in SoundDisk /\ fs \in Disk /\ ~At("idle") /\ job.pc = "purge"
      /\ Committed(fs) /\ fs.journal \in Journals /\ fs.new = None
      /\ job.journal \in {fs.journal, [fs.journal EXCEPT !.phase = "purge_pending"]}
  BY Busied, JournalDecides DEF Purge, At, Position, Purging
<1>2. next.journal = [fs.journal EXCEPT !.phase = "purge_pending"] /\ next.journal \in Journals
  BY <1>1 DEF Job, Journals, Phases
<1>3. next \in Job /\ next.pc = "purge_tmp" /\ next.task = job.task /\ next.within = job.within
  BY <1>1, <1>2 DEF Job, Busy, Purging
<1>4. Position(next, fs)
  BY <1>1, <1>2, <1>3 DEF Position, Preparing, Journaled, Deciding, Purging
<1> QED
  BY <1>1, <1>3, <1>4, ThinkKeepsInv DEF Purge, Upcoming, Preparing, Journaled, Deciding

(* The temporary journal decides nothing.                                  *)
LEMMA WriteTmpKeepsInv ==
    ASSUME ResetInv, ~At("idle"), fs.staging,
           NEW pc \in Busy, pc \in Upcoming => job.pc \in Upcoming,
           Position([job EXCEPT !.pc = pc], fs), WriteTmp(pc)
    PROVE  ResetInv' /\ Atomic!Rearrange
<1> DEFINE new == [fs EXCEPT !.tmp = TRUE]
<1>1. fs \in SoundDisk /\ fs \in Disk
  BY Busied
<1>2. new \in SoundDisk
  BY <1>1 DEF SoundDisk, Disk, NothingAside, Precommit, Committed, OldCounts, NewCounts
<1>3. new.epoch = fs.epoch /\ Data(new) = Data(fs)
  BY <1>1 DEF Disk, Data
<1>4. Position([job EXCEPT !.pc = pc], new)
  BY <1>1 DEF Position, Disk, Precommit, Committed
<1> QED
  BY <1>2, <1>3, <1>4, OpKeepsInv DEF WriteTmp

LEMMA PurgeTmpKeepsInv == ASSUME ResetInv, PurgeTmp PROVE ResetInv' /\ Atomic!Rearrange
<1>1. /\ job \in Job /\ ~At("idle") /\ job.pc = "purge_tmp" /\ Position(job, fs)
      /\ Committed(fs) /\ fs.staging
  BY Busied, JournalDecides DEF PurgeTmp, At, Position, Purging
<1>2. Position([job EXCEPT !.pc = "purge_journal"], fs)
  BY <1>1 DEF Position, Job, Preparing, Journaled, Deciding, Purging
<1> QED
  BY <1>1, <1>2, WriteTmpKeepsInv DEF PurgeTmp, Busy, Purging, Upcoming, Preparing, Journaled, Deciding

LEMMA PurgeJournalKeepsInv == ASSUME ResetInv, PurgeJournal PROVE ResetInv' /\ Atomic!Rearrange
<1> DEFINE new == [fs EXCEPT !.tmp = FALSE, !.journal = job.journal, !.epoch = fs.epoch]
<1>1. /\ job \in Job /\ fs \in SoundDisk /\ fs \in Disk /\ ~At("idle")
      /\ Committed(fs) /\ fs.journal \in Journals /\ fs.new = None /\ fs.staging
      /\ job.journal \in {fs.journal, [fs.journal EXCEPT !.phase = "purge_pending"]}
  BY Busied, JournalDecides DEF PurgeJournal, At, Position, Purging
<1>2. /\ job.journal \in Journals /\ job.journal.phase # "precommit" /\ job.journal # NoJournal
      /\ job.journal.replacements = fs.journal.replacements
  BY <1>1, JournalAssumption DEF Journals, Phases, Committed
<1>3. /\ new \in Disk /\ Committed(new) /\ ~Precommit(new) /\ new.journal # NoJournal
      /\ new.epoch = fs.epoch /\ new.staging /\ new.old = fs.old /\ new.folders = fs.folders
      /\ new.new = fs.new /\ new.root = fs.root /\ new.marker = fs.marker
      /\ new.journal.replacements = fs.journal.replacements
  BY <1>1, <1>2 DEF Disk, Precommit, Committed
<1>4. NewCounts(new)
  BY <1>1, <1>3 DEF SoundDisk, NewCounts
<1>5. new \in SoundDisk
  BY <1>1, <1>3, <1>4 DEF SoundDisk
<1>6. Data(new) = Data(fs)
  BY <1>1, <1>3, <1>5, JournalDecides
<1>7. Position([job EXCEPT !.pc = "discard"], new)
  BY <1>1, <1>3 DEF Position, Job, Preparing, Journaled, Deciding, Purging
<1> HIDE DEF new
<1>8. Op(new, "discard")
  BY DEF PurgeJournal, ReplaceJournal, new
<1> QED
  BY <1>1, <1>3, <1>5, <1>6, <1>7, <1>8, OpKeepsInv DEF Busy, Upcoming, Preparing, Journaled, Deciding

LEMMA EntryRemoved ==
    ASSUME NEW place \in Places, NEW n \in Present(place)
    PROVE  /\ n \in Names /\ place[n] # 0 /\ [place EXCEPT ![n] = 0] \in Places
           /\ \A m \in Names : [place EXCEPT ![n] = 0][m] \in {place[m], 0}
BY ResetAssumption DEF Present, Places, Epochs

(* A folder whose files no longer count is taken away file by file.        *)
LEMMA RemovingKeepsInv ==
    ASSUME ResetInv, At("discard"),
           NEW folder \in {"old", "new"}, RemoveFolder(folder)
    PROVE  ResetInv' /\ Atomic!Rearrange
<1> DEFINE Smaller(kept) ==
        IF folder = "old" THEN [fs EXCEPT !.old = kept] ELSE [fs EXCEPT !.new = kept]
    Without == [fs EXCEPT !.folders = @ \ {folder}]
    aside == IF folder = "old" THEN fs.old ELSE fs.new
<1>1. /\ job \in Job /\ fs \in SoundDisk /\ fs \in Disk /\ ~At("idle") /\ fs.staging
      /\ Precommit(fs) => fs.old = None
      /\ Committed(fs) => fs.new = None
      /\ folder \in fs.folders /\ fs[folder] = aside /\ fs.journal # NoJournal
  <2>1. job \in Job /\ fs \in SoundDisk /\ fs \in Disk /\ ~At("idle") /\ Position(job, fs)
    BY Busied DEF At
  <2>2. folder \in fs.folders /\ fs[folder] = aside
    BY <2>1 DEF RemoveFolder, Disk
  <2>3. fs.journal # NoJournal
    BY <2>1, <2>2 DEF SoundDisk, NothingAside
  <2> QED
    BY <2>1, <2>2, <2>3 DEF At, Position
<1>2. ASSUME NEW n \in Present(aside), Op(Smaller([aside EXCEPT ![n] = 0]), "discard")
      PROVE  ResetInv' /\ Atomic!Rearrange
  <2> DEFINE kept == [aside EXCEPT ![n] = 0]
             new  == Smaller(kept)
  <2>1. /\ aside \in Places /\ kept \in Places /\ n \in Names /\ aside[n] # 0
        /\ \A m \in Names : kept[m] \in {aside[m], 0}
    <3>1. aside \in Places
      BY <1>1 DEF Disk
    <3> HIDE DEF aside
    <3> QED
      BY <1>2, <3>1, EntryRemoved
  <2> HIDE DEF kept
  <2>2. /\ folder = "old" => Committed(fs)
        /\ folder = "new" => Precommit(fs)
    BY <1>1, <2>1 DEF Precommit, Committed, None
  <2>3. /\ new \in Disk /\ new.epoch = fs.epoch /\ new.staging /\ new.folders = fs.folders
        /\ new.root = fs.root /\ new.journal = fs.journal /\ new.marker = fs.marker
        /\ new.old = IF folder = "old" THEN kept ELSE fs.old
        /\ new.new = IF folder = "new" THEN kept ELSE fs.new
    BY <1>1, <2>1 DEF Disk
  <2> HIDE DEF new
  <2>4. /\ Precommit(new) <=> Precommit(fs)
        /\ Committed(new) <=> Committed(fs)
    BY <2>3 DEF Precommit, Committed
  <2>5. Precommit(fs) => OldCounts(new)
    BY <1>1, <2>1, <2>2, <2>3, <2>4 DEF SoundDisk, OldCounts, Precommit, Committed
  <2>6. Committed(fs) => NewCounts(new)
    BY <1>1, <2>2, <2>3 DEF SoundDisk, NewCounts, Precommit, Committed
  <2>7. new \in SoundDisk
    BY <1>1, <2>3, <2>4, <2>5, <2>6 DEF SoundDisk
  <2>8. Data(new) = Data(fs)
    BY <1>1, <2>3, <2>4, <2>7, JournalDecides DEF Precommit, Committed
  <2>9. Position([job EXCEPT !.pc = "discard"], new)
    BY <1>1, <2>2, <2>3, <2>4
       DEF Position, Job, Precommit, Committed, Preparing, Journaled, Deciding, Purging
  <2>10. Op(new, "discard")
    BY <1>2 DEF new, kept
  <2> QED
    BY <1>1, <2>3, <2>7, <2>8, <2>9, <2>10, OpKeepsInv
       DEF Busy, Upcoming, Preparing, Journaled, Deciding
<1>3. CASE Present(aside) = {} /\ Op(Without, "discard")
  <2>1. aside = None
    BY <1>1, <1>3 DEF Disk, Present, Places, Epochs, None
  <2>2. /\ Without \in Disk /\ Without.epoch = fs.epoch /\ Without.staging
        /\ Without.folders = fs.folders \ {folder} /\ Without.marker = fs.marker
        /\ Without.root = fs.root /\ Without.journal = fs.journal
        /\ Without.old = fs.old /\ Without.new = fs.new
    BY <1>1 DEF Disk
  <2> HIDE DEF Without
  <2>3. /\ Precommit(Without) <=> Precommit(fs)
        /\ Committed(Without) <=> Committed(fs)
    BY <2>2 DEF Precommit, Committed
  <2>4. Precommit(fs) => OldCounts(Without)
    BY <1>1, <2>2 DEF SoundDisk, OldCounts
  <2>5. Committed(fs) => NewCounts(Without)
    BY <1>1, <2>2 DEF SoundDisk, NewCounts
  <2>6. Without \in SoundDisk
    BY <1>1, <2>1, <2>2, <2>3, <2>4, <2>5 DEF SoundDisk
  <2>7. Data(Without) = Data(fs)
    BY <1>1, <2>2 DEF Data
  <2>8. Position([job EXCEPT !.pc = "discard"], Without)
    BY <1>1, <2>2, <2>3 DEF Position, Job, Preparing, Journaled, Deciding, Purging
  <2> QED
    BY <1>1, <1>3, <2>2, <2>6, <2>7, <2>8, OpKeepsInv
       DEF Busy, Upcoming, Preparing, Journaled, Deciding
<1>4. CASE RemoveEntry(folder)
  <2>1. PICK n \in Present(fs[folder]) : Op([fs EXCEPT ![folder] = [@ EXCEPT ![n] = 0]], "discard")
    BY <1>4 DEF RemoveEntry
  <2>2. [fs EXCEPT ![folder] = [@ EXCEPT ![n] = 0]] = Smaller([aside EXCEPT ![n] = 0])
    BY <1>1 DEF Disk
  <2> QED
    BY <1>1, <1>2, <2>1, <2>2
<1> QED
  BY <1>1, <1>3, <1>4 DEF RemoveFolder

LEMMA DiscardKeepsInv == ASSUME ResetInv, Discard PROVE ResetInv' /\ Atomic!Rearrange
<1>1. /\ job \in Job /\ fs \in SoundDisk /\ fs \in Disk /\ ~At("idle") /\ At("discard")
      /\ fs.staging /\ fs.epoch > 0
      /\ Precommit(fs) => fs.old = None
      /\ Committed(fs) => fs.new = None
  BY Busied DEF Discard, At, Position, SoundDisk
<1>2. CASE fs.folders = {} /\ RemoveTmp
  <2> DEFINE new == [fs EXCEPT !.tmp = FALSE]
  <2>1. new \in SoundDisk
    BY <1>1 DEF SoundDisk, Disk, NothingAside, Precommit, Committed, OldCounts, NewCounts
  <2>2. new.epoch = fs.epoch /\ Data(new) = Data(fs)
    BY <1>1 DEF Disk, Data
  <2>3. Position([job EXCEPT !.pc = "discard"], new)
    BY <1>1 DEF Position, Job, Disk, Precommit, Committed, Preparing, Journaled, Deciding, Purging
  <2> QED
    BY <1>1, <1>2, <2>1, <2>2, <2>3, OpKeepsInv
       DEF RemoveTmp, Busy, Upcoming, Preparing, Journaled, Deciding
<1>3. CASE /\ fs.folders = {} /\ ~fs.tmp /\ fs.journal # NoJournal
           /\ Op([fs EXCEPT !.journal = NoJournal], "discard")
  <2> DEFINE new == [fs EXCEPT !.journal = NoJournal]
             ids == IF Precommit(fs) THEN fs.journal.originals ELSE fs.journal.replacements
  <2>1. /\ ids \in Places /\ fs.root \in Places /\ fs.old \in Places /\ fs.new \in Places
        /\ Data(fs) = ids
    BY <1>1, <1>3, JournalDecides DEF Precommit, Committed, Journals, Disk
  <2>2. \A n \in Names : fs.root[n] = ids[n]
    BY <1>1, <1>3, <2>1, FreshPlaces
       DEF SoundDisk, OldCounts, NewCounts, OnePlace, Precommit, Committed
  <2>3. fs.root = ids
    BY <2>1, <2>2 DEF Places
  <2>4. \A n \in Dirs : ids[n] = fs.epoch
    BY <1>1, <1>3 DEF SoundDisk, OldCounts, NewCounts, Precommit, Committed, Fresh, Names
  <2>5. /\ new \in Disk /\ new.journal = NoJournal /\ new.root = ids /\ new.epoch = fs.epoch
        /\ new.folders = {} /\ new.staging /\ new.old = fs.old /\ new.new = fs.new
        /\ new.marker = fs.marker /\ ~Precommit(new) /\ ~Committed(new)
    BY <1>1, <1>3, <2>3 DEF Disk, Precommit, Committed
  <2> HIDE DEF new, ids
  <2>6. new \in SoundDisk
    BY <1>1, <1>3, <2>4, <2>5 DEF SoundDisk, NothingAside
  <2>7. Data(new) = Data(fs)
    BY <2>1, <2>5 DEF Data
  <2>8. Position([job EXCEPT !.pc = "discard"], new)
    BY <1>1, <2>5 DEF Position, Job, Preparing, Journaled, Deciding, Purging
  <2> QED
    BY <1>1, <1>3, <2>5, <2>6, <2>7, <2>8, OpKeepsInv
       DEF new, Busy, Upcoming, Preparing, Journaled, Deciding
<1>4. CASE /\ fs.folders = {} /\ ~fs.tmp /\ fs.journal = NoJournal
           /\ Op([fs EXCEPT !.staging = FALSE], "returned")
  <2> DEFINE new == [fs EXCEPT !.staging = FALSE]
  <2>1. new \in SoundDisk
    BY <1>1, <1>4 DEF SoundDisk, Disk, NothingAside, Precommit, Committed
  <2>2. new.epoch = fs.epoch /\ Data(new) = Data(fs)
    BY <1>1, <1>4 DEF Disk, Data
  <2>3. Position([job EXCEPT !.pc = "returned"], new)
    BY <1>1 DEF Position, Job, Disk, Preparing, Journaled, Deciding, Purging
  <2> QED
    BY <1>1, <1>4, <2>1, <2>2, <2>3, OpKeepsInv
       DEF Busy, Upcoming, Preparing, Journaled, Deciding
<1> QED
  BY <1>1, <1>2, <1>3, <1>4, RemovingKeepsInv DEF Discard

-----------------------------------------------------------------------------
(* A reset up to its commit.                                               *)

LEMMA MakeStagingKeepsInv == ASSUME ResetInv, MakeStaging PROVE ResetInv' /\ Atomic!Rearrange
<1> DEFINE new == [fs EXCEPT !.staging = TRUE]
<1>1. /\ job \in Job /\ fs \in SoundDisk /\ fs \in Disk /\ ~At("idle") /\ job.pc = "mkdir"
      /\ fs.journal = NoJournal /\ fs.epoch > 0
      /\ job.journal = [phase |-> "precommit", originals |-> fs.root, replacements |-> None]
  BY Busied DEF MakeStaging, At, Position, Preparing
<1>2. new \in SoundDisk /\ new.epoch = fs.epoch /\ Data(new) = Data(fs)
  BY <1>1 DEF SoundDisk, Disk, NothingAside, Precommit, Committed, Data
<1>3. Position([job EXCEPT !.pc = "precommit_tmp"], new)
  BY <1>1 DEF Position, Job, Disk, Preparing, Journaled, Deciding, Purging
<1> QED
  BY <1>1, <1>2, <1>3, OpKeepsInv DEF MakeStaging, Busy, Upcoming, Preparing, Journaled, Deciding

LEMMA PrecommitTmpKeepsInv == ASSUME ResetInv, PrecommitTmp PROVE ResetInv' /\ Atomic!Rearrange
<1>1. /\ job \in Job /\ ~At("idle") /\ job.pc = "precommit_tmp" /\ Position(job, fs) /\ fs.staging
  BY Busied DEF PrecommitTmp, At, Position
<1>2. Position([job EXCEPT !.pc = "precommit_journal"], fs)
  BY <1>1 DEF Position, Job, Preparing, Journaled, Deciding, Purging
<1> QED
  BY <1>1, <1>2, WriteTmpKeepsInv
     DEF PrecommitTmp, Busy, Upcoming, Preparing, Journaled, Deciding

LEMMA PrecommitJournalKeepsInv ==
    ASSUME ResetInv, PrecommitJournal PROVE ResetInv' /\ Atomic!Rearrange
<1> DEFINE new == [fs EXCEPT !.tmp = FALSE, !.journal = job.journal, !.epoch = fs.epoch]
<1>1. /\ job \in Job /\ fs \in SoundDisk /\ fs \in Disk /\ ~At("idle")
      /\ job.pc = "precommit_journal"
      /\ fs.journal = NoJournal /\ fs.epoch > 0 /\ fs.staging
      /\ job.journal = [phase |-> "precommit", originals |-> fs.root, replacements |-> None]
  BY Busied DEF PrecommitJournal, At, Position, Preparing
<1>2. job.journal \in Journals /\ job.journal # NoJournal /\ NothingAside(fs)
  BY <1>1, FreshPlaces, JournalAssumption DEF Journals, Phases, Disk, SoundDisk
<1>3. /\ fs.old = None /\ fs.new = None /\ fs.folders = {}
  BY <1>1, <1>2 DEF NothingAside, SoundDisk
<1>4. /\ new \in Disk /\ Precommit(new) /\ ~Committed(new) /\ new.journal = job.journal
      /\ new.epoch = fs.epoch /\ new.staging /\ new.root = fs.root /\ new.marker = fs.marker
      /\ new.old = None /\ new.new = None /\ new.folders = {}
  <2>1. fs \in Disk /\ job.journal \in Journals /\ job.journal # NoJournal /\ fs.staging
        /\ job.journal.phase = "precommit"
    BY <1>1, <1>2
  <2>2. /\ new \in Disk /\ new.journal = job.journal
        /\ new.epoch = fs.epoch /\ new.staging /\ new.root = fs.root /\ new.marker = fs.marker
        /\ new.old = fs.old /\ new.new = fs.new /\ new.folders = fs.folders
    BY <2>1 DEF Disk
  <2> HIDE DEF new
  <2> QED
    BY <1>3, <2>1, <2>2 DEF Precommit, Committed
<1> HIDE DEF new
<1>5. OldCounts(new)
  BY <1>1, <1>2, <1>4, FreshPlaces DEF NothingAside, OldCounts, OnePlace, Names, Disk, Places, Epochs
<1>6. new \in SoundDisk
  BY <1>1, <1>2, <1>4, <1>5 DEF SoundDisk
<1>7. Data(new) = Data(fs)
  BY <1>1, <1>4, <1>6, JournalDecides
<1>8. Position([job EXCEPT !.pc = "folders"], new)
  BY <1>1, <1>4 DEF Position, Job, Preparing, Journaled, Deciding, Purging
<1>9. Op(new, "folders")
  BY DEF PrecommitJournal, ReplaceJournal, new
<1> QED
  BY <1>1, <1>4, <1>6, <1>7, <1>8, <1>9, OpKeepsInv
     DEF Busy, Upcoming, Preparing, Journaled, Deciding

(* A new folder is empty.                                                  *)
LEMMA FolderMade ==
    ASSUME NEW folder \in {"old", "new"}, fs \in SoundDisk, Precommit(fs)
    PROVE  LET new == [fs EXCEPT !.folders = @ \cup {folder}]
           IN  /\ new \in SoundDisk /\ Precommit(new) /\ new.journal = fs.journal
               /\ new.epoch = fs.epoch /\ new.folders = fs.folders \cup {folder}
               /\ Data(new) = Data(fs)
<1> DEFINE new == [fs EXCEPT !.folders = @ \cup {folder}]
<1>1. fs \in Disk /\ fs.journal # NoJournal /\ fs.staging
  BY JournalDecides DEF Precommit
<1>2. /\ new \in Disk /\ new.folders = fs.folders \cup {folder} /\ new.staging
      /\ new.epoch = fs.epoch /\ new.root = fs.root /\ new.old = fs.old /\ new.new = fs.new
      /\ new.journal = fs.journal /\ new.marker = fs.marker
  BY <1>1 DEF Disk
<1> HIDE DEF new
<1>3. Precommit(new) /\ ~Committed(new) /\ OldCounts(new)
  BY <1>2 DEF Precommit, Committed, SoundDisk, OldCounts
<1>4. new \in SoundDisk
  BY <1>1, <1>2, <1>3 DEF SoundDisk
<1>5. Data(new) = Data(fs)
  BY <1>2, <1>3, <1>4, JournalDecides
<1> QED
  BY <1>2, <1>3, <1>4, <1>5 DEF new

LEMMA MakeFolderKeepsInv == ASSUME ResetInv, MakeFolder PROVE ResetInv' /\ Atomic!Rearrange
<1>1. /\ job \in Job /\ fs \in SoundDisk /\ fs \in Disk /\ ~At("idle") /\ job.pc = "folders"
      /\ Precommit(fs) /\ job.journal = fs.journal
  BY Busied DEF MakeFolder, At, Position, Journaled
<1>2. CASE "old" \notin fs.folders /\ Op([fs EXCEPT !.folders = @ \cup {"old"}], "folders")
  <2> DEFINE new == [fs EXCEPT !.folders = @ \cup {"old"}]
  <2>1. /\ new \in SoundDisk /\ Precommit(new) /\ new.journal = fs.journal
        /\ new.epoch = fs.epoch /\ Data(new) = Data(fs)
    BY <1>1, FolderMade
  <2> HIDE DEF new
  <2>2. Position([job EXCEPT !.pc = "folders"], new)
    BY <1>1, <2>1 DEF Position, Job, Preparing, Journaled, Deciding, Purging
  <2>3. Op(new, "folders")
    BY <1>2 DEF new
  <2> QED
    BY <1>1, <2>1, <2>2, <2>3, OpKeepsInv DEF Busy, Upcoming, Preparing, Journaled, Deciding
<1>3. CASE "old" \in fs.folders /\ Op([fs EXCEPT !.folders = @ \cup {"new"}], "move")
  <2> DEFINE new == [fs EXCEPT !.folders = @ \cup {"new"}]
  <2>1. /\ new \in SoundDisk /\ Precommit(new) /\ new.journal = fs.journal
        /\ new.epoch = fs.epoch /\ Data(new) = Data(fs) /\ new.folders = fs.folders \cup {"new"}
    BY <1>1, FolderMade
  <2> HIDE DEF new
  <2>2. new.folders = {"old", "new"}
    BY <1>1, <1>3, <2>1 DEF Disk
  <2>3. Position([job EXCEPT !.pc = "move"], new)
    BY <1>1, <2>1, <2>2 DEF Position, Job, Preparing, Journaled, Deciding, Purging
  <2>4. Op(new, "move")
    BY <1>3 DEF new
  <2> QED
    BY <1>1, <2>1, <2>3, <2>4, OpKeepsInv DEF Busy, Upcoming, Preparing, Journaled, Deciding
<1> QED
  BY <1>2, <1>3 DEF MakeFolder

LEMMA MoveAwayKeepsInv == ASSUME ResetInv, MoveAway PROVE ResetInv' /\ Atomic!Rearrange
<1> DEFINE ids  == fs.journal.originals
           staged == Present(job.journal.originals) \ Present(fs.old)
<1>1. /\ job \in Job /\ fs \in SoundDisk /\ fs \in Disk /\ ~At("idle") /\ job.pc = "move"
      /\ Precommit(fs) /\ job.journal = fs.journal /\ fs.folders = {"old", "new"}
  BY Busied DEF MoveAway, At, Position, Journaled
<1>2. /\ ids \in Places /\ fs.root \in Places /\ fs.old \in Places
      /\ OldCounts(fs) /\ fs.staging
      /\ \A m \in Names : OnePlace(ids[m], fs.old[m], fs.root[m])
  BY <1>1, JournalDecides DEF SoundDisk, OldCounts, OnePlace, Journals, Disk
<1>3. ASSUME NEW n \in staged, fs.root[n] = ids[n],
             Op([fs EXCEPT !.root = Move(fs.root, fs.old, n).from,
                           !.old  = Move(fs.root, fs.old, n).to], "move")
      PROVE  ResetInv' /\ Atomic!Rearrange
  <2> DEFINE moved == Move(fs.root, fs.old, n)
             new   == [fs EXCEPT !.root = moved.from, !.old = moved.to]
  <2>1. n \in Names
    BY <1>3 DEF Present
  <2>2. /\ moved.from \in Places /\ moved.to \in Places
        /\ \A m \in Names : OnePlace(ids[m], moved.to[m], moved.from[m])
    BY <1>2, <1>3, <2>1, MoveKeepsPlaces
  <2> HIDE DEF moved
  <2>3. /\ new \in Disk /\ Precommit(new) /\ new.journal = fs.journal /\ ~Committed(new)
        /\ new.epoch = fs.epoch /\ new.staging /\ new.new = fs.new
        /\ new.folders = {"old", "new"} /\ new.old = moved.to /\ new.root = moved.from
    BY <1>1, <1>2, <2>2 DEF Disk, Precommit, Committed
  <2> HIDE DEF new
  <2>4. OldCounts(new)
    BY <1>2, <2>2, <2>3 DEF OldCounts, OnePlace
  <2>5. new \in SoundDisk
    BY <1>1, <2>3, <2>4 DEF new, SoundDisk, Disk, Precommit
  <2>6. Data(new) = Data(fs)
    BY <1>1, <2>3, <2>5, JournalDecides
  <2>7. Position([job EXCEPT !.pc = "move"], new)
    BY <1>1, <2>3 DEF Position, Job, Preparing, Journaled, Deciding, Purging
  <2>8. Op(new, "move")
    BY <1>3 DEF new, moved
  <2> QED
    BY <1>1, <2>3, <2>5, <2>6, <2>7, <2>8, OpKeepsInv
       DEF Busy, Upcoming, Preparing, Journaled, Deciding
<1>4. CASE staged = {} /\ Think([job EXCEPT !.pc = "prepare"])
  <2> DEFINE next == [job EXCEPT !.pc = "prepare"]
  <2>1. fs.root = None
    BY <1>1, <1>2, <1>4 DEF OnePlace, Present, Places, Epochs, None
  <2>2. /\ next \in Job /\ next.task = job.task /\ next.within = job.within /\ next.pc = "prepare"
        /\ next.journal = job.journal
    BY <1>1 DEF Job, Busy, Upcoming, Journaled
  <2>3. Position(next, fs)
    BY <1>1, <2>1, <2>2 DEF Position, Preparing, Journaled, Deciding, Purging
  <2> QED
    BY <1>1, <1>4, <2>2, <2>3, ThinkKeepsInv DEF Upcoming, Journaled
<1> QED
  BY <1>1, <1>3, <1>4, FailKeepsInv DEF MoveAway

LEMMA PrepareKeepsInv == ASSUME ResetInv, Prepare PROVE ResetInv' /\ Atomic!Rearrange
<1>1. /\ job \in Job /\ fs \in SoundDisk /\ fs \in Disk /\ ~At("idle") /\ job.pc = "prepare"
      /\ Precommit(fs) /\ job.journal = fs.journal /\ fs.folders = {"old", "new"}
      /\ fs.root = None
  BY Busied DEF Prepare, At, Position, Journaled
<1>2. /\ OldCounts(fs) /\ fs.staging /\ fs.journal \in Journals
      /\ fs.new \in Places /\ fs.epoch \in 0..(MaxResets + 1)
  BY <1>1, JournalDecides DEF SoundDisk, Disk
<1>3. ASSUME NEW n \in Dirs \ Present(fs.new), Op([fs EXCEPT !.new[n] = fs.epoch + 1], "prepare")
      PROVE  ResetInv' /\ Atomic!Rearrange
  <2> DEFINE made == [fs.new EXCEPT ![n] = fs.epoch + 1]
             new  == [fs EXCEPT !.new = made]
  <2>1. /\ made \in Places
        /\ \A m \in Names : made[m] \in {0, Fresh(fs.epoch + 1)[m]}
    <3>1. n \in Names /\ fs.epoch + 1 \in Epochs /\ Fresh(fs.epoch + 1)[n] = fs.epoch + 1
      BY <1>2, ResetAssumption DEF Fresh, Epochs, Names
    <3>2. \A m \in Names : fs.new[m] \in {0, Fresh(fs.epoch + 1)[m]}
      BY <1>2 DEF OldCounts
    <3> QED
      BY <1>2, <3>1, <3>2 DEF Places
  <2> HIDE DEF made
  <2>2. /\ new \in Disk /\ Precommit(new) /\ new.journal = fs.journal /\ ~Committed(new)
        /\ new.epoch = fs.epoch /\ new.staging /\ new.new = made /\ new.marker = fs.marker
        /\ new.folders = {"old", "new"} /\ new.old = fs.old /\ new.root = fs.root
    BY <1>1, <1>2, <2>1 DEF Disk, Precommit, Committed
  <2> HIDE DEF new
  <2>3. OldCounts(new)
    BY <1>2, <2>1, <2>2 DEF OldCounts
  <2>4. new \in SoundDisk
    BY <1>1, <2>2, <2>3 DEF SoundDisk, Precommit
  <2>5. Data(new) = Data(fs)
    BY <1>1, <2>2, <2>4, JournalDecides
  <2>6. Position([job EXCEPT !.pc = "prepare"], new)
    BY <1>1, <2>2 DEF Position, Job, Preparing, Journaled, Deciding, Purging
  <2>7. Op(new, "prepare")
    BY <1>3 DEF new, made
  <2> QED
    BY <1>1, <2>2, <2>4, <2>5, <2>6, <2>7, OpKeepsInv
       DEF Busy, Upcoming, Preparing, Journaled, Deciding
<1>4. CASE /\ Dirs \ Present(fs.new) = {}
           /\ Think([job EXCEPT !.pc = "commit_tmp", !.within = "commit",
                !.journal.replacements = fs.new, !.journal.phase = "committed"])
  <2> DEFINE next == [job EXCEPT !.pc = "commit_tmp", !.within = "commit",
                !.journal.replacements = fs.new, !.journal.phase = "committed"]
  <2>1. fs.new = Fresh(fs.epoch + 1)
    BY <1>2, <1>4 DEF OldCounts, Fresh, Present, Places, Names
  <2>2. /\ next.journal = [fs.journal EXCEPT !.phase = "committed", !.replacements = fs.new]
        /\ next.journal \in Journals
    BY <1>1, <1>2 DEF Job, Journals, Phases
  <2>3. /\ next \in Job /\ next.task = job.task /\ next.within = "commit"
        /\ next.pc = "commit_tmp"
    BY <1>1, <2>2 DEF Job, Busy, Upcoming, Deciding
  <2> HIDE DEF next
  <2>4. Position(next, fs)
    BY <1>1, <2>1, <2>2, <2>3 DEF Position, Preparing, Journaled, Deciding, Purging
  <2>5. Think(next)
    BY <1>4 DEF next
  <2> QED
    BY <1>1, <2>3, <2>4, <2>5, ThinkKeepsInv DEF Upcoming, Journaled
<1> QED
  BY <1>3, <1>4 DEF Prepare

LEMMA CommitTmpKeepsInv == ASSUME ResetInv, CommitTmp PROVE ResetInv' /\ Atomic!Rearrange
<1>1. /\ job \in Job /\ ~At("idle") /\ job.pc = "commit_tmp" /\ Position(job, fs)
      /\ fs.staging
  BY Busied, JournalDecides DEF CommitTmp, At, Position, Deciding
<1>2. Position([job EXCEPT !.pc = "commit_journal"], fs)
  BY <1>1 DEF Position, Job, Preparing, Journaled, Deciding, Purging
<1> QED
  BY <1>1, <1>2, WriteTmpKeepsInv DEF CommitTmp, Busy, Upcoming, Preparing, Journaled, Deciding

(* The commit: with the rename of the journal all data is replaced, unless *)
(* the rename fails.                                                       *)
LEMMA CommitJournalKeepsInv ==
    ASSUME ResetInv, CommitJournal PROVE ResetInv' /\ (Atomic!Rearrange \/ Atomic!Replace)
<1> DEFINE new == [fs EXCEPT !.tmp = FALSE, !.journal = job.journal, !.epoch = fs.epoch + 1]
           fresh == Fresh(fs.epoch + 1)
<1>1. /\ job \in Job /\ fs \in SoundDisk /\ fs \in Disk /\ ~At("idle")
      /\ job.pc = "commit_journal" /\ job.within = "commit"
      /\ Precommit(fs) /\ fs.root = None /\ fs.new = fresh /\ fs.folders = {"old", "new"}
      /\ job.journal = [fs.journal EXCEPT !.phase = "committed", !.replacements = fs.new]
  BY Busied DEF CommitJournal, At, Position, Deciding
<1>2. /\ fs.journal \in Journals /\ fs.staging /\ fs.epoch > 0 /\ fs.marker
      /\ fs.epoch \in Nat /\ app # "open"
  BY <1>1, JournalDecides, ResetAssumption DEF SoundDisk, Disk, ResetInv, AppInv
<1>3. fs.epoch + 1 + left.resets <= MaxResets + 1 /\ left.resets \in Nat
  BY <1>1, <1>2, ResetAssumption DEF ResetInv, BudgetInv, Upcoming, Deciding
<1>4. fresh \in Places /\ None \in Places
  BY <1>1, FreshPlaces DEF Disk
<1> HIDE DEF fresh
<1>5. /\ job.journal \in Journals /\ job.journal # NoJournal
      /\ job.journal.phase = "committed" /\ job.journal.replacements = fresh
  BY <1>1, <1>2, <1>4, JournalAssumption DEF Journals, Phases
<1>6. /\ new \in Disk /\ new.journal = job.journal
      /\ new.epoch = fs.epoch + 1 /\ new.staging /\ new.marker /\ new.folders = fs.folders
      /\ new.root = None /\ new.new = fresh
  <2>1. fs.epoch + 1 \in 0..(MaxResets + 1)
    BY <1>2, <1>3, ResetAssumption
  <2>2. fs \in Disk /\ fs.root = None /\ fs.new = fresh /\ fs.staging /\ fs.marker
    BY <1>1, <1>2
  <2>3. job.journal \in Journals
    BY <1>5
  <2> QED
    BY <2>1, <2>2, <2>3 DEF Disk
<1>7. /\ fs' \in {fs, new} /\ UNCHANGED <<app, known, deck, generation>>
      /\ \/ fs' = new /\ job' = [job EXCEPT !.pc = "install"] /\ UNCHANGED left
         \/ job' = [job EXCEPT !.pc = "raised"] /\ SpendOf("errors")
  BY DEF CommitJournal, ReplaceJournal, Op, GoOn
<1> HIDE DEF new
<1>8. Committed(new) /\ ~Precommit(new)
  BY <1>5, <1>6 DEF Precommit, Committed
<1>9. NewCounts(new)
  BY <1>4, <1>5, <1>6, FreshPlaces DEF NewCounts, OnePlace, fresh
<1>10. new \in SoundDisk
  BY <1>1, <1>2, <1>5, <1>6, <1>8, <1>9 DEF SoundDisk
<1>11. /\ job' \in Job /\ job'.within = "commit" /\ job'.task = job.task
       /\ job'.pc \in {"install", "raised"} /\ job'.journal = job.journal
       /\ job'.pc = "install" => fs' = new
  BY <1>1, <1>7 DEF Job, Busy
<1>12. Position(job', fs')
  BY <1>6, <1>8, <1>11 DEF Position, Preparing, Journaled, Deciding, Purging
<1>13. AppInv'
  BY <1>1, <1>2, <1>7, <1>11 DEF ResetInv, AppInv, At
<1>14. DeckInv'
  BY <1>2, <1>7 DEF ResetInv, DeckInv, SameGeneration
<1>15. BudgetInv'
  <2>1. left' \in [resets : 0..MaxResets, errors : 0..MaxErrors, crashes : 0..MaxCrashes]
        /\ left'.resets = left.resets
    BY <1>7, ResetAssumption DEF ResetInv, BudgetInv, SpendOf
  <2>2. job'.pc \notin Upcoming
    BY <1>11 DEF Upcoming, Preparing, Journaled, Deciding
  <2>3. fs'.epoch \in {fs.epoch, fs.epoch + 1}
    BY <1>6, <1>7
  <2>4. fs'.epoch + left.resets <= MaxResets + 1 /\ fs'.epoch > 0
    BY <1>2, <1>3, <2>3, ResetAssumption
  <2>5. generation' = generation
    BY <1>7
  <2> QED
    BY <1>11, <2>1, <2>2, <2>4, <2>5 DEF ResetInv, BudgetInv
<1>16. ResetInv'
  BY <1>1, <1>7, <1>10, <1>11, <1>12, <1>13, <1>14, <1>15 DEF ResetInv
<1>17. CASE fs' = fs
  BY <1>2, <1>7, <1>16, <1>17, Quiet DEF Data
<1>18. CASE fs' = new
  <2>1. Data(new) = fresh
    BY <1>5, <1>6, <1>8, <1>10, JournalDecides
  <2>2. Counts' = Fresh(fs'.epoch) /\ fs'.epoch = fs.epoch + 1
    BY <1>6, <1>18, <2>1 DEF Counts, Data, fresh
  <2>3. Atomic!Replace
    BY <1>2, <1>7, <2>2 DEF Atomic!Replace, Atomic!Names, Names, Fresh
  <2> QED
    BY <1>16, <2>3
<1> QED
  BY <1>7, <1>17, <1>18

-----------------------------------------------------------------------------
(* What is returned to, and the errors.                                    *)

\* Places in the program that rely on nothing.
Anywhere == {"look", "raised", "failed"}

LEMMA AnywhereIsFine ==
    ASSUME ResetInv, ~At("idle"), NEW next \in Job, next.pc \in Anywhere,
           next.task = job.task, next.within = "begin" => job.within = "begin", Think(next)
    PROVE  ResetInv' /\ Atomic!Rearrange
<1>1. Position(next, fs) /\ next.pc \notin Upcoming /\ next.pc # "idle"
  BY DEF Anywhere, Position, Upcoming, Preparing, Journaled, Deciding, Purging
<1> QED
  BY <1>1, ThinkKeepsInv

LEMMA FailedIsFine ==
    ASSUME ResetInv, ~At("idle"), NEW committed \in BOOLEAN, Think(Failed(committed))
    PROVE  ResetInv' /\ Atomic!Rearrange
<1>1. /\ Failed(committed) \in Job /\ Failed(committed).pc \in Anywhere
      /\ Failed(committed).task = job.task /\ Failed(committed).within = job.within
  BY Busied DEF Failed, Job, Busy, Anywhere
<1> QED
  BY <1>1, AnywhereIsFine

LEMMA ReturnedKeepsInv == ASSUME ResetInv, Returned PROVE ResetInv' /\ Atomic!Rearrange
<1>1. /\ job \in Job /\ fs \in SoundDisk /\ fs \in Disk /\ ~At("idle") /\ job.pc = "returned"
      /\ ~fs.staging /\ fs.journal = NoJournal
  BY Busied DEF Returned, At, Position, SoundDisk
<1>2. CASE job.within = "begin" /\ Think(Begun)
  <2>1. fs.epoch > 0
    BY <1>2 DEF ResetInv, BudgetInv
  <2>2. [phase |-> "precommit", originals |-> Originals, replacements |-> None] \in Journals
    BY <1>1, FreshPlaces DEF Originals, Journals, Phases, Disk
  <2>3. /\ Begun \in Job /\ Begun.pc = "mkdir" /\ Begun.within = "prepare"
        /\ Begun.task = job.task
        /\ Begun.journal = [phase |-> "precommit", originals |-> fs.root, replacements |-> None]
    BY <1>1, <2>2 DEF Begun, Originals, Job, Busy, Upcoming, Preparing
  <2>4. Position(Begun, fs)
    BY <1>1, <2>1, <2>3 DEF Position, Preparing, Journaled, Deciding, Purging
  <2> QED
    BY <1>1, <1>2, <2>3, <2>4, ThinkKeepsInv
<1>3. CASE Think([job EXCEPT !.pc = "ready"])
  <2>1. Position([job EXCEPT !.pc = "ready"], fs)
    BY <1>1 DEF Position, Job, Preparing, Journaled, Deciding, Purging
  <2> QED
    BY <1>1, <1>3, <2>1, GoesOn DEF Busy, Upcoming, Preparing, Journaled, Deciding
<1>4. CASE Think(NoJob)
  <2>1. NoJob \in Job /\ NoJob.pc = "idle" /\ NoJob.task = "none" /\ NoJob.within = "recover"
    BY DEF NoJob, Job
  <2>2. Position(NoJob, fs)
    BY <2>1 DEF Position, Preparing, Journaled, Deciding, Purging
  <2>3. "idle" \notin Upcoming
    BY DEF Upcoming, Preparing, Journaled, Deciding
  <2> QED
    BY <1>1, <1>4, <2>1, <2>2, <2>3, ThinkKeepsInv
<1> QED
  BY <1>1, <1>2, <1>3, <1>4, FailedIsFine DEF Returned

LEMMA AfterCommitKeepsInv ==
    ASSUME ResetInv, At("raised"), Think(AfterCommit)
    PROVE  ResetInv' /\ Atomic!Rearrange
<1>1. job \in Job /\ fs \in SoundDisk /\ fs \in Disk /\ ~At("idle")
  BY Busied DEF At
<1>2. CASE Precommit(fs) /\ Think([job EXCEPT !.pc = "restore", !.within = "abort",
                                          !.journal = fs.journal])
  <2> DEFINE next == [job EXCEPT !.pc = "restore", !.within = "abort", !.journal = fs.journal]
  <2>1. /\ next \in Job /\ next.pc = "restore" /\ next.within = "abort" /\ next.task = job.task
        /\ next.journal = fs.journal
    BY <1>1 DEF Job, Busy, Disk
  <2>2. Position(next, fs)
    BY <1>2, <2>1 DEF Position, Preparing, Journaled, Deciding, Purging
  <2>3. "restore" \notin Upcoming
    BY DEF Upcoming, Preparing, Journaled, Deciding
  <2> QED
    BY <1>1, <1>2, <2>1, <2>2, <2>3, ThinkKeepsInv
<1> QED
  BY <1>1, <1>2, FailedIsFine DEF AfterCommit, Precommit

(* A recovery that fails leaves the application unusable, or the deck      *)
(* thread without an answer.                                               *)
LEMMA RecoveryFails ==
    ASSUME ResetInv, At("raised"), job' = NoJob,
           app' = CASE job.task = "start" -> "down"
                    [] job.task = "repair" -> "stuck"
                    [] OTHER -> app,
           deck' = IF job.task = "deck" THEN [deck EXCEPT !.pc = "done"] ELSE deck,
           UNCHANGED <<fs, known, generation, left>>
    PROVE  ResetInv' /\ Atomic!Rearrange
<1>1. job \in Job /\ fs \in SoundDisk /\ ~At("idle") /\ app # "open"
  BY Busied DEF ResetInv, AppInv, At
<1>2. NoJob \in Job /\ NoJob.pc = "idle" /\ NoJob.task = "none" /\ NoJob.within = "recover"
  BY DEF NoJob, Job
<1>3. /\ app' \in {app, "down", "stuck"}
      /\ app' = "down" => app = "down" /\ deck' = deck
  BY DEF ResetInv, AppInv
<1>4. Position(job', fs')
  BY <1>2 DEF Position, Preparing, Journaled, Deciding, Purging
<1>5. AppInv'
  BY <1>1, <1>2, <1>3 DEF ResetInv, AppInv, At
<1>6. DeckInv'
  BY <1>1 DEF ResetInv, DeckInv, SameGeneration
<1>7. BudgetInv'
  <2>1. "idle" \notin Upcoming
    BY DEF Upcoming, Preparing, Journaled, Deciding
  <2> QED
    BY <1>2, <2>1 DEF ResetInv, BudgetInv
<1> QED
  BY <1>1, <1>2, <1>3, <1>4, <1>5, <1>6, <1>7, Quiet DEF ResetInv, Data

LEMMA RaisedKeepsInv == ASSUME ResetInv, Raised PROVE ResetInv' /\ Atomic!Rearrange
<1>1. job \in Job /\ ~At("idle") /\ At("raised")
  BY Busied DEF Raised, At
<1>2. CASE Think([job EXCEPT !.pc = "look", !.within = "restore"])
  <2> DEFINE next == [job EXCEPT !.pc = "look", !.within = "restore"]
  <2>1. next \in Job /\ next.pc \in Anywhere /\ next.task = job.task /\ next.within = "restore"
    BY <1>1 DEF Job, Busy, Anywhere
  <2> QED
    BY <1>1, <1>2, <2>1, AnywhereIsFine
<1> QED
  BY <1>1, <1>2, FailedIsFine, AfterCommitKeepsInv, RecoveryFails DEF Raised

LEMMA ResetFailedKeepsInv == ASSUME ResetInv, ResetFailed PROVE ResetInv' /\ Atomic!Rearrange
<1>1. fs \in SoundDisk /\ fs \in Disk /\ ~At("idle") /\ app # "open"
  BY Busied DEF ResetFailed, ResetInv, AppInv, At
<1>2. known' \in Epochs
  BY <1>1, ResetAssumption DEF ResetFailed, ResetInv, AppInv, Disk, Places, Names
<1>3. /\ job' \in Job /\ job'.pc = "look" /\ job'.task = "repair" /\ job'.within = "recover"
  BY DEF ResetFailed, NoJob, Job, Busy
<1>4. UNCHANGED <<fs, app, deck, generation, left>>
  BY DEF ResetFailed
<1>5. Position(job', fs')
  BY <1>3 DEF Position, Preparing, Journaled, Deciding, Purging
<1>6. AppInv'
  BY <1>1, <1>2, <1>3, <1>4 DEF ResetInv, AppInv, At
<1>7. DeckInv' /\ BudgetInv'
  BY <1>3, <1>4 DEF ResetInv, DeckInv, SameGeneration, BudgetInv, Upcoming, Preparing,
                    Journaled, Deciding
<1> QED
  BY <1>1, <1>3, <1>4, <1>5, <1>6, <1>7, Quiet DEF ResetInv, Data

-----------------------------------------------------------------------------
(* The end of a start, a reset or a repair.                                *)

LEMMA MigrateKeepsInv ==
    ASSUME ResetInv, Migrate PROVE ResetInv' /\ (Atomic!Rearrange \/ Atomic!Found)
<1>1. /\ job \in Job /\ fs \in SoundDisk /\ fs \in Disk /\ ~At("idle") /\ job.pc = "ready"
      /\ ~fs.staging /\ fs.journal = NoJournal /\ ~fs.marker /\ fs.epoch = 0
      /\ Position(job, fs) /\ "ready" \in Busy \ Upcoming
  <2>1. fs \in SoundDisk /\ fs.epoch \in Nat /\ ~fs.marker
    BY Busied, ResetAssumption DEF Disk, Migrate
  <2>2. fs.epoch = 0
    BY <2>1 DEF SoundDisk
  <2>3. "ready" \in Busy \ Upcoming
    BY DEF Busy, Upcoming, Preparing, Journaled, Deciding
  <2> QED
    BY <2>1, <2>2, <2>3, Busied DEF Migrate, At, Position, SoundDisk
<1>2. ASSUME NEW n \in LegacyFiles, Op([fs EXCEPT !.root[n] = 1], "ready")
      PROVE  ResetInv' /\ (Atomic!Rearrange \/ Atomic!Found)
  <2> DEFINE root == [fs.root EXCEPT ![n] = 1]
             new  == [fs EXCEPT !.root = root]
  <2>1. /\ root \in Places
        /\ \A m \in Names : fs.root[m] \in {0, 1} /\ root[m] \in {fs.root[m], 1}
    BY <1>1, ResetAssumption DEF SoundDisk, NothingAside, Disk, Places, Epochs, Names
  <2> HIDE DEF root
  <2>2. /\ new \in Disk /\ new.epoch = 0 /\ ~new.staging /\ new.journal = NoJournal /\ new.root = root
        /\ new.folders = fs.folders /\ new.old = fs.old /\ new.new = fs.new /\ new.tmp = fs.tmp
    BY <1>1, <2>1 DEF Disk
  <2> HIDE DEF new
  <2>3. new \in SoundDisk
    BY <1>1, <2>1, <2>2 DEF SoundDisk, NothingAside, Precommit, Committed
  <2>4. Position([job EXCEPT !.pc = "ready"], new)
    BY <1>1, <2>2 DEF Position, Job, Preparing, Journaled, Deciding, Purging
  <2>5. Op(new, "ready")
    BY <1>2 DEF new, root
  <2>6. ResetInv' /\ fs' \in {fs, new} /\ app # "open" /\ UNCHANGED <<app, known>>
    BY <1>1, <2>2, <2>3, <2>4, <2>5, OpKeepsResetInv
  <2>7. \A m \in Names : Counts'[m] \in {Counts[m], 1}
    BY <1>1, <2>1, <2>2, <2>6 DEF Counts
  <2> QED
    BY <1>1, <2>2, <2>6, <2>7 DEF Atomic!Found, Atomic!Names, Names
<1>3. CASE Op([fs EXCEPT !.marker = TRUE], "ready")
  <2> DEFINE new == [fs EXCEPT !.marker = TRUE]
  <2>1. new \in SoundDisk /\ new.epoch = fs.epoch /\ Data(new) = Data(fs) /\ ~new.staging
    BY <1>1 DEF SoundDisk, Disk, NothingAside, Precommit, Committed, Data
  <2> HIDE DEF new
  <2>2. Position([job EXCEPT !.pc = "ready"], new)
    BY <1>1, <2>1 DEF Position, Job, Preparing, Journaled, Deciding, Purging
  <2>3. Op(new, "ready")
    BY <1>3 DEF new
  <2> QED
    BY <1>1, <2>1, <2>2, <2>3, OpKeepsInv
<1> QED
  BY <1>2, <1>3 DEF Migrate

LEMMA NoJobFits ==
    ASSUME NEW d
    PROVE  NoJob \in Job /\ NoJob.task = "none" /\ NoJob.within = "recover" /\ NoJob.pc = "idle"
           /\ Position(NoJob, d) /\ NoJob.pc \notin Upcoming
BY DEF NoJob, Job, Position, Upcoming, Preparing, Journaled, Deciding, Purging

LEMMA ReadyKeepsInv == ASSUME ResetInv, Ready PROVE ResetInv' /\ Atomic!Open
<1> DEFINE epoch == IF fs.epoch = 0 THEN 1 ELSE fs.epoch
<1>1. /\ job \in Job /\ fs \in SoundDisk /\ fs \in Disk /\ ~At("idle") /\ app # "open"
      /\ ~fs.staging /\ fs.journal = NoJournal /\ fs.marker /\ NothingAside(fs)
      /\ Precommit(fs) = FALSE /\ Committed(fs) = FALSE
  BY Busied DEF Ready, At, Position, SoundDisk, ResetInv, AppInv, BudgetInv, Precommit, Committed
<1>2. /\ fs.root \in Places /\ fs.epoch \in 0..(MaxResets + 1) /\ left.resets \in Nat
      /\ fs.epoch + left.resets <= MaxResets + 1 /\ left.resets <= MaxResets
  BY <1>1, ResetAssumption DEF Disk, ResetInv, BudgetInv
<1>3. /\ epoch \in 0..(MaxResets + 1) /\ epoch > 0 /\ epoch + left.resets <= MaxResets + 1
      /\ epoch \in Epochs
  BY <1>2, ResetAssumption DEF Epochs
<1>4. /\ Made \in Places
      /\ \A n \in Dirs : Made[n] = epoch
      /\ IF fs.epoch = 0 THEN \A n \in Names : Made[n] \in {fs.root[n], 1} ELSE Made = fs.root
  BY <1>1, <1>2, <1>3, ResetAssumption DEF Made, NothingAside, Places, Epochs, Names
<1> HIDE DEF Made
<1>5. /\ fs' = [fs EXCEPT !.root = Made, !.epoch = epoch]
      /\ known' = epoch /\ app' = "open" /\ job' = NoJob
      /\ UNCHANGED <<deck, generation, left>>
  BY <1>1, <1>4, ResetAssumption DEF Ready, Disk
<1>6. /\ fs' \in Disk /\ fs'.root = Made /\ fs'.epoch = epoch /\ ~fs'.staging
      /\ fs'.journal = NoJournal /\ fs'.marker /\ fs'.folders = fs.folders /\ fs'.tmp = fs.tmp
      /\ fs'.old = fs.old /\ fs'.new = fs.new
  BY <1>1, <1>3, <1>4, <1>5 DEF Disk
<1> HIDE DEF epoch
<1>7. fs' \in SoundDisk
  BY <1>1, <1>3, <1>4, <1>6 DEF SoundDisk, NothingAside, Precommit, Committed
<1>8. AppInv'
  BY <1>3, <1>5, <1>6, NoJobFits DEF AppInv, At
<1>9. DeckInv'
  BY <1>1, <1>5 DEF ResetInv, DeckInv, SameGeneration
<1>10. BudgetInv'
  BY <1>2, <1>3, <1>5, <1>6, NoJobFits DEF ResetInv, BudgetInv
<1>11. ResetInv'
  BY <1>5, <1>7, <1>8, <1>9, <1>10, NoJobFits DEF ResetInv
<1>12. Counts = fs.root /\ Counts' = Made
  BY <1>1, <1>6 DEF Counts
<1>13. fs'.epoch = (IF fs.epoch = 0 THEN 1 ELSE fs.epoch)
  BY <1>6 DEF epoch
<1> QED
  BY <1>1, <1>4, <1>5, <1>6, <1>11, <1>12, <1>13 DEF Atomic!Open, Atomic!Names, Names

LEMMA NotReadyKeepsInv == ASSUME ResetInv, NotReady PROVE ResetInv' /\ Atomic!Rearrange
<1>1. fs \in SoundDisk /\ job \in Job /\ ~At("idle") /\ app # "open"
  BY Busied DEF NotReady, ResetInv, AppInv, At
<1>2. /\ job' \in Job /\ job'.pc \in {"failed", "raised"}
      /\ job'.task = job.task /\ job'.within = job.within
  BY <1>1 DEF NotReady, Failed, Job, Busy
<1>3. UNCHANGED <<fs, app, known, deck, generation>> /\ SpendOf("errors")
  BY DEF NotReady
<1>4. Position(job', fs') /\ job'.pc \notin Upcoming /\ job'.pc # "idle"
  BY <1>2 DEF Position, Upcoming, Preparing, Journaled, Deciding, Purging
<1>5. AppInv'
  BY <1>1, <1>2, <1>3, <1>4 DEF ResetInv, AppInv, At
<1>6. DeckInv'
  BY <1>3 DEF ResetInv, DeckInv, SameGeneration
<1>7. BudgetInv'
  <2>1. left' \in [resets : 0..MaxResets, errors : 0..MaxErrors, crashes : 0..MaxCrashes]
        /\ left'.resets = left.resets
    BY <1>3, ResetAssumption DEF ResetInv, BudgetInv, SpendOf
  <2> QED
    BY <1>2, <1>3, <1>4, <2>1 DEF ResetInv, BudgetInv
<1> QED
  BY <1>1, <1>2, <1>3, <1>4, <1>5, <1>6, <1>7, Quiet DEF ResetInv, Data

-----------------------------------------------------------------------------
(* The process, the user and the deck thread.                              *)

\* What an abstract step looks like.
AtomicStep == [Atomic!Next]_Atomic!vars

LEMMA StepsKeepInv == ASSUME ResetInv, Steps PROVE ResetInv' /\ AtomicStep
<1>1. ASSUME ResetInv' /\ Atomic!Rearrange PROVE ResetInv' /\ AtomicStep
  BY <1>1 DEF AtomicStep, Atomic!Next
<1>2. ASSUME ResetInv' /\ (Atomic!Rearrange \/ Atomic!Found \/ Atomic!Open \/ Atomic!Replace)
      PROVE  ResetInv' /\ AtomicStep
  BY <1>2 DEF AtomicStep, Atomic!Next
<1>3. CASE Look \/ Restore \/ Install \/ Purge \/ PurgeTmp \/ PurgeJournal \/ Discard
  BY <1>1, <1>3, LookKeepsInv, RestoreKeepsInv, InstallKeepsInv, PurgeKeepsInv, PurgeTmpKeepsInv,
     PurgeJournalKeepsInv, DiscardKeepsInv
<1>4. CASE MakeStaging \/ PrecommitTmp \/ PrecommitJournal \/ MakeFolder \/ MoveAway \/ Prepare
           \/ CommitTmp
  BY <1>1, <1>4, MakeStagingKeepsInv, PrecommitTmpKeepsInv, PrecommitJournalKeepsInv,
     MakeFolderKeepsInv, MoveAwayKeepsInv, PrepareKeepsInv, CommitTmpKeepsInv
<1>5. CASE Returned \/ Raised \/ ResetFailed \/ NotReady
  BY <1>1, <1>5, ReturnedKeepsInv, RaisedKeepsInv, ResetFailedKeepsInv, NotReadyKeepsInv
<1>6. CASE CommitJournal \/ Migrate \/ Ready
  BY <1>2, <1>6, CommitJournalKeepsInv, MigrateKeepsInv, ReadyKeepsInv
<1> QED
  BY <1>3, <1>4, <1>5, <1>6 DEF Steps

LEMMA StartKeepsInv == ASSUME ResetInv, Start PROVE ResetInv' /\ AtomicStep
<1>1. /\ app = "down" /\ deck = NoDeck /\ UNCHANGED <<fs, app, known, deck, left>>
      /\ generation' = 0
  BY DEF Start, ResetInv, AppInv
<1>2. /\ job' \in Job /\ job'.pc = "look" /\ job'.task = "start" /\ job'.within = "recover"
  BY DEF Start, NoJob, Job, Busy
<1>3. Position(job', fs') /\ job'.pc \notin Upcoming
  BY <1>2 DEF Position, Upcoming, Preparing, Journaled, Deciding, Purging
<1>4. AppInv'
  BY <1>1, <1>2 DEF ResetInv, AppInv, At
<1>5. DeckInv'
  BY <1>1, ResetAssumption DEF ResetInv, DeckInv, NoDeck
<1>6. BudgetInv'
  BY <1>1, <1>2, <1>3, ResetAssumption DEF ResetInv, BudgetInv
<1>7. ResetInv'
  BY <1>1, <1>2, <1>3, <1>4, <1>5, <1>6 DEF ResetInv
<1>8. Atomic!Rearrange
  BY <1>1, Quiet
<1> QED
  BY <1>7, <1>8 DEF AtomicStep, Atomic!Next

(* However the process ends, the disk is what it was.                      *)
LEMMA StopKeepsInv ==
    ASSUME ResetInv, Stop, UNCHANGED left \/ SpendOf("crashes") PROVE ResetInv' /\ AtomicStep
<1>1. /\ fs \in SoundDisk /\ app' = "down" /\ job' = NoJob /\ known' = 0 /\ deck' = NoDeck
      /\ UNCHANGED <<fs, generation>>
  BY DEF Stop, ResetInv
<1>2. AppInv'
  BY <1>1, NoJobFits, ResetAssumption DEF AppInv, At, Epochs
<1>3. DeckInv'
  BY <1>1, ResetAssumption DEF ResetInv, DeckInv, NoDeck, Epochs
<1>4. BudgetInv'
  <2>1. left' \in [resets : 0..MaxResets, errors : 0..MaxErrors, crashes : 0..MaxCrashes]
        /\ left'.resets = left.resets
    BY ResetAssumption DEF ResetInv, BudgetInv, SpendOf
  <2> QED
    BY <1>1, <2>1, NoJobFits DEF ResetInv, BudgetInv
<1>5. ResetInv'
  BY <1>1, <1>2, <1>3, <1>4, NoJobFits DEF ResetInv
<1>6. Counts' = Counts
  BY <1>1 DEF Counts
<1>7. CASE app = "open"
  BY <1>1, <1>5, <1>6, <1>7 DEF AtomicStep, Atomic!Next, Atomic!Close
<1>8. CASE app # "open"
  BY <1>1, <1>5, <1>6, <1>8 DEF AtomicStep, Atomic!Next, Atomic!Rearrange
<1> QED
  BY <1>7, <1>8

(* Files are written beside an open application only, and as its own.      *)
LEMMA WritesAreOfThisEpoch ==
    ASSUME ResetInv, app = "open", NEW written \in SUBSET Files,
           fs' = [fs EXCEPT !.root = [n \in Names |-> IF n \in written THEN fs.epoch ELSE @[n]]],
           UNCHANGED <<app, known, job, generation, left>>
    PROVE  /\ fs' \in SoundDisk /\ fs'.epoch = fs.epoch
           /\ AtomicStep
<1> DEFINE root == [n \in Names |-> IF n \in written THEN fs.epoch ELSE fs.root[n]]
<1>1. /\ fs \in SoundDisk /\ fs \in Disk /\ ~fs.staging /\ fs.journal = NoJournal
      /\ fs.epoch > 0 /\ NothingAside(fs) /\ known = fs.epoch
  BY Busied DEF ResetInv, AppInv, SoundDisk
<1>2. /\ root \in Places /\ \A n \in Dirs : root[n] = fs.root[n]
      /\ \A n \in Names : root[n] # fs.root[n] => n \in Files /\ root[n] = fs.epoch
  BY <1>1, ResetAssumption DEF Disk, Places, Epochs, Names
<1>3. fs' = [fs EXCEPT !.root = root]
  BY <1>1 DEF Disk
<1> HIDE DEF root
<1>4. /\ fs' \in Disk /\ fs'.root = root /\ fs'.epoch = fs.epoch /\ ~fs'.staging
      /\ fs'.journal = NoJournal /\ fs'.marker = fs.marker /\ fs'.folders = fs.folders
      /\ fs'.old = fs.old /\ fs'.new = fs.new /\ fs'.tmp = fs.tmp
  BY <1>1, <1>2, <1>3 DEF Disk
<1>5. fs' \in SoundDisk
  BY <1>1, <1>2, <1>4 DEF SoundDisk, NothingAside, Precommit, Committed
<1>6. Counts = fs.root /\ Counts' = root
  BY <1>1, <1>4 DEF Counts
<1>7. Atomic!Write
  BY <1>1, <1>2, <1>4, <1>6 DEF Atomic!Write, Atomic!Names, Names
<1> QED
  BY <1>4, <1>5, <1>7 DEF AtomicStep, Atomic!Next

LEMMA UseKeepsInv == ASSUME ResetInv, Use PROVE ResetInv' /\ AtomicStep
<1>1. /\ app = "open" /\ job = NoJob /\ fs \in Disk /\ known = fs.epoch /\ ~fs.staging
      /\ fs.epoch > 0 /\ UNCHANGED <<job, app, known, deck, generation, left>>
  BY Busied DEF Use, ResetInv, AppInv
<1>2. PICK n \in Files : fs' = [fs EXCEPT !.root[n] = known]
  BY DEF Use
<1>3. fs' = [fs EXCEPT !.root = [m \in Names |-> IF m \in {n} THEN fs.epoch ELSE @[m]]]
  BY <1>1, <1>2 DEF Disk, Places, Names
<1>4. fs' \in SoundDisk /\ fs'.epoch = fs.epoch /\ AtomicStep
  BY <1>1, <1>3, WritesAreOfThisEpoch
<1>5. ~fs'.staging
  BY <1>1, <1>2 DEF Disk
<1>6. AppInv' /\ DeckInv' /\ BudgetInv'
  BY <1>1, <1>4, <1>5 DEF ResetInv, AppInv, At, DeckInv, SameGeneration, BudgetInv
<1> QED
  BY <1>1, <1>4, <1>6, NoJobFits DEF ResetInv

LEMMA ResetKeepsInv == ASSUME ResetInv, Reset PROVE ResetInv' /\ AtomicStep
<1>1. /\ app = "open" /\ fs.epoch > 0 /\ UNCHANGED <<fs, known, deck>> /\ fs \in Disk
      /\ app' = "closed" /\ generation' = generation + 1
      /\ left.resets > 0 /\ left' = [left EXCEPT !.resets = @ - 1]
  BY Busied DEF Reset, SpendOf, ResetInv, AppInv
<1>2. /\ job' \in Job /\ job'.pc = "look" /\ job'.task = "reset" /\ job'.within = "begin"
  BY DEF Reset, NoJob, Job, Busy
<1>3. Position(job', fs')
  BY <1>2 DEF Position, Preparing, Journaled, Deciding, Purging
<1>4. AppInv'
  BY <1>1, <1>2 DEF ResetInv, AppInv, At
<1>5. /\ left' \in [resets : 0..MaxResets, errors : 0..MaxErrors, crashes : 0..MaxCrashes]
      /\ left'.resets = left.resets - 1 /\ left.resets \in Nat
  BY <1>1, ResetAssumption DEF ResetInv, BudgetInv
<1>6. fs.epoch \in Nat /\ generation \in Nat
  BY <1>1, ResetAssumption DEF Disk, ResetInv, DeckInv
<1>7. DeckInv'
  BY <1>1, <1>5, <1>6, ResetAssumption DEF ResetInv, DeckInv, BudgetInv, SameGeneration
<1>8. BudgetInv'
  BY <1>1, <1>2, <1>5, <1>6, ResetAssumption DEF ResetInv, BudgetInv
<1>9. Counts' = Counts
  BY <1>1 DEF Counts
<1>10. Atomic!Close
  BY <1>1, <1>9 DEF Atomic!Close
<1> QED
  BY <1>1, <1>2, <1>3, <1>4, <1>7, <1>8, <1>10 DEF ResetInv, AtomicStep, Atomic!Next

(* The deck thread starts beside an open application.                      *)
LEMMA DeckStartKeepsInv == ASSUME ResetInv, DeckStart PROVE ResetInv' /\ AtomicStep
<1>1. /\ app = "open" /\ fs \in Disk /\ UNCHANGED <<fs, job, app, known, generation, left>>
      /\ deck' = [pc |-> "started", generation |-> generation, epoch |-> fs.epoch]
  BY Busied DEF DeckStart
<1>2. DeckInv'
  BY <1>1, ResetAssumption DEF ResetInv, DeckInv, SameGeneration, Disk, Epochs
<1>3. AppInv' /\ BudgetInv'
  BY <1>1 DEF ResetInv, AppInv, At, BudgetInv
<1>4. UNCHANGED Atomic!vars
  BY <1>1 DEF Atomic!vars, Counts
<1> QED
  BY <1>1, <1>2, <1>3, <1>4 DEF ResetInv, AtomicStep

LEMMA DeckCheckKeepsInv == ASSUME ResetInv, DeckCheck PROVE ResetInv' /\ AtomicStep
<1>1. /\ UNCHANGED <<fs, app, known, generation, left>> /\ deck.pc = "started"
      /\ deck' = [deck EXCEPT !.pc = "fetching"] /\ job = NoJob
      /\ app # "down"
  BY DEF DeckCheck, ResetInv, AppInv, NoDeck
<1>2. CASE fs.staging
  <2>1. /\ job' \in Job /\ job'.pc = "look" /\ job'.task = "deck" /\ job'.within = "recover"
    BY <1>2 DEF DeckCheck, NoJob, Job, Busy
  <2>2. Position(job', fs') /\ job'.pc \notin Upcoming
    BY <2>1 DEF Position, Upcoming, Preparing, Journaled, Deciding, Purging
  <2>3. AppInv'
    BY <1>1, <1>2, <2>1 DEF ResetInv, AppInv, At
  <2>4. BudgetInv'
    BY <1>1, <2>1, <2>2 DEF ResetInv, BudgetInv
  <2> QED
    BY <1>1, <2>1, <2>2, <2>3, <2>4
       DEF ResetInv, DeckInv, SameGeneration, AtomicStep, Atomic!vars, Counts
<1>3. CASE ~fs.staging
  <2>1. job' = job
    BY <1>3 DEF DeckCheck
  <2>2. AppInv' /\ BudgetInv'
    BY <1>1, <2>1 DEF ResetInv, AppInv, At, BudgetInv
  <2> QED
    BY <1>1, <2>1, <2>2
       DEF ResetInv, DeckInv, SameGeneration, AtomicStep, Atomic!vars, Counts
<1> QED
  BY <1>2, <1>3

LEMMA DeckWriteKeepsInv == ASSUME ResetInv, DeckWrite PROVE ResetInv' /\ AtomicStep
<1>1. /\ UNCHANGED <<job, app, known, generation, left>> /\ deck.pc = "fetching"
      /\ deck' = [deck EXCEPT !.pc = "done"] /\ job = NoJob /\ app # "down"
      /\ fs \in SoundDisk /\ fs \in Disk
  BY Busied DEF DeckWrite, ResetInv, AppInv, NoDeck
<1>2. DeckInv'
  BY <1>1 DEF ResetInv, DeckInv
<1>3. CASE fs' = fs
  <2>1. AppInv' /\ BudgetInv'
    BY <1>1, <1>3 DEF ResetInv, AppInv, At, BudgetInv
  <2> QED
    BY <1>1, <1>2, <1>3, <2>1 DEF ResetInv, AtomicStep, Atomic!vars, Counts
<1>4. ASSUME SameGeneration, NEW written \in SUBSET DeckFiles,
             fs' = [fs EXCEPT !.root = [n \in Names |-> IF n \in written THEN deck.epoch ELSE @[n]]]
      PROVE  ResetInv' /\ AtomicStep
  <2>1. app = "open" /\ deck.epoch = fs.epoch /\ ~fs.staging /\ fs.epoch > 0 /\ known = fs.epoch
    BY <1>1, <1>4 DEF ResetInv, DeckInv, AppInv
  <2>2. written \in SUBSET Files
    BY ResetAssumption
  <2>3. fs' \in SoundDisk /\ fs'.epoch = fs.epoch /\ AtomicStep
    BY <1>1, <1>4, <2>1, <2>2, WritesAreOfThisEpoch
  <2>4. ~fs'.staging
    BY <1>1, <1>4, <2>1 DEF Disk
  <2>5. AppInv' /\ BudgetInv'
    BY <1>1, <2>1, <2>3, <2>4 DEF ResetInv, AppInv, At, BudgetInv
  <2> QED
    BY <1>1, <1>2, <2>3, <2>5, NoJobFits DEF ResetInv
<1> QED
  BY <1>3, <1>4 DEF DeckWrite

-----------------------------------------------------------------------------
(* The theorems.                                                           *)

LEMMA ResetInvInit == ASSUME ResetInit PROVE ResetInv /\ Atomic!Init
<1>1. /\ fs = [root |-> None, old |-> None, new |-> None, staging |-> FALSE,
                folders |-> {}, tmp |-> FALSE, journal |-> NoJournal, marker |-> FALSE, epoch |-> 0]
      /\ job = NoJob /\ app = "down" /\ known = 0 /\ deck = NoDeck /\ generation = 0
      /\ left = [resets |-> MaxResets, errors |-> MaxErrors, crashes |-> MaxCrashes]
  BY DEF ResetInit
<1>2. fs \in SoundDisk
  BY <1>1, FreshPlaces, ResetAssumption
     DEF SoundDisk, Disk, NothingAside, Precommit, Committed
<1>3. AppInv
  BY <1>1, NoJobFits, ResetAssumption DEF AppInv, At, Epochs
<1>4. DeckInv
  BY <1>1, ResetAssumption DEF DeckInv, NoDeck, Epochs
<1>5. BudgetInv
  BY <1>1, NoJobFits, ResetAssumption DEF BudgetInv
<1>6. Counts = None
  BY <1>1 DEF Counts
<1> QED
  BY <1>1, <1>2, <1>3, <1>4, <1>5, <1>6, NoJobFits
     DEF ResetInv, Atomic!Init, Atomic!Names, Names, None

LEMMA ResetInvStep == ASSUME ResetInv, [ResetNext]_resetVars PROVE ResetInv' /\ AtomicStep
<1>1. CASE UNCHANGED resetVars
  BY <1>1 DEF resetVars, ResetInv, Position, AppInv, DeckInv, BudgetInv, SameGeneration, At,
              AtomicStep, Atomic!vars, Counts
<1>2. CASE Quit \/ Die
  BY <1>2, StopKeepsInv DEF Quit, Die
<1> QED
  BY <1>1, <1>2, StepsKeepInv, StartKeepsInv, UseKeepsInv, ResetKeepsInv, DeckStartKeepsInv,
     DeckCheckKeepsInv, DeckWriteKeepsInv DEF ResetNext

(* The inductive invariant of resets.                                      *)
THEOREM ResetInvariance == ResetSpec => []ResetInv
<1>1. ResetInit => ResetInv
  BY ResetInvInit
<1>2. ResetInv /\ [ResetNext]_resetVars => ResetInv'
  BY ResetInvStep
<1> QED
  BY <1>1, <1>2, PTL DEF ResetSpec

(* The variables have their types: no epoch and no generation is needed    *)
(* that the bound on resets does not allow for (LocalReset's variables).   *)
THEOREM ResetTypeCorrect == ResetSpec => []ResetTypeOK
<1>1. ResetInv => ResetTypeOK
  <2> SUFFICES ASSUME ResetInv PROVE ResetTypeOK
    OBVIOUS
  <2>1. fs \in Disk
    BY Busied
  <2>2. \A e \in 0..(MaxResets + 1) : e \in Epochs
    BY ResetAssumption DEF Epochs
  <2> QED
    BY <2>1, <2>2 DEF ResetInv, AppInv, DeckInv, BudgetInv, ResetTypeOK, Disk
<1> QED
  BY <1>1, ResetInvariance, PTL

(* After a crash anywhere, what is on the disk tells a recovery what to do *)
(* (_recover, _discard_unpublished_reset).                                 *)
THEOREM RecoveryCanTell == ResetSpec => []RecoveryIsUnambiguous
<1>1. ResetInv => RecoveryIsUnambiguous
  <2> SUFFICES ASSUME ResetInv, fs.staging PROVE RecoveryIsUnambiguous
    BY DEF RecoveryIsUnambiguous
  <2>1. fs \in SoundDisk
    BY DEF ResetInv
  <2> QED
    BY <2>1 DEF SoundDisk, NothingAside, OldCounts, NewCounts, Precommit, Committed,
                RecoveryIsUnambiguous
<1> QED
  BY <1>1, ResetInvariance, PTL

(* The files, the journal and the errors together do what AtomicReset      *)
(* promises: every step of local_reset.py and of its callers is one step   *)
(* of the abstract reset, or none.                                         *)
THEOREM ResetImplementsAtomicReset == ResetSpec => ResetIsAtomic
<1>1. ResetInit => Atomic!Init
  BY ResetInvInit
<1>2. ResetInv /\ [ResetNext]_resetVars => [Atomic!Next]_Atomic!vars
  BY ResetInvStep DEF AtomicStep
<1> QED
  BY <1>1, <1>2, ResetInvariance, PTL DEF ResetSpec, ResetIsAtomic, Atomic!Spec
=============================================================================
