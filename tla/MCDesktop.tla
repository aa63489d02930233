----------------------------- MODULE MCDesktop -----------------------------
(* What TLC checks of the work on one device, in one run: a behaviour is   *)
(* one of Recording, of Transfer, of MergeCases or of Settings, and uses   *)
(* says which.  They share no step: a migration or an import runs while no *)
(* form is open, a merge is one transaction, and the settings have a file  *)
(* of their own.                                                           *)
EXTENDS MergeCases, Transfer, Recording, MCSettings, TLC

VARIABLE uses   \* the part that is at work

RecordSymmetry == Permutations(Records)

desktopVars == <<vars, transferVars, recordingVars, settingsVars, uses>>

\* Mode 1 is new: it comes, at the top of the list, for a season.  Mode 2 is there
\* at first, is withdrawn and brought back, or becomes one of another kind in the
\* same context.
Seasons ==
    (1 :> {[kind |-> "rank", context |-> "season", active |-> TRUE]})
    @@ (2 :> {[kind |-> "event_points", context |-> "event",  active |-> TRUE],
              [kind |-> "event_points", context |-> "event",  active |-> FALSE],
              [kind |-> "rating",       context |-> "event",  active |-> TRUE]})

FirstSeason ==
    (1 :> Blank)
    @@ (2 :> [kind |-> "event_points", context |-> "event",  active |-> TRUE])

NoModes == [m \in Modes |-> Blank]

NoMerge ==
    /\ base = CHOOSE p \in Payload : ~Deleted(p)
    /\ sides = [s \in Sides |-> base]

NoTransfer ==
    /\ db = [p \in Profiles |-> Nothing] /\ bak = [p \in Profiles |-> NoBackup]
    /\ legacy = Nothing /\ dirs = [a \in Archives |-> Nothing]
    /\ open = Nothing /\ job = NoJob /\ told = {}
    /\ left = [edits |-> 0, pulls |-> 0, faults |-> 0]

NoRecording ==
    /\ offered = NoModes /\ playModes = NoModes /\ given = {} /\ stored = {}
    /\ memory = [default |-> Blank, lastUsed |-> Blank]
    /\ window = [modes |-> NoModes, mode |-> Blank]
    /\ form = Closed /\ log = <<>> /\ entered = <<>> /\ outbox = <<>>
    /\ rest = [corrections |-> 0, decisions |-> 0]

NoSettings == SettingsInit /\ file = None

DesktopInit ==
    \/ uses = "merge"    /\ Init          /\ NoTransfer /\ NoRecording /\ NoSettings
    \/ uses = "transfer" /\ TransferInit  /\ NoMerge    /\ NoRecording /\ NoSettings
    \/ uses = "record"   /\ RecordingInit /\ NoMerge    /\ NoTransfer  /\ NoSettings
    \/ uses = "settings" /\ SettingsInit  /\ NoMerge    /\ NoTransfer  /\ NoRecording

DesktopNext ==
    \/ /\ uses = "merge" /\ Next
       /\ UNCHANGED <<transferVars, recordingVars, settingsVars, uses>>
    \/ /\ uses = "transfer" /\ TransferNext
       /\ UNCHANGED <<vars, recordingVars, settingsVars, uses>>
    \/ /\ uses = "record" /\ RecordingNext
       /\ UNCHANGED <<vars, transferVars, settingsVars, uses>>
    \/ /\ uses = "settings" /\ SettingsNext
       /\ UNCHANGED <<vars, transferVars, recordingVars, uses>>

DesktopSpec == DesktopInit /\ [][DesktopNext]_desktopVars
=============================================================================
