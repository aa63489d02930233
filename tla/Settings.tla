------------------------------- MODULE Settings -------------------------------
(***************************************************************************)
(* The settings of a device and their exchange with the account: the file, *)
(* the settings window, what the program applies, the default mode in the  *)
(* database of the profile, and the row of the server that devices and     *)
(* the web write as a whole.                                               *)
(* (src/mdlogger/app_settings.py, settings.py, remote/settings_sync.py,    *)
(* ui/settings_window.py; upsert_user_settings of migration 0026.)         *)
(*                                                                         *)
(* Everything runs on the thread of the windows, so a handler is a step;   *)
(* only the two files a download writes are two steps.  Reading and        *)
(* writing the file may fail, requests may fail, be carried out unheard or *)
(* arrive late, and other clients upload at any time.                      *)
(***************************************************************************)
EXTENDS Naturals

CONSTANTS
    Preferences,   \* settings of the file that are exchanged (PREFERENCE_KEYS)
    Device,        \* settings of the file that are not (DEVICE_KEYS)
    AtStart,       \* those of them that take effect at the next start (ui_scale)
    Mode,          \* default_mode, which is exchanged but kept in the database
    MaxValue,      \* bound: values of a setting; 0 is the default, or last_used
    Foreign,       \* what other clients upload
    None           \* no window, no row, nothing pending

Keys == Preferences \cup Device
Shared == Preferences \cup {Mode}

Choices == 0..MaxValue
Odd == MaxValue + 1          \* a value of another version, or the text "None"
Unset == MaxValue + 2        \* NULL in the database
Settings == [Keys -> Choices]
SettingsFiles == [Keys -> Choices \cup {Odd}] \cup {None}   \* None: missing or damaged
Uploads == [Shared -> Choices \cup {Odd}]
SettingsRows == UNION {[K -> Choices \cup {Odd}] : K \in SUBSET Shared}

ASSUME SettingsAssumption ==
    /\ Preferences \cap Device = {} /\ Mode \notin Keys
    /\ AtStart \subseteq Device /\ MaxValue \in Nat \ {0}
    /\ Foreign \subseteq SettingsRows

ASSUME NoSettingsAssumption == None \notin Settings \cup SettingsRows \cup Nat

VARIABLES
    file,      \* settings.json
    mode,      \* default_mode of database_metadata
    applied,   \* what theme, animations and form follow; None: not running
    shown,     \* _settings of the settings window
    toStore,   \* the default mode a download has still to store
    server,    \* the row of user_settings
    late,      \* an upload whose sender gave up, still under way
    trouble,   \* history: a load or a save failed and no save succeeded since
    agreed     \* history: the last upload that was told to be stored, while
               \* nothing else can have been stored since

settingsVars == <<file, mode, applied, shown, toStore, server, late, trouble, agreed>>

Defaults == [k \in Keys |-> 0]

\* from_dict: a damaged value is the default one.
Loaded(f) ==
    IF f = None THEN Defaults ELSE [k \in Keys |-> IF f[k] = Odd THEN 0 ELSE f[k]]

\* What follows a change at once.
Applied(s) == [k \in Keys \ AtStart |-> s[k]]

\* get_default_mode: the text of the column.
DefaultMode == IF mode = Unset THEN Odd ELSE mode

SettingsInit ==
    /\ file \in {None} \cup {[k \in Keys |-> v] : v \in Choices \cup {Odd}}
    /\ mode = Unset
    /\ applied = None /\ shown = None /\ toStore = None
    /\ server = None /\ late = None
    /\ trouble = FALSE /\ agreed = None

Started == applied # None
Ready == shown # None /\ toStore = None

-----------------------------------------------------------------------------
(* The device.                                                             *)

\* SettingsRepository.load
Load(s) ==
    \/ s = Loaded(file) /\ UNCHANGED trouble
    \/ file # None /\ s = Defaults /\ trouble' = TRUE

StartProgram ==
    /\ ~Started
    /\ \E s \in Settings : Load(s) /\ applied' = Applied(s)
    /\ UNCHANGED <<file, mode, shown, toStore, server, late, agreed>>

OpenWindow ==
    /\ Started /\ shown = None
    /\ \E s \in Settings : Load(s) /\ shown' = s
    /\ UNCHANGED <<file, mode, applied, toStore, server, late, agreed>>

Close ==
    /\ Ready /\ shown' = None
    /\ UNCHANGED <<file, mode, applied, toStore, server, late, trouble, agreed>>

\* SettingsRepository.save: the file is replaced or stays.
Save(s) ==
    \/ file' = s /\ trouble' = FALSE
    \/ UNCHANGED file /\ trouble' = TRUE

\* (A slip: saved, but not told to the main window.)
CommitSilently(s) == shown' = s /\ Save(s) /\ UNCHANGED applied

\* _commit
Commit(s) == shown' = s /\ Save(s) /\ applied' = Applied(s)

Change ==
    /\ Ready
    /\ \E k \in Keys, v \in Choices : Commit([shown EXCEPT ![k] = v])
    /\ UNCHANGED <<mode, toStore, server, late, agreed>>

ResetToDefaults ==
    /\ Ready /\ Commit(Defaults)
    /\ UNCHANGED <<mode, toStore, server, late, agreed>>

ChooseDefaultMode ==
    /\ Ready /\ mode' \in Choices
    /\ UNCHANGED <<file, applied, shown, toStore, server, late, trouble, agreed>>

\* The program ends, or is killed.
EndProgram ==
    /\ Started /\ applied' = None /\ shown' = None /\ toStore' = None
    /\ UNCHANGED <<file, mode, server, late, trouble, agreed>>

-----------------------------------------------------------------------------
(* The exchange.                                                           *)

\* _preferences
Sent == [k \in Shared |-> IF k = Mode THEN DefaultMode ELSE shown[k]]

Upload ==
    /\ Ready
    /\ server' = Sent /\ agreed' = Sent
    /\ UNCHANGED <<file, mode, applied, shown, toStore, late, trouble>>

\* The request is told to have failed; it was refused, lost, carried out
\* unheard, or is still under way.
UploadFails ==
    /\ Ready
    /\ \/ server' = Sent /\ agreed' = None /\ UNCHANGED late
       \/ late = None /\ late' = Sent /\ UNCHANGED <<server, agreed>>
    /\ UNCHANGED <<file, mode, applied, shown, toStore, trouble>>

ArrivesLate ==
    /\ late # None /\ server' = late /\ late' = None /\ agreed' = None
    /\ UNCHANGED <<file, mode, applied, shown, toStore, trouble>>

\* The web, another device, an older version.
OtherUpload ==
    /\ server' \in Foreign /\ agreed' = None
    /\ UNCHANGED <<file, mode, applied, shown, toStore, late, trouble>>

\* (A slip: a preference that is off counts as missing.)
TakenIfSet(k) == k \in DOMAIN server /\ server[k] \in Choices \ {0}

\* A preference that is there and means something to this version.
Taken(k) == k \in DOMAIN server /\ server[k] \in Choices

\* _apply_downloaded_preferences, up to the database
Download ==
    /\ Ready /\ server # None
    /\ LET new == [k \in Keys |->
                      IF k \in Preferences /\ Taken(k) THEN server[k] ELSE shown[k]]
       IN  IF \E k \in Preferences : Taken(k) THEN Commit(new)
           ELSE UNCHANGED <<file, applied, shown, trouble>>
    /\ toStore' = IF Mode \in DOMAIN server THEN server[Mode] ELSE None
    /\ UNCHANGED <<mode, server, late, agreed>>

\* ... and the database, whatever the text; it may be locked.
StoreMode ==
    /\ toStore # None /\ toStore' = None
    /\ mode' \in {mode, toStore}
    /\ UNCHANGED <<file, applied, shown, server, late, trouble, agreed>>

SettingsNext ==
    \/ StartProgram \/ OpenWindow \/ Close \/ EndProgram
    \/ Change \/ ResetToDefaults \/ ChooseDefaultMode
    \/ Upload \/ UploadFails \/ ArrivesLate \/ OtherUpload \/ Download \/ StoreMode

SettingsSpec == SettingsInit /\ [][SettingsNext]_settingsVars

-----------------------------------------------------------------------------
SettingsTypeOK ==
    /\ file \in SettingsFiles /\ mode \in Choices \cup {Odd, Unset}
    /\ applied \in [Keys \ AtStart -> Choices] \cup {None}
    /\ shown \in Settings \cup {None}
    /\ toStore \in Choices \cup {Odd, None}
    /\ server \in SettingsRows \cup {None} /\ late \in Uploads \cup {None}
    /\ trouble \in BOOLEAN /\ agreed \in Uploads \cup {None}

\* After any sequence of changes, downloads, resets and restarts, what the
\* window shows is what the form and the theme follow and what the next start
\* will read, unless a load or a save failed: a score is read the way the
\* window says it is.
ShownIsInForce ==
    shown # None /\ ~trouble => applied = Applied(shown) /\ Loaded(file) = shown

\* A device that uploaded its settings, as far as it was told, and downloads
\* them again after other changes or a reset gets all of them back, whether
\* they are on, off or defaults, and keeps what is its own.
UploadsComeBack ==
    [][/\ Download => /\ \A k \in Device : shown'[k] = shown[k]
                      /\ agreed # None => \A k \in Preferences : shown'[k] = agreed[k]
       /\ StoreMode /\ agreed # None => mode' \in {mode, agreed[Mode]}]_settingsVars

\* db.py:435 says of get_default_mode "play_modes.id 또는 'last_used'" (the id
\* of a mode or last_used): so is what an upload sends, before anything odd
\* was downloaded.
DefaultModeIsAMode ==
    agreed # None /\ mode # Odd => agreed[Mode] # Odd
=============================================================================
