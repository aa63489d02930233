SPECIFICATION DesktopSpec
CONSTANTS
    Fields = {f1, f2}
    Values = {v1, v2, v3}
    Absent = Absent
    Records = {g1, g2}
    Contents = {fit, unfit}
    Unfit = {unfit}
    Accounts = {a1}
    Archives = {x1}
    Nothing = Nothing
    Latest = 3
    MaxTransferEdits = 1
    MaxPulls = 1
    MaxTransferFaults = 1
    Modes = {1, 2}
    Contexts = {"event", "season"}
    Definitions <- Seasons
    AtFirst <- FirstSeason
    MaxNumber = 1
    Tiers = 2
    Divisions = 1
    Entries = {0, 1}
    Blank = Blank
    MaxRecorded = 2
    MaxCorrections = 1
    MaxDecisions = 2
    Preferences = {"theme_mode", "score_input_mode"}
    Device = {"ui_scale"}
    AtStart = {"ui_scale"}
    Mode = "default_mode"
    MaxValue = 1
    Foreign <- UploadedByOthers
    None = None
SYMMETRY RecordSymmetry
INVARIANTS
    MergeKeepsBothSides
    WhatIsToldHolds
    PendingIsQueued
    SavedAsEntered
    FormsAgree
    ShownIsInForce
PROPERTIES
    DatabasesAreKept
    RefusedForAReason
    UploadsComeBack
CHECK_DEADLOCK FALSE
