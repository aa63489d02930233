SPECIFICATION SettingsSpec
CONSTANTS
    Preferences = {"theme_mode", "score_input_mode"}
    Device = {"ui_scale"}
    AtStart = {"ui_scale"}
    Mode = "default_mode"
    MaxValue = 1
    Foreign <- UploadedByOthers
    None = None
INVARIANTS DefaultModeIsAMode
