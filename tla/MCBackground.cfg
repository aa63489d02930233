SPECIFICATION BackgroundSpec
CONSTANTS
    Fields = {f1}
    Values = {v1, v2}
    Absent = Absent
    Games = {g1, g2}
    Refused = {v2}
    BatchSize = 2
    MaxOutboxId = 4
    MaxEdits = 3
    MaxFaults = 1
    MaxJobs = 2
    MaxUpdateFaults = 2
INVARIANTS
    UploadsAreReflected
PROPERTIES
    WithdrawnStaysWithdrawn
    UploadsSettle
    InstallationIsGuarded
    UpdatesEnd
CHECK_DEADLOCK FALSE
