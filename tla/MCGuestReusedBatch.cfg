SPECIFICATION FairSpec
CONSTANTS
    Fields = {f1}
    Values = {v1, v2}
    Absent = Absent
    Games = {g1}
    Refused = {}
    BatchSize = 2
    MaxOutboxId = 4
    MaxEdits = 2
    MaxFaults = 0
INVARIANTS
    GuestChangesReachServer
CHECK_DEADLOCK FALSE
