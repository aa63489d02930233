SPECIFICATION Spec
CONSTANTS
    Fields = {f1}
    Values = {v1, v2}
    Absent = Absent
    Games = {g1}
    Foreign = {}
    Workers = {w1, w2}
    BatchSize = 2
    MaxOutboxId = 12
    MaxEdits = 2
    MaxOthers = 1
    MaxFaults = 1
    MaxAnswers = 1
SYMMETRY WorkerSymmetry
INVARIANTS
    CursorCovers
    AckBehindCursor
CHECK_DEADLOCK FALSE
