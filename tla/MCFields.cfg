SPECIFICATION Spec
CONSTANTS
    Fields = {f1, f2}
    Values = {v1, v2}
    Absent = Absent
    Games = {g1}
    Foreign = {}
    Workers = {w1}
    BatchSize = 2
    MaxOutboxId = 12
    MaxEdits = 2
    MaxOthers = 2
    MaxFaults = 1
    MaxAnswers = 1
SYMMETRY Symmetry
INVARIANTS
    NoEditForgotten
    BaseIsAncestor
PROPERTIES
    UnsentEditsSurvive
    PushChangesOnlyOwnColumns
CHECK_DEADLOCK FALSE
