SPECIFICATION Spec
CONSTANTS
    Fields = {f1}
    Values = {v1, v2}
    Absent = Absent
    Games = {g1}
    Foreign = {}
    Workers = {w1}
    BatchSize = 2
    MaxOutboxId = 12
    MaxEdits = 2
    MaxOthers = 1
    MaxFaults = 0
    MaxAnswers = 1
INVARIANTS
    AnswersCanBeApplied
CHECK_DEADLOCK FALSE
