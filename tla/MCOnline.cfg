SPECIFICATION OnlineSpec
CONSTANTS
    Fields = {f1}
    Values = {v1, v2}
    Absent = Absent
    Games = {g1, g2, g3}
    Foreign = {g3}
    Workers = {w1}
    BatchSize = 2
    MaxOutboxId = 8
    MaxEdits = 2
    MaxOthers = 1
    MaxFaults = 1
    MaxAnswers = 2
    MaxRelease = 3
    first = first
    second = second
    Builds = {first, second}
    Authentic <- SignedManifests
    MaxDirs = 2
    None = None
    MaxVersion = 2
    MaxTime = 1
SYMMETRY AnswerSymmetry
INVARIANTS
    OffersAreSound
PROPERTIES
    AnswerIsToWhatWasShown
    ChangesAreStampedAhead
    PolicyIsEnforced
CHECK_DEADLOCK FALSE
