SPECIFICATION RestSpec
CONSTANTS
    Fields = {f1}
    Values = {v1, v2}
    Absent = Absent
    Games = {g1}
    Foreign = {}
    Workers = {w1}
    BatchSize = 2
    MaxOutboxId = 12
    MaxEdits = 2
    MaxOthers = 1
    MaxFaults = 1
    MaxAnswers = 1
    Dirs = {global, guest}
    Files = {decks, etag}
    DeckFiles = {decks, etag}
    LegacyFiles = {decks}
    Global = global
    NoJournal = NoJournal
    MaxResets = 2
    MaxErrors = 3
    MaxCrashes = 1
INVARIANTS
    RecoveryIsUnambiguous
PROPERTIES
    EverythingComesToRest
    AnswersAreTaken
    ResetIsAtomic
    ResetSettles
CHECK_DEADLOCK FALSE
