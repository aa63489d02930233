SPECIFICATION WindowsSpec
CONSTANTS
    Fields = {mode}
    Values = {m1, m2}
    Absent = Absent
    Games = {1, 2, 3}
    Foreign = {}
    Existing = {1, 2}
    Mode = mode
    MaxAttempts = 1
    PageSize = 1
    ModeIds = {m1, m2}
    ContextOf <- OneKind
    AtFirst <- OneByOne
    Budgets <- Bounds
    Accounts = {a, b}
    Guest = Guest
    Nobody = Nobody
    Requests = {r, s}
SYMMETRY Symmetry
INVARIANTS
    SavesAreToldAsTheyWent
    HistoryIsOneSnapshot
    NextGameStartsFromOwnWrites
    ProfilesAreRightful
    BusyMeansARequest
PROPERTIES
    OnlyWhatWasShownIsChanged
    LoadingWaitsForAnAnswer
    UpdateHoldsProfile
CHECK_DEADLOCK FALSE
