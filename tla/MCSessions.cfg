SPECIFICATION Spec
CONSTANTS
    member = member
    first = first
    second = second
    ui = ui
    worker = worker
    other = other
    Accounts = {member}
    Windows = {first, second}
    Threads = {ui, worker, other}
    Users = {ui}
    WindowOf <- TwoWindows
    Nobody = Nobody
    MaxTokens = 2
    MaxFaults = 1
    MaxActs = 1
CHECK_DEADLOCK FALSE
INVARIANTS SignedOutStaysSignedOut TokenPresentedIsNewest
PROPERTIES OfflineEnds
