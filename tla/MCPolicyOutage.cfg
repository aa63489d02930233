SPECIFICATION PolicySpec
CONSTANTS
    MaxVersion = 2
    MaxTime = 1
PROPERTIES FailureUsesCache
