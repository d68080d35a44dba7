SPECIFICATION FullSpec
CONSTANTS
    Note = {n1, n2, n3}
    Text = {x1, x2}
    None = none
    MayFail = TRUE
    MaxRetries = 2
    BatchSize = 2
    MaxConcurrency = 2
SYMMETRY Symmetry
INVARIANT NothingStale
PROPERTIES KeepsUnchanged OnlyFailureForgets ImplementsIndex
CHECK_DEADLOCK FALSE
