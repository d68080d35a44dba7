SPECIFICATION Spec
CONSTANTS
    Note = {n1, n2}
    Text = {x1, x2}
    None = none
    MayFail = TRUE
INVARIANT NothingForgotten
