SPECIFICATION FairSpec
CONSTANTS
    Agent = {a1, a2}
    Turn = {1, 2, 3}
    MaxIterations = 2
    Calls = {2}
    MaxBuilt = 2
    None = none
INVARIANTS HistoryWhole AnsweredIsRemembered
PROPERTIES TurnStaysHome TurnEnds
CHECK_DEADLOCK FALSE
