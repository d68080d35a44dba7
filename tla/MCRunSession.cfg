SPECIFICATION FairSpec
CONSTANTS
    MaxRequests = 5
    TimesOut = {"run.cancel", "chat.send"}
    MayExit = TRUE
INVARIANTS IdleMeansStopped CancelsItsOwn EndsAgree
PROPERTIES ClearsItsOwn BusyEnds
CHECK_DEADLOCK FALSE
