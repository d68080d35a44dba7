SPECIFICATION PoolSpec
CONSTANT NumKeys = 4
PROPERTY ImplementsQueue
CHECK_DEADLOCK FALSE
