SPECIFICATION FairSpec
CONSTANTS
  Emitter = {e1, e2}
  Sub = {s1, s2}
  Closer = closer
  Capacity = 1
  MaxSeq = 3
  Stuck = {}
INVARIANTS BlockingNeverLost EmitterOrder
PROPERTY EmitEnds
CHECK_DEADLOCK FALSE
