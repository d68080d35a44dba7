SPECIFICATION Spec
CONSTANTS
  Run = {r1, r2, r3}
  Topic = {t1, t2}
  Domain = {d1}
  Override = {none}
  MaxSlug = 3
  MaxHeadings = 2
  MaxCopy = 3
  Overlap = FALSE
  Last = last
  None = none
SYMMETRY Symmetry
INVARIANTS NoteWhole InterruptedRunResumable
PROPERTIES ChunksOutliveRuns CleanExit NothingReplaced
CHECK_DEADLOCK FALSE
