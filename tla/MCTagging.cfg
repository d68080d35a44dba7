CONSTANTS
  Run = {r1}
  KnownTheme = {"nationalism"}
  NewTheme = {"empire"}
  TypeWord = {"essay", "survey"}
  Surname = {"kant"}
  Given = {"immanuel"}
  TopicNames <- topicNames
  OldNotes <- oldNotes
  HasValidator = TRUE
  Attempts = 2
  MaxProposed = 1
  MaxEdits = 1
  None = None
SPECIFICATION Spec
INVARIANTS SurgicalEdits OnlyStaleTypesMinted PersistKeeps MintedBeforeValidated
PROPERTY StageEnds
CHECK_DEADLOCK FALSE
