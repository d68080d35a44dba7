CONSTANTS
  Text <- text
  Sanitised <- sanitised
  LastWord <- lastWord
  NameLike = {"Kant", "David Hume"}
  Unlinkable = {"No [1]"}
  Topic = "T"
  Plan <- plan
  Chunk <- chunk
  Names = {"Kant", "David Hume"}
  Entities <- entities
  Reply <- reply
  Related <- related
  Mine <- mine
  MaxEdits = 2
SPECIFICATION Spec
INVARIANTS TocResolves TransitionsInPlace TextKept LinkedOnce EditsKept
CHECK_DEADLOCK FALSE
