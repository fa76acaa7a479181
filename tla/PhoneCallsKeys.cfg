\* Three calls, four keys: enough for a call in, one out and one waiting, and
\* for an attended transfer from its first key to its last.
SPECIFICATION Spec
CONSTANTS
  MaxCalls = 3
  MaxLag = 1
  MaxKeys = 4
  AutoHold = TRUE
INVARIANTS
  ListsAgree
  SelectedIsHit
  EndsAreTrue
PROPERTIES
  DeflectSpares
CHECK_DEADLOCK FALSE
