\* Two contacts, three calls and texts of up to two characters.
SPECIFICATION Spec
CONSTANTS
  MaxText = 2
  MaxHistory = 2
  Names = {"ann", "bob"}
  MaxNumbers = 1
  MaxContacts = 3
  MaxAsks = 1
  Dialled <- MCDialled
  Saved <- MCSaved
  MaxCalls = 3
INVARIANTS
  KeysGoToTheTop
  Inside
PROPERTIES
  Deletes
CHECK_DEADLOCK FALSE
