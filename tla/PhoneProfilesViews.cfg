\* Two names, one form, one key that changes it, and one change from elsewhere.
SPECIFICATION ProfilesSpec
CONSTANTS
  Names = {"work", "home"}
  CodecNames = {"opus", "pcmu"}
  Samples <- MCSamples
  Edited = {"ProfileName", "PasswordSource", "PasswordCmd", "RejectCode"}
  MaxRows = 2
  OrderByRecent = TRUE
  MaxRecent = 2
  MaxForms = 1
  MaxEdits = 1
  MaxChanges = 1
INVARIANTS
  ErrorUnderFocus
PROPERTIES
  Spares
CHECK_DEADLOCK FALSE
