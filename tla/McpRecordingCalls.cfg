\* Two tool calls at once, the bridge at any of its steps meanwhile; calls come, go and
\* overlap; events and commands lag behind.
SPECIFICATION Spec
CONSTANTS
  Tools = {t1, t2}
  MaxOps = 2
  MaxCalls = 3
SYMMETRY Symmetry
INVARIANTS
  FlagsAgree
  DialedIsRecorded
CHECK_DEADLOCK FALSE
