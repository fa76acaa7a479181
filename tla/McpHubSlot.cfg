\* Two tool calls, a respawn, crashes, hangs and failed spawns; the client
\* may disconnect at any time.
SPECIFICATION FairSpec
CONSTANTS
  Tools = {t1, t2}
  None = None
  MaxWorkers = 2
  MayHang = TRUE
INVARIANTS
  OneOwner
PROPERTIES
  StoppedEnds
  CrashNoticed
