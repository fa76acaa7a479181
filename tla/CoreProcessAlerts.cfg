\* Two configurations of the sounds, two sessions, two calls at a time: a ring and a
\* tone meet a call that waits, one that ends and a session that is dropped.
SPECIFICATION Spec
CONSTANTS
  SoundConfigs <- MCSoundConfigs
  BadFile = BadFile
  MaxUas = 2
  MaxCalls = 2
INVARIANTS
  Audible
  ToldIsTrue
  Deregistered
PROPERTY StopEnds
CHECK_DEADLOCK FALSE
