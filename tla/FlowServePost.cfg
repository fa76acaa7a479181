\* A scheduler and a caller on a queue of one; children that fail to start, never
\* end, outlive their timeout, or leave their output open.
SPECIFICATION ServeSpec
CONSTANTS
  Clients = {c1}
  Monitors = {m1, m2}
  Scheduled = {m1}
  Scenarios = {s1}
  QueueSize = 1
  MaxTicks = 2
  MaxLines = 1
INVARIANTS
  Serialised
  Ledger
PROPERTIES
  Answered
CHECK_DEADLOCK FALSE
