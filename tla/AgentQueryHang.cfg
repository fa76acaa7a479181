\* Two threads, two queries of two kinds, and a worker that may crash or hang: a
\* query that timed out, its late reply and a concurrent one fit.  The pipes hold
\* one message each way, so both sides meet a full one.
SPECIFICATION FairSpec
CONSTANTS
  Callers = {c1, c2}
  Kinds = {stats, dtmf}
  None = None
  MaxQueries = 2
  MaxEvents = 1
  InCap = 1
  OutCap = 1
  MayHang = TRUE
INVARIANTS
  NoStrandedQuery
  RepliesMatch
  NoProcessLeftBehind
PROPERTIES
  RefinesRpc
  QueryReturns
  DropReaps
