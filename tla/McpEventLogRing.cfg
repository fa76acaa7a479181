\* A ring of two, pages of one, three events by two workers, the second started
\* while the first still appends or after it ended: the ring overflows behind a
\* reader and a waiter, ids meet in flight, and a cursor is taken ahead of them.
SPECIFICATION Spec
CONSTANTS
  Clients = {c1}
  Names = {n1, n2}
  Tools = {"page", "wait"}
  Capacity = 2
  PageLimit = 1
  MaxWorkers = 2
  MaxEvents = 3
INVARIANTS
  NoSkip
  NoLostWakeup
PROPERTIES
  PagesTellLoss
CHECK_DEADLOCK FALSE
