\* Runs of one to three files, with at most three steps of their scripts in all.
SPECIFICATION Spec
CONSTANTS
  Disk <- MCDisk
  Asked <- MCAsked
  Filtering <- MCFiltering
  Names = {"caller"}
  Ports = {8080}
  MaxWaiters = 2
  MaxSteps = 3
INVARIANTS
  Accounted
  Isolated
  PollsAreQuiet
PROPERTIES
  RunEnds
CHECK_DEADLOCK FALSE
