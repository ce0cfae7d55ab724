SPECIFICATION FairSpec
CONSTANTS
  Programs <- AllPrograms
  Code <- AllCode
  MaxRuns = 2
  MaxReverts = 1
  Patient = TRUE
CONSTRAINT StartedAgain
INVARIANTS NothingStranded SavedIsWired DriftIsKnown
PROPERTIES NothingDisplaced ImplementsOrder RunEnds SentLands
CHECK_DEADLOCK FALSE
