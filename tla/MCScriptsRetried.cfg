SPECIFICATION Spec
CONSTANTS
  Programs <- Sample
  Code <- SampleCode
  MaxRuns = 2
  MaxReverts = 1
  Patient = FALSE
INVARIANTS SavedIsDeployed QueuedIsRecorded AtMostOneUnrecorded
CHECK_DEADLOCK FALSE
