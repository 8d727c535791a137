\* Three slices of three arrays each; a sigqueue() may fail.
SPECIFICATION Spec
CONSTANTS
  SIGNAL_RANGE = 3
  Words = 9
  MaxTransfers = 3
  SigqueueFails = TRUE
INVARIANTS
  OneArrayInFlight
  NoReadyMerged
  SliceComplete
PROPERTIES
  Termination
  ImplementsLink
