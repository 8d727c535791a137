SPECIFICATION Spec
CONSTANTS
  N_CHILDS = 2
  ForkFails = TRUE
  KidsDie = FALSE
  AlarmFires = FALSE
  MaxInterrupts = 1
CHECK_DEADLOCK FALSE
INVARIANT
  OnlyMinorProcesses
