SPECIFICATION Spec
CONSTANTS
  N_CHILDS = 2
  ForkFails = TRUE
  KidsDie = TRUE
  AlarmFires = TRUE
  MaxInterrupts = 2
CHECK_DEADLOCK FALSE

  
  
PROPERTIES
  InterruptEndsBoth
  NormalEnd
