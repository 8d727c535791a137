\* One semop() may be cut short and read() may fail: the sender may hang then.
SPECIFICATION Spec
CONSTANTS
  N_CHILDS = 2
  N_SWAP_BUFFERS = 2
  BUFFER_SIZE = 2
  MaxFileLen = 3
  AlarmFires = TRUE
  NoWait = TRUE
  ReadFails = TRUE
INVARIANTS
  TypeOK
  NoOverwriteInFlight
  BarrierHolds
  RoundSendsNextChunk
PROPERTIES
  Termination
  ImplementsQueue
CHECK_DEADLOCK FALSE
