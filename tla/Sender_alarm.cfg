\* SIGALRM ends one semop() of the master with EINTR.
SPECIFICATION SafeSpec
CONSTANTS
  N_CHILDS = 2
  N_SWAP_BUFFERS = 2
  BUFFER_SIZE = 1
  MaxFileLen = 4
  AlarmFires = TRUE
  NoWait = FALSE
  ReadFails = FALSE
INVARIANT AllChildsReady
CHECK_DEADLOCK FALSE
