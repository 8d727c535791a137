\* Any semop() of either program may be cut short, and what may go wrong besides: the
\* programs may hang then.
SPECIFICATION SafeSpec
CONSTANTS
  N_CHILDS = 2
  N_SWAP_BUFFERS = 2
  BUFFER_SIZE = 2
  MaxFileLen = 2
  AlarmFires = TRUE
  NoWait = TRUE
  ReadFails = TRUE
  ShortWrites = FALSE
  LateReader = TRUE
INVARIANTS
  AllPiecesRead
  MastersTakeTurns
CHECK_DEADLOCK FALSE
