\* Every write() may write less than it was asked to, and one D of the master may return
\* without waiting: the program may hang then.
SPECIFICATION Spec
CONSTANTS
  N_CHILDS = 2
  BUFFER_SIZE = 2
  MaxFileLen = 7
  ShortWrites = TRUE
  NoWait = TRUE
INVARIANTS
  OutputInOrder
  RoundWritten
PROPERTY Termination
CHECK_DEADLOCK FALSE
