\* Up to one and a half rounds; a read() may fail, the reader may be late.
SPECIFICATION Spec
CONSTANTS
  N_CHILDS = 2
  N_SWAP_BUFFERS = 2
  BUFFER_SIZE = 2
  MaxFileLen = 5
  AlarmFires = FALSE
  NoWait = FALSE
  ReadFails = TRUE
  ShortWrites = FALSE
  LateReader = TRUE
INVARIANTS
  OutputIsPrefix
  WholeFileCopied
PROPERTIES
  BothReturn
  CfgStable
  ImplementsTransfer
  ImplementsSender
  ImplementsReader
\* A round that is sent for a failed read() may leave both programs waiting.
CHECK_DEADLOCK FALSE
