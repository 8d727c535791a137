SPECIFICATION Spec
CONSTANTS
  N_SWAP_BUFFERS = 1
  Runs = {r1, r2}
  Garbage = TRUE
  Crashes = TRUE
SYMMETRY Symmetric
CHECK_DEADLOCK FALSE
PROPERTIES
  FreshStart
  NothingLeft
