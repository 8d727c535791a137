SPECIFICATION LoopSpec
CONSTANTS
  N_CHILDS = 6
  BUFFER_SIZE = 4
  PAGE_SIZE = 8
  SizeofInt = 4
INVARIANTS
  LoopIsShare
  SlicesInside
