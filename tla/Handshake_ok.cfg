SPECIFICATION Spec
CONSTANTS
  N_CHILDS = 3
  Attempts = 3
  Strangers = 3
  AlarmFires = TRUE
INVARIANTS
  CfgsRight
  SessionStart
  GivesUpForStrangers
PROPERTIES
  SenderNeverHangs
  Completes
