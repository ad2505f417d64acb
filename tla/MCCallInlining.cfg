CONSTANTS
  MaxState = 2
  State <- MCState
  Programs <- InlinedPrograms
SPECIFICATION FairSpec
INVARIANTS ChecksCover CheckedOnce CacheFresh
PROPERTY Terminates
CHECK_DEADLOCK FALSE
