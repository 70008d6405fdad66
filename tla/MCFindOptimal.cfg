SPECIFICATION FairSpec
CONSTANTS
  FirstGrid = 4
  WordSize = 32
  per_device_grid_size = 0
  Landscapes <- AnyTotal
INVARIANTS TypeOK BestIsMeasured Bracket
PROPERTY Terminates
