SPECIFICATION Spec
CONSTANTS
  FirstGrid = 4
  WordSize = 32
  per_device_grid_size = 0
  Landscapes <- OnePeak
INVARIANT FindsOptimal
