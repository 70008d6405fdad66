SPECIFICATION Spec
CONSTANTS
  Engine = "CUDA"
  Devices <- MCDevices
  Platforms = {"p1"}
  Machines <- MCMachines
INVARIANTS TypeOK MinesAsPrinted ExclusionKept MinesByTheFiles UserConfigKept
