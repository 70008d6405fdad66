SPECIFICATION Spec
CONSTANTS
  Engine = "OpenCL"
  Devices <- MCDevices
  Platforms = {"p1"}
  Machines <- BothThere
INVARIANT MinesAsPrinted
