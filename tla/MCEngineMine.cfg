SPECIFICATION FairSpec
CONSTANTS
  Engine = "OpenCL"
  MaxTotalThreads = 8
  grid_size = 3
  block_size = 1
  num_iterations = 2
  nonce_start = 0
  WordSize = 8
  difficulty = 3
  Hashes <- MCHashes
  Group <- MCGroup
INVARIANTS TypeOK ReportsFound SolutionReported PanicsOnlyIdle HashedOnce
PROPERTIES CallSpec MineEnds
