SPECIFICATION Spec
CONSTANTS
  Engine = "Metal"
  MaxTotalThreads = 8
  grid_size = 2
  block_size = 2
  num_iterations = 1
  nonce_start = 0
  WordSize = 8
  difficulty = 3
  Hashes <- MCHashes
  Group <- MCGroup
INVARIANT HashesAreCounted
