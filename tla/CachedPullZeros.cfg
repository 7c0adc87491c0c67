SPECIFICATION Spec

CONSTANTS
  Pulls = {"contiguous_runtime"}
  Blocks = {1, 2, 3}
  Inputs = {{1, 2, 3}}
  ChunkSizes = {1, 2}
  Quotas = {4}
  Settings = {"a"}
  MaxMishaps = 1

INVARIANT ZerosAreGenuine
