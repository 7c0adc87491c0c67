SPECIFICATION LiveSpec

CONSTANTS
  Pulls = {"transaction_inputs", "carriers", "execution_components",
           "runtime_components", "contiguous_runtime", "state_attribution"}
  Blocks = {1, 2, 3, 4}
  Inputs = {{1, 2, 3}, {1, 3, 4}}
  ChunkSizes = {1, 2}
  Quotas = {1, 4}
  Settings = {"a", "b"}
  MaxMishaps = 2

INVARIANTS PartsNeverOverlap OneSettingPerCache PanelsHaveNoGaps
PROPERTIES CheckpointsAreKept RerunsComplete
