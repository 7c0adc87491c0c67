SPECIFICATION LiveSpec

CONSTANTS
  None = None
  execution_gas_limit = 4
  bandwidth_gas_limit = 8
  state_gas_target = 3
  execution_target_ratio = 2
  bandwidth_target_ratio = 2
  bandwidth_reserve_factor = 3
  min_base_fee = 20
  BASE_FEE_UPDATE_FRACTION = 17
  GAS_NORMALIZATION_FACTOR = 8
  InitialBaseFees = {20, 26}
  ExecutionGas = {1, 6}
  BandwidthGas = {0, 3, 11}
  StateGas = {2}
  BlobBaseFees = {0, 79}
  MaxExcess = 9

INVARIANTS WarmStart ReserveRowAgrees
PROPERTIES ReserveNeverCheapens FeesFollowUsage LimitedResourcesArePriced ReserveReleases
