SPECIFICATION DrivenSpec
CONSTANTS
  None = None
  execution_gas_limit = 5
  bandwidth_gas_limit = 12
  state_gas_target = 3
  execution_target_ratio = 2
  bandwidth_target_ratio = 2
  bandwidth_reserve_factor = 3
  min_base_fee = 20
  BASE_FEE_UPDATE_FRACTION = 17
  GAS_NORMALIZATION_FACTOR = 4
  InitialBaseFees = {20}
  ExecutionGas = {0, 1, 2, 3, 4, 5}
  BandwidthGas = {0, 4, 8, 12}
  StateGas = {0, 1, 2, 3}
  BlobBaseFees = {0, 79}
  MaxExcess = 7
  Rules = {"separate_resource_caps", "proportional_bundle_caps", "parent_bal_consistent_caps"}
  Demand <- MCDemand
  data_quantum = 4
INVARIANT InclusionIsFeasible
INVARIANT RationedBlocksAreFull
INVARIANT BundlesAreCutAsAWhole
