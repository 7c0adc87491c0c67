SPECIFICATION LiveSpec

CONSTANTS
  None = None
  execution_state_gas_limit = 60
  execution_state_target_ratio = 2
  bandwidth_gas_limit = 8
  bandwidth_target_ratio = 4
  bandwidth_reserve_factor = 3
  min_base_fee = 5
  BASE_FEE_UPDATE_FRACTION = 5
  GAS_NORMALIZATION_FACTOR = 4
  InitialBaseFees = {5, 9, 16}
  ExecutionGas = {0, 31}
  BandwidthGas = {0, 3, 11}
  StateGas = {0, 75}
  BlobBaseFees = {0, 13}
  MaxBaseFee = 20
  MaxExcess = 9

PROPERTIES ExecutionStateIsBaseline BandwidthIsPriced EmptyBlocksDrain
