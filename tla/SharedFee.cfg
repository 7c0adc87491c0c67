SPECIFICATION Spec
CONSTANTS
  None = None
  Replays <- MCReplays
  gas_limit <- MCgas_limit
  gas_target <- MCgas_target
  state_gas_limit_scale <- MCstate_gas_limit_scale
  Offers <- MCOffers
  Kernels = {"integer", "excess_matched", "shared"}
  InitialFees = {1, 3, 360}
  burn_in = 1
  n_blocks = 3
  MAX_CACHED_FEE = 6
  MIN_CACHED_FEE = 4
  INT_MAX = 365
  FLOAT_UNIT = 1000
  FLOAT_ERROR = 1
INVARIANT CachedFeesAreExact
INVARIANT MeasuredWindowAddsUp
PROPERTY UpdatersAgree
