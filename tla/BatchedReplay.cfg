SPECIFICATION Spec
CONSTANTS
  None = None
  BatchRules = {"bundle_consistent", "independent_caps", "glamsterdam"}
  execution_target = 10
  execution_limit = 20
  data_target = 20
  data_limit = 40
  state_target = 10
  gas_target = 22
  gas_limit = 40
  BASE_FEE_UPDATE_FRACTION = 17
  GAS_NORMALIZATION_FACTOR = 6
  PRECISION = 100
  FLOAT_UNIT = 1000
  FLOAT_ERROR = 1
  LaunchFees = {1, 5, 9, 220}
  RoundTripLoses = {5}
  m_execution = 2
  w_execution = 1
  m_data = 3
  m_state = 2
  w_state = 1
  reference_execution = 10
  Intensities = {0, 1}
  Bundles <- MCBundles
  burn_in = 1
  n_blocks = 4
INVARIANT StreamIsHistory
INVARIANT BlocksPayTheFeesInForce
INVARIANT BundlesAreKeptTogether
PROPERTY MovesAsTheReference
