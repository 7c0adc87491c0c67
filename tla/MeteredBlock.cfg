SPECIFICATION Spec

CONSTANTS
  Scenarios <- MCScenarios
  Contents <- MCContents

INVARIANTS AccessListReplays GrowthAddsUp RuntimeReconciles RefundsAreRecovered AccountingsAgree
CHECK_DEADLOCK FALSE
