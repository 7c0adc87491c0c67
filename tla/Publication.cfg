SPECIFICATION LiveSpec

CONSTANTS
  Changing = {"panels", "glamsterdam", "results", "workload", "blocks", "traces"}
  MaxChanges = 1
  MaxKills = 1

INVARIANTS FreshPassIsCurrent FreshFailsForAReason ReuseOfACompleteRun VerifiedTablesAgree
PROPERTIES RerunsPublish
