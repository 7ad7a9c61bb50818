CONSTANTS
  Amounts = {100, 300, 600, 1500, 10000, 30000, 50000}
  Ages = {0, 6, 60, 150, 240, 400}
  Hours = {3, 12}
  RecentCounts = {1, 4, 5}
  FailedCounts = {0, 5, 8}
  MlScores = {100, 1000, 2000, 5000, 8990, 9000, 10000}
SPECIFICATION Spec
INVARIANTS TypeOK MlRespectsThreshold OneRuleNeverBlocks EvidenceIsMonotone FlagsAreExplained
CHECK_DEADLOCK FALSE
