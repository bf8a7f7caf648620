SPECIFICATION SpecWindowed
CONSTANTS
  Turns <- MCTurns
  RuleSize <- MCRuleSize
  Sessions <- MCSessions
  FirstCapacity = 2
  SlotBytes = 1
  PendingRuleBytes = 2
CHECK_DEADLOCK FALSE
INVARIANTS
  WindowedEqualsBuffered
