SPECIFICATION SpecStorage
CONSTANTS
  Cumulative <- MCCumulative
  Gauges <- MCGauges
  Nodes = "nodes"
  RuleSteps = "rule-steps"
  Diagnostics = "diagnostics"
  DiagnosticBytes = "diagnostic-bytes"
  DefaultLimits <- MCDefaultLimits
  Requests <- MCRequests
  DefaultRuleStepBase = 2
  DefaultRuleStepsPerNode = 3
  DefaultRuleStepsPerDocumentByte = 2
  MaxInt64 = 9
  Amounts = {1, 2}
  IDs = {1, 2, 3, 5, 7, 9, 13}
  Results = {"pass", "not-applicable"}
  None = None
  WordSlots = 2
  FirstWords = 1
  Slack = 2
  EntryBytes = 3
  HeaderBytes = 4
  MaxRetained = 200
  MaxAdmitted = 6
  RuleSize <- MCRuleSize
  Sessions <- MCSessions
  FirstCapacity = 2
  SlotBytes = 1
  PendingRuleBytes = 2
CHECK_DEADLOCK FALSE
INVARIANTS
  TypeOK
  UsageWithinLimit
  ExpansionBounded
  StorageExact
  DeferralExact
PROPERTIES
  ImplementsMap
