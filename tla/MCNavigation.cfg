SPECIFICATION Spec
CONSTANTS
  None = None
  Unknown = Unknown
  Documents <- MCDocuments
INVARIANTS
  UnfoldingExact
  TempoEarned
CHECK_DEADLOCK FALSE
