SPECIFICATION Spec
CONSTANTS
  Parent <- MCParent
  ScalarAnswers <- MCScalarAnswers
  ContentAnswers <- MCContentAnswers
CHECK_DEADLOCK FALSE
INVARIANTS
  FailuresCountedOnce
  CompleteMeansAssessed
  ReportedExactly
  KeysStepBackToAncestors
