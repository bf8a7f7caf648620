SPECIFICATION Spec
CONSTANTS
  Parent <- MCParent
  ScalarAnswers <- MCScalarAnswers
  ContentAnswers <- MCContentAnswers
CHECK_DEADLOCK FALSE
INVARIANTS
  KeysIncrease
