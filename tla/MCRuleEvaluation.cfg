SPECIFICATION Spec
CONSTANTS
  Rules <- MCRules
  MaxNodes = 2
  Selections <- MCSelections
  PlanAnswers <- MCPlanAnswers
CHECK_DEADLOCK FALSE
INVARIANTS
  DecisionsJustified
  EarlyDecisionsAgree
  VerdictIsSound
