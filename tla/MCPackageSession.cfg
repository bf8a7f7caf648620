SPECIFICATION Spec
CONSTANTS
  doc = doc
  path = path
  partPath = partPath
  base = base
  otherBase = otherBase
  None = None
  Resources = {doc}
  Contexts <- MCContexts
  Requires <- MCRequires
  Inputs <- MCInputs
  MaxAdoptions = 3
INVARIANTS
  EarlyDecisionsAgree
  NothingDeferred
  BundleSound
  SoleOwner
CHECK_DEADLOCK FALSE
