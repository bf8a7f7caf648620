SPECIFICATION Spec
CONSTANTS
  a = a
  b = b
  Particles <- MCParticles
  Alphabet = {a, b}
  MaxChildren = 3
  StateLimit = 2
INVARIANTS
  LongestExact
  WitnessDerives
  BindingDetermined
  StopsOnlyWhenRejected
CHECK_DEADLOCK FALSE
