SPECIFICATION Spec
CONSTANTS
  Self = Self
  Unusable = Unusable
  Absent = Absent
  Unknown = Unknown
  Error = Error
  a = a
  b = b
  c = c
  d = d
  e = e
  home = home
  u = u
  v = v
  w = w
  x = x
  Root <- MCRoot
  Links <- MCLinks
  Serve <- MCServe
  Assessment <- MCAssessment
  MaxDepth = 4
  MaxLinked = 13
INVARIANTS
  WalkExact
  SessionNeverRefuses
  PinsStable
CHECK_DEADLOCK FALSE
