SPECIFICATION Spec
CONSTANTS
  Keys = {k1, k2}
  Sessions = {s1, s2}
  Entries = {e1, e2}
  None = None
  Lookups = {h1}
  Ttls = {0, 1, 2, 3}
  MaxTtl = 2
  MaxTime = 3
  MaxFaults = 1
SYMMETRY Symmetry
INVARIANTS
  HeldWithinTtl
  PrintedIsCurrent
PROPERTIES
  NewerSurvives
