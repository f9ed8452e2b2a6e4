SPECIFICATION Spec
CONSTANTS
  m1 = m1
  m2 = m2
  a = a
  b = b
  Method = {m1, m2}
  Mod = {a, b}
  None = None
  MaxDepth = 8
  MaxObjects = 5
  RehookWithin = FALSE
SYMMETRY Symmetry
INVARIANT TypeOK
INVARIANT CurrentModRuns
INVARIANT ArmedIffHooked
INVARIANT NoReentry
