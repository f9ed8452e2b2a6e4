SPECIFICATION Spec
CONSTANTS
  r1 = r1
  r2 = r2
  e1 = e1
  e2 = e2
  c1 = c1
  c2 = c2
  c3 = c3
  Rooms <- OneRoom
  Eps <- TwoEps
  Calls <- TwoCalls
  TTL = 2
  MaxClock = 3
  None = None
SYMMETRY MCSymmetry
INVARIANT TypeOK
INVARIANT NoDuplicateClients
PROPERTY ImplementsDirectory
