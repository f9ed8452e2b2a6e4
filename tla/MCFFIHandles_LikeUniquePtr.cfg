SPECIFICATION Spec
CONSTANTS
  a = a
  b = b
  v1 = v1
  v2 = v2
  v3 = v3
  Objects = {a, b}
  Owners = {v1, v2, v3}
  None = None
  MaxHandle = 5
SYMMETRY Symmetry

INVARIANT LikeUniquePtr
