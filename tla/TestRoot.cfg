SPECIFICATION Spec
CONSTANTS
  Callers = {c1, c2}
  x = x
  y = y
  z = z
  u = u
  v = v
  w = w
  s = s
  t = t
  Locations = {x, y, z, u, v, w, s, t}
  Requests <- MCRequests
  None = None
SYMMETRY Symmetry
VIEW Underway
INVARIANT
  NothingIsLost
PROPERTIES
  AllOrNothing
  ReconciledIsSo
