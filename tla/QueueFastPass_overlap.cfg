SPECIFICATION Spec
CONSTANTS
  e1 = e1
  e2 = e2
  u1 = u1
  u2 = u2
  k1 = k1
  w1 = w1
  w2 = w2
  p1 = p1
  p2 = p2
  Nobody = Nobody
  Users = {u1, u2}
  Entries = {e1, e2}
  Keys = {k1}
  Workers = {w1}
  Publishers = {p1, p2}
  PassCapacity = 2
  DefaultWait = 1
SYMMETRY Symmetry
PROPERTIES
  NoOvertaking
