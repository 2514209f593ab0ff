SPECIFICATION Spec
CONSTANTS
  o1 = o1
  o2 = o2
  s1 = s1
  s2 = s2
  u1 = u1
  u2 = u2
  k1 = k1
  k2 = k2
  w1 = w1
  w2 = w2
  g1 = g1
  g2 = g2
  adult = adult
  NoKey = NoKey
  Nobody = Nobody
  Workers = {w1, w2}
  TypeOf <- SameType
  Users = {u1}
  Admins = {}
  Orders = {o1, o2}
  Slots = {s1}
  Keys = {k1, k2}
  GateRequests = {}
  Capacity <- Capacity2
  MaxQuantity = 1
  SweepLimit = 1
  Horizon <- NoClock
SYMMETRY Symmetry
INVARIANTS
  PaymentKeyNamesOneOrder
