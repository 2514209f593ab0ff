SPECIFICATION FairSpec
CONSTANTS
  w1 = w1
  w2 = w2
  p1 = p1
  u1 = u1
  u2 = u2
  k1 = k1
  k2 = k2
  o1 = o1
  o2 = o2
  s1 = s1
  adult = adult
  e1 = e1
  e2 = e2
  c1 = c1
  c2 = c2
  NoKey = NoKey
  Nobody = Nobody
  Redis = Redis
PROPERTIES
  EveryWaitEnds
CHECK_DEADLOCK FALSE
