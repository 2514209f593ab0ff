SPECIFICATION Spec
CONSTANTS
  u1 = u1
  u2 = u2
  k1 = k1
  k2 = k2
  w1 = w1
  w2 = w2
  show = show
  boat = boat
  dinner = dinner
  room = room
  bookShow = bookShow
  bookBoat = bookBoat
  bookStay = bookStay
  bookBundle = bookBundle
  Buckets <- AllBuckets
  Rooms = {room}
  Needs <- Units
  Begins <- BucketBegins
  Finishes <- BucketFinishes
  ClosesAt <- Closes
  Capacity <- Places
  MaxQuantity = 2
  Milestone = 1
  Users = {u1, u2}
  Keys = {k1, k2}
  Workers = {w1, w2}
  Offers = {bookBundle}
  HoldTime = 1
  SweepLimit = 1
  Horizon = 2
SYMMETRY Symmetry
CHECK_DEADLOCK FALSE
INVARIANTS
  TypeOK
  StockExact
  NeverOverbooked
PROPERTIES
  ImplementsStock
