SPECIFICATION MCSpec
CONSTANTS
  w1 = w1
  w2 = w2
  p1 = p1
  p2 = p2
  k1 = k1
  k2 = k2
  Nobody = Nobody
  Nothing = Nothing
  Nowhere = Nowhere
  Unset = Unset
  u1 = u1
  u2 = u2
  s1 = s1
  s2 = s2
  stampA = stampA
  stampB = stampB
  photo = photo
  welcome = welcome
  mug = mug
  tea = tea
  fan = fan
  d1 = d1
  d2 = d2
  c1 = c1
  c2 = c2
  trip = trip
  gate = gate
  lost = lost
  hurt = hurt
  Workers = {w1, w2}
  Processes = {p1, p2}
  Keys = {k1, k2}
  Visitors = {u1}
  Targets = {stampA, stampB, photo}
  Scope <- Tables
  Points <- Worth
  Welcome = welcome
  WelcomePoints = 2
  Rewards = {mug}
  Cost <- Costs
  RewardStock <- RewardShelf
  MaxQuantity = 1
  Buyers = {u1}
  Products = {tea, fan}
  ProductStock <- ProductShelf
  MaxLine = 2
  Price <- PriceList
  Discounts <- Campaigns
  Users = {u1}
  MaxSessions = 3
  Devices = {d1, d2}
  PageLimit = 1
  MaxPages = 2
  MaxMutations = 2
  Sockets = {c1, c2}
  QueueSize = 1
  MaxAttempts = 1
  MaxSends = 1
  MaxAgentSends = 1
  MaxSnapshots = 2
  Companions = {u1, u2}
  Owner = u1
  Itineraries = {trip}
  Places = {gate}
  MaxGroupRevision = 4
  Stops = {1, 2, 3}
  Entrance = 0
  Visit <- VisitTimes
  Walk <- WalkTimes
  Levels = {0, 2}
  Merit <- Attractions
  Buffer = 1
  Day = 16
  LockedChoices <- BookedTimes
  MostStops = 3
  Pages = {p1, p2}
  MaxPlanRevision = 3
  MaxReadings = 2
  Messages = {lost, hurt}
  MaxSosKeys = 2
  MaxFlights = 2
  Staff = {s1, s2}
  Admins = {s2}
  MaxVersion = 4
  LockKeys = {1, 2, 3}
  Shapes <- RoutesKeys
  Redis = "redis"
  MaxFaults = 1
  AllowDegraded = TRUE
  Tickets = {k1, k2}
SYMMETRY Symmetry
CONSTRAINT Bounded
INVARIANTS
  TypeOK
  AccountsAddUp
  EntriesMatchFacts
  StockExact
  FamilyIsAChain
  LogsAreNumbered
  OnlyPersistedIsSeen
  ClosedKeepsOnlyRaced
  PlansPassTheCheck
  HistoryExplains
  DoneOnce
  LocksAreOwned
PROPERTIES
  NoStaleCommit
  FinalStatesStay
  KeptUntilRecorded
  BoardNeverGoesBack
CHECK_DEADLOCK FALSE
