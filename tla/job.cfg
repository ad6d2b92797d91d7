SPECIFICATION FairSpec
CONSTANTS
  p1 = p1
  p2 = p2
  r1 = r1
  r2 = r2
  NoRunner = NoRunner
  NoPurchase = NoPurchase
  Purchases <- TwoPurchases
  Runners <- TwoRunners
  AdminPurchases <- OneByAdmins
  DispatcherMayFail = TRUE
  MaxFaults = 2
  MaxToggles = 2
  MaxAttempts = 2
INVARIANTS
  TypeOK
  InFlightExact
PROPERTIES
  RejectedAfterAllAttempts
  SettledOnce
  OffMeansManual
  SettledWhileLooping
CHECK_DEADLOCK FALSE
