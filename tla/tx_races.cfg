SPECIFICATION Spec
CONSTANTS
  p1 = p1
  p2 = p2
  u1 = u1
  u2 = u2
  s1 = s1
  s2 = s2
  s3 = s3
  NoUser = NoUser
  NoId = NoId
  Purchases <- OnePurchase
  Users <- TwoUsers
  Sessions <- ThreeSessions
  Amounts <- ZeroAndPositive
  Operations <- AllOperations
  ReverseRequests <- AnyReversal
  SingleWriter = FALSE
SYMMETRY Symmetry
INVARIANTS
  TypeOK
  NoPhantomAudit
  CashbackWithPurchase
  OnlyReversalsDeadlock
PROPERTY IngestedOnce
CHECK_DEADLOCK FALSE
