SPECIFICATION Spec
CONSTANTS
  p1 = p1
  p2 = p2
  u1 = u1
  u2 = u2
  s1 = s1
  s2 = s2
  s3 = s3
  NoUser = NoUser
  NoId = NoId
  Purchases <- OnePurchase
  Users <- OneUser
  Sessions <- TwoSessions
  Amounts <- PositiveAmount
  Operations <- ManualOperations
  ReverseRequests <- DocumentedReversals
  SingleWriter = FALSE
INVARIANT BalancesNonNegative
CHECK_DEADLOCK FALSE
