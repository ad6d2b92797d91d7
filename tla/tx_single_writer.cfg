SPECIFICATION Spec
CONSTANTS
  p1 = p1
  p2 = p2
  u1 = u1
  u2 = u2
  s1 = s1
  s2 = s2
  s3 = s3
  NoUser = NoUser
  NoId = NoId
  Purchases <- TwoPurchases
  Users <- TwoUsers
  Sessions <- TwoSessions
  Amounts <- ZeroAndPositive
  Operations <- AllOperations
  ReverseRequests <- DocumentedReversals
  SingleWriter = TRUE
INVARIANTS
  BalancesExact
  AuditMatchesStatus
  AuditLacksFailedAndManual
PROPERTIES
  NoLostWalletUpdate
  ImplementsLedger
CHECK_DEADLOCK FALSE
