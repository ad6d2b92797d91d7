SPECIFICATION Spec
CONSTANTS
  u1 = u1
  u2 = u2
  e1 = e1
  e2 = e2
  t1 = t1
  t2 = t2
  t3 = t3
  q1 = q1
  q2 = q2
  NoUser = NoUser
  NoEmail = NoEmail
  NoToken = NoToken
  Users <- MCUsers
  Emails <- MCEmails
  Tokens <- MCTokens
  Requests <- MCRequests
  Second = 2
  RefreshTTL = 2
  MaxTime = 3
SYMMETRY Symmetry
INVARIANTS
  SingleUse
CHECK_DEADLOCK FALSE
