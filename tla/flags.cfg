SPECIFICATION Spec
CONSTANTS
  m1 = m1
  m2 = m2
  u1 = u1
  u2 = u2
  q1 = q1
  q2 = q2
  Null = Null
  Merchants <- MCMerchants
  Users <- MCUsers
  Requests <- MCRequests
SYMMETRY Symmetry
INVARIANTS
  OneRowPerScope
  FilterAgreesWithoutGlobal
PROPERTY SetTakesEffectUnlessRaced
