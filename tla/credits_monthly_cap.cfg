SPECIFICATION CreditSpec
CONSTANTS
  p1 = p1
  p2 = p2
  u1 = u1
  o1 = o1
  NoUser = NoUser
  NoOffer = NoOffer
  NoFixedAmount = NoFixedAmount
  PurchaseAmounts <- MCPurchaseAmounts
  Percentages <- MCPercentages
  FixedAmounts <- MCFixedAmounts
  MonthlyCaps <- MCMonthlyCaps
  MaxPercentage = 2000
  Purchases <- MCPurchases
  Users <- MCUsers
  Offers <- MCOffers
  Amounts <- MCAmounts
  ReverseRequests <- DocumentedReversals
  MaxMonth = 1
SYMMETRY Symmetry
INVARIANT MonthlyCapKept
CHECK_DEADLOCK FALSE
