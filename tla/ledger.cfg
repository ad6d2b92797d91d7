SPECIFICATION MCSpec
CONSTANTS
  p1 = p1
  p2 = p2
  p3 = p3
  u1 = u1
  u2 = u2
  o1 = o1
  NoUser = NoUser
  NoOffer = NoOffer
  NoFixedAmount = NoFixedAmount
  Purchases <- MCPurchases
  Users <- MCUsers
  Offers <- MCOffers
  PurchaseAmounts <- MCPurchaseAmounts
  Percentages <- MCPercentages
  FixedAmounts <- MCFixedAmounts
  MonthlyCaps <- MCMonthlyCaps
  MaxPercentage = 2000
  Amounts <- MCAmounts
  ReverseRequests <- DocumentedReversals
  MaxMonth = 0
  PageSize = 1
  StatusFilters <- MCStatusFilters
SYMMETRY Symmetry
INVARIANTS
  TypeOK
  CashbackAgrees
  BalancesExact
  WalkMissesOnlyWhatMoved
  WalletTellsOneStory
  CreditsUncappedShare
PROPERTY MoneyFollowsPurchase
CHECK_DEADLOCK FALSE
