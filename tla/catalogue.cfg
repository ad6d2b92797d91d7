SPECIFICATION Spec
CONSTANTS
  m1 = m1
  m2 = m2
  o1 = o1
  o2 = o2
  n1 = n1
  q1 = q1
  q2 = q2
  NoMerchant = NoMerchant
  NoName = NoName
  Names <- OneName
  NoOffer = NoOffer
  Merchants <- TwoMerchants
  Offers <- TwoOffers
  Requests <- TwoRequests
  MaxDay = 2
SYMMETRY Symmetry
INVARIANTS
  ClashesExplained
  
  ViewsAgree
  OnlyRacesShareNames
CHECK_DEADLOCK FALSE
