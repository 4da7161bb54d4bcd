\* A configured market: two orders of two services, fees and deliveries.
SPECIFICATION ConfiguredSpec
CONSTANTS
  None = None
  a1 = a1 a2 = a2 e1 = e1 e2 = e2 h1 = h1 h2 = h2 x1 = x1 c1 = c1
  o1 = o1 o2 = o2 o3 = o3 o4 = o4 s1 = s1 s2 = s2 out1 = out1 out2 = out2
  Agents <- OneAgent
  Executors <- OneExecutor
  Owners <- OneOwner
  Sellers <- OneSeller
  Categories <- OneCategory
  Orders <- TwoOrders
  CategoryTerms <- OpenTerms
  Grants <- BookGrants
  Fees <- SomeFees
  Services <- TwoServices
  Seller <- SellerOf
  ServiceCategory <- CategoryOf
  Amount <- TwoAmounts
  Outputs <- TwoOutputs
  ApprovalLife = 1
  OrderLife = 1
  Funds = 150
  MaxTime = 1
  MaxSigned = 2
  MaxVersion = 5
  MaxAgentVersion = 3
SYMMETRY OrderIdsAndOutputs
CHECK_DEADLOCK FALSE
INVARIANTS
  TypeOK
  SameOrders
  BooksAgree
PROPERTIES
  SettledAsRead
  EditsAreOfWhatWasSigned
