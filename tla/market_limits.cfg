\* A configured market, four orders, windows and delays over time.
SPECIFICATION ConfiguredSpec
CONSTANTS
  None = None
  a1 = a1 a2 = a2 e1 = e1 e2 = e2 h1 = h1 h2 = h2 x1 = x1 c1 = c1
  o1 = o1 o2 = o2 o3 = o3 o4 = o4 s1 = s1 s2 = s2 out1 = out1 out2 = out2
  Agents <- OneAgent
  Executors <- OneExecutor
  Owners <- OneOwner
  Sellers <- OneSeller
  Categories <- OneCategory
  Orders <- FourOrders
  CategoryTerms <- TimedTerms
  Grants <- TimedGrants
  Fees <- NoFees
  Services <- OneService
  Seller <- OneSellerOf
  ServiceCategory <- OneCategoryOf
  Amount <- OneAmount
  Outputs <- NoOutputs
  ApprovalLife = 1
  OrderLife = 2
  Funds = 200
  MaxTime = 5
  MaxSigned = 1
  MaxVersion = 4
  MaxAgentVersion = 3
SYMMETRY OrderIds
CHECK_DEADLOCK FALSE
INVARIANTS
  RateIsBounded
  OrdersAreSpaced
