\* From deployment: two owners enrol, register and pay.
SPECIFICATION Spec
CONSTANTS
  None = None
  a1 = a1 a2 = a2 e1 = e1 e2 = e2 h1 = h1 h2 = h2 x1 = x1 c1 = c1
  o1 = o1 o2 = o2 o3 = o3 o4 = o4 s1 = s1 s2 = s2 out1 = out1 out2 = out2
  Agents <- OneAgent
  Executors <- TwoExecutors
  Owners <- TwoOwners
  Sellers <- OneSeller
  Categories <- OneCategory
  Orders <- OneOrder
  CategoryTerms <- OpenTerms
  Grants <- OneGrant
  Fees <- NoFees
  Services <- OneService
  Seller <- OneSellerOf
  ServiceCategory <- OneCategoryOf
  Amount <- OneAmount
  Outputs <- OneOutput
  ApprovalLife = 1
  OrderLife = 1
  Funds = 100
  MaxTime = 1
  MaxSigned = 3
  MaxVersion = 4
  MaxAgentVersion = 3
SYMMETRY OwnersAndExecutors
CHECK_DEADLOCK FALSE
INVARIANTS
  PayersAreEnrolled
PROPERTIES
  ImplementsMandates
