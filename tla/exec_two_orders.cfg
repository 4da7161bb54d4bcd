\* Two orders compete for one allowance; a single process crashes and reruns, under
\* fairness.
SPECIFICATION FairSpec
CONSTANTS
  None = None
  o1 = o1 o2 = o2 p1 = p1 p2 = p2 h1 = h1 h2 = h2
  Orders <- TwoOrders
  Procs <- OneProc
  Outputs <- OneOutput
  Amount <- Price
INVARIANTS
  TypeOK
  AllowanceIsGuarded
PROPERTIES
  ImplementsPurchases
  PaymentIsDelivered
  ReservationIsFreed
