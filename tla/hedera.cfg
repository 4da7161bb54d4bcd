CONSTANTS
  a1 = a1  a2 = a2  a3 = a3  b1 = b1  t1 = t1
  p1 = p1  p2 = p2  s1 = s1  s2 = s2  d1 = d1  d2 = d2
  topic = topic  profile = profile  round0 = round0  round1 = round1
  publicity = publicity  anchor = anchor  recipient = recipient  token = token  tokenFeeRetry = tokenFeeRetry
  Runs <- AllRuns
  Wishes <- Cases
  TokenRuns = {t1}
  Negotiated = {a1, a2, a3}
  RequestOf <- Requests
  Prices = {1, 2}
  TokenPrice = 1
  Allowance <- SmallAllowance
  Handlers = {s1, s2}
  MaxOffers = 2
  MaxSigned = 2
  Disk <- Disks
  Procs = {p1, p2}
  Operations <- AllOperations
  Needs <- Before
  Anchored <- AnchorOf
  Retries <- RetryOf
  Rounds = {round0, round1}
  PlanPrice = 1
  Operators = {p1, p2}
  Asked <- Duties
  Deliveries = {d1}
  Publishers = {p1, p2}
  Publicity = publicity
SPECIFICATION FairSpec
INVARIANTS
  NothingTwice
  PaymentsAreTrue
PROPERTIES
  NothingLateOrUndone
  PaidIsConcluded
CHECK_DEADLOCK FALSE
