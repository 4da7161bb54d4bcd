CONSTANTS
  MaxRuns <- Limits
  MaxRunners = 2
  MaxJobs = 2
  MaxRevisions = 2
  Wishes <- Events
  None = None
  MaxHandlers = 2
  MaxAttempts = 2
  Budget <- Budgets
  ann = ann
  bob = bob
  Wallets <- TwoWallets
  AgentLimit = 1
  KeyLimit = 1
  MaxChallenges = 2
  MaxAgents = 2
  MaxKeys = 2
  MaxCalls = 2
  Visitors <- TwoWallets
  VisitorRuns = 1
  ServerRuns = 2
  MaxVisits = 2
  MaxVersions = 2
SPECIFICATION FairSpec
INVARIANTS
  AuthorityIsKept
  OutcomesAreTrue
CHECK_DEADLOCK FALSE

  
