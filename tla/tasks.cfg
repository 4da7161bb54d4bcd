\* Two tasks for one place of an agent, one of them with two plans, two hosts and two
\* requests at once.
SPECIFICATION TasksSpec
CONSTANTS
  None = None
  t1 = t1 t2 = t2 pa = pa pb = pb w1 = w1 w2 = w2 s1 = s1 s2 = s2 h1 = h1 h2 = h2 fa = fa fb = fb
  Fields = {fa, fb}
  Services <- Market
  Proposals <- Proposed
  Budget = 3
  Values <- Delivered
  Tasks <- TwoTasks
  Plans <- TwoPlans
  Steps <- OneAndTwo
  HostedTasks <- OneTask
  Outputs <- TwoOutputs
  Workers <- TwoWorkers
  Sessions <- TwoSessions
  Affordable <- OneBudget
  MaxOpen = 1
  MaxSteps = 2
SYMMETRY WorkersAndSessions
INVARIANTS
  TypeOK
  RowsAreSound
  OpenLimit
  ResultsAreDelivered
  HostsPayInOrder
  
PROPERTIES
  TriggerNeverRaises
  ImplementsPromises
