\* Two processes take turns on one order whose seller may produce two outputs; reruns
\* under fairness.
SPECIFICATION FairSpec
CONSTANTS
  None = None
  o1 = o1 o2 = o2 p1 = p1 p2 = p2 h1 = h1 h2 = h2
  Orders <- OneOrder
  Procs <- TwoProcs
  Outputs <- TwoOutputs
  Amount <- OnePrice
INVARIANTS
  AtMostOneSubmission
  FilesAreTrue
PROPERTIES
  PaymentIsRecognised
  AbortConcludes
