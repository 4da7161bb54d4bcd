\* An interrupted acknowledgment, under the same fairness.
SPECIFICATION FairSpec
CONSTANTS
  None = None
  o1 = o1 o2 = o2 p1 = p1 p2 = p2 h1 = h1 h2 = h2
  Orders <- OneOrder
  Procs <- OneProc
  Outputs <- OneOutput
  Amount <- OnePrice
PROPERTY
  AcknowledgmentConcludes
