SPECIFICATION Spec
CONSTANTS
  e1 = e1
  e2 = e2
  o1 = o1
  w1 = w1
  d1 = d1
  Calls = {e1}
  NoCall = NoCall
  Tool <- MCTool
  RequestHash <- Distinct
  Operators = {p1}
  ResumeKeys = {k1}
  MaxSteps = 1
  TurnSlots = 1
  MaxBatch = 1
  MaxCrashes = 1
CHECK_DEADLOCK FALSE
PROPERTY ResultSettlesCall
