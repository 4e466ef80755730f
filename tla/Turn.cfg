SPECIFICATION FairSpec
CONSTANTS
  e1 = e1
  e2 = e2
  o1 = o1
  w1 = w1
  d1 = d1
  Calls = {e1, w1, o1, d1}
  NoCall = NoCall
  Tool <- MCTool
  RequestHash <- Distinct
  Operators = {p1}
  ResumeKeys = {k1}
  MaxSteps = 2
  TurnSlots = 1
  MaxBatch = 1
  MaxCrashes = 1
CHECK_DEADLOCK FALSE
INVARIANTS
  TypeOK
  UnrepeatableStartedAtMostOnce
  OnlyConsentedToolsRun
  ResultRecordedOnce
PROPERTY FreshTurnEnds
