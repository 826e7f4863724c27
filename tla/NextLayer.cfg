CONSTANTS
  start = start
  data1 = data1
  data2 = data2
  closed = closed
  other = other
  Events <- MCEvents
  Data <- MCData
  Closed <- MCClosed
  StartEvent = start
  Commands = {c1, c2}
  None = None
SPECIFICATION FairSpec
INVARIANTS ClientStream ClientGoneNoticed
PROPERTIES SentIsHandled
CHECK_DEADLOCK FALSE
