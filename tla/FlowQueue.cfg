\* Two flows compete for a queue of one; users only resume.
CONSTANTS
  f1 = f1
  f2 = f2
  d1 = d1
  d2 = d2
  Flows <- MCFlows
  Domains <- MCDomains
  Domain <- MCDomain
  Client = client
  InterceptUrls <- MCFlows
  BlockUrls <- Nobody
  Enabled = TRUE
  Mode = "pause"
  MaxQueue = 1
  SkipCount = 1
  AutoResume = FALSE
  AddonOps = {}
  UserOps = {"resume", "unpause"}
SPECIFICATION FairSpec
INVARIANTS InterceptorQueueBounded
PROPERTIES EveryFlowEnds
CHECK_DEADLOCK FALSE
