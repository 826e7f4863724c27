\* Finding: a flow killed while it is intercepted never ends.
CONSTANTS
  f1 = f1
  f2 = f2
  d1 = d1
  d2 = d2
  Flows <- OneFlow
  Domains <- OneDomain
  Domain <- OneDomainOf
  Client = client
  InterceptUrls <- OneFlow
  BlockUrls <- Nobody
  Enabled = TRUE
  Mode = "pause"
  MaxQueue = 1
  SkipCount = 0
  AutoResume = FALSE
  AddonOps = {}
  UserOps = {"resume", "kill"}
SPECIFICATION FairSpec
PROPERTIES EveryFlowEnds
CHECK_DEADLOCK FALSE
