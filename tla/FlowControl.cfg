\* One flow, every addon and user operation.
CONSTANTS
  f1 = f1
  f2 = f2
  d1 = d1
  d2 = d2
  Flows <- OneFlow
  Domains <- OneDomain
  Domain <- OneDomainOf
  Client = client
  InterceptUrls <- OneFlow
  BlockUrls <- Nobody
  Enabled = TRUE
  Mode = "pause"
  MaxQueue = 1
  SkipCount = 1
  AutoResume = TRUE
  AddonOps = {"script_intercept", "script_resume", "mock", "intercept"}
  UserOps = {"resume", "kill", "pause", "unpause", "block", "intercept_all", "unpause_all", "edit", "revert"}
SPECIFICATION Spec
INVARIANTS NoLostWakeup StuckOnlyByKillOrRevert
PROPERTIES KilledNotForwarded HeldUntilResumed
CHECK_DEADLOCK FALSE
