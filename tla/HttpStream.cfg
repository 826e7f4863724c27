SPECIFICATION Spec
CONSTANTS
    MaxData = 1
    MaxErrors = 2
    Verdicts <- MCVerdicts
    AddonResponds <- MCEveryHook
CHECK_DEADLOCK FALSE
INVARIANTS ExpectedEvents ClientStory ServerStory NobodyLeftWaiting TunnelStory
PROPERTY HookStory
