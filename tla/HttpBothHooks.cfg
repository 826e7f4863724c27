SPECIFICATION Spec
CONSTANTS
    MaxData = 1
    MaxErrors = 1
    Verdicts <- MCPlain
    AddonResponds <- MCNoHook
CHECK_DEADLOCK FALSE
INVARIANT ErrorXorResponse
