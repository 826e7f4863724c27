SPECIFICATION FairSpec
CONSTANTS
    Streams = {1, 2, 3}
    Addrs = {a}
    Limits = {1, 2}
    Provisional = 1
    NoAddr = NoAddr
INVARIANTS NobodyForgotten ExchangesSeparate
PROPERTIES NoAttemptAfterError WaitersAnswered
CHECK_DEADLOCK FALSE
