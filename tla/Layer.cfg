\* Events that arrive while handlers run, pause, and raise.
CONSTANTS
  Events = {e1, e2, e3, e4}
  Commands = {c1, c2, c3}
  None = None
SPECIFICATION FairSpec
INVARIANTS Fifo NothingStranded EachOnce
PROPERTIES Serial EventuallyHandled
CHECK_DEADLOCK FALSE
