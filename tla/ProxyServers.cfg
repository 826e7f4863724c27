SPECIFICATION ServersFairSpec
CONSTANTS
  dns = dns
  proxy = proxy
  curl = curl
  wget = wget
  a = a
  None = None
  Specs <- MCSpecs
  Local <- MCLocal
  Listens <- MCListens
  MaxChanges = 2
INVARIANTS SocketsOwned
PROPERTIES KeptRunning ChangesApplied
CHECK_DEADLOCK FALSE
