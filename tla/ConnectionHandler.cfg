\* Two servers, one slot, every order of commands, closes and cancellations, and the
\* timeout.
CONSTANTS
  s1 = s1
  s2 = s2
  Client = client
  Servers <- MCServers
  Udp <- MCUdp
  MaxConns = 1
SPECIFICATION FairWSpec
INVARIANTS HooksPaired LayerIsAnswered NothingLeftOpen SlotsRespected NothingOutlivesClient
PROPERTIES TimedOutRightly ClientIsLetGo
CHECK_DEADLOCK FALSE
