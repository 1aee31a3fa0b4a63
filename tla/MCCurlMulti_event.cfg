SPECIFICATION EventSpec
CONSTANTS
  Conns = {1, 2}
  Hosts = {hA}
  NoHost = NoHost
  hA = hA
  hB = hB
  HostLimit = 1
  TotalLimit = 2
  MaxConnects = 0
  Easy = {1, 2}
  HostOf <- OneHost
  NoConn = 0
  EventMode = TRUE
  Multiplex = {1, 2}
  PipeWait = {1}
  MaxStreams = 2
  TwoPhase = {}
  RateLimited = {}
  Timed = {1}
  Aborting = {}
  Removable = {1}
  Silent = {}
  MaxFollows = 0
  MaxAdds = 3
INVARIANT NothingForgotten
INVARIANT DirtyIsAnnounced
INVARIANT NoTimeoutLost
PROPERTY TransfersEnd
CHECK_DEADLOCK FALSE
