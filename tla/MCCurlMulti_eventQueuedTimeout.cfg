SPECIFICATION EventSpec
CONSTANTS
  Conns = {1, 2}
  Hosts = {hA}
  NoHost = NoHost
  hA = hA
  hB = hB
  HostLimit = 1
  TotalLimit = 2
  MaxConnects = 0
  Easy = {1, 2}
  HostOf <- OneHost
  NoConn = 0
  EventMode = TRUE
  Multiplex = {}
  PipeWait = {}
  MaxStreams = 2
  TwoPhase = {}
  RateLimited = {}
  Timed = {2}
  Aborting = {}
  Removable = {}
  Silent = {1}
  MaxFollows = 0
  MaxAdds = 2
PROPERTY TransfersEnd
CHECK_DEADLOCK FALSE
