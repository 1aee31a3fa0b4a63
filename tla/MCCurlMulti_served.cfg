SPECIFICATION PerformSpec
CONSTANTS
  Conns = {1, 2}
  Hosts = {hA}
  NoHost = NoHost
  hA = hA
  hB = hB
  HostLimit = 1
  TotalLimit = 0
  MaxConnects = 0
  Easy = {1, 2, 3}
  HostOf <- OneHost
  NoConn = 0
  EventMode = FALSE
  Multiplex = {}
  PipeWait = {}
  MaxStreams = 2
  TwoPhase = {}
  RateLimited = {3}
  Timed = {2, 3}
  Aborting = {3}
  Removable = {}
  Silent = {1}
  MaxFollows = 1
  MaxAdds = 3
PROPERTY TransfersEnd
