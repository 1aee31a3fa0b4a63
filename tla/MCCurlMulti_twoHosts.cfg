SPECIFICATION Spec
CONSTANTS
  Conns = {1, 2}
  Hosts = {hA, hB}
  NoHost = NoHost
  hA = hA
  hB = hB
  HostLimit = 1
  TotalLimit = 0
  MaxConnects = 0
  Easy = {1, 2, 3, 4}
  HostOf <- TwoHosts
  NoConn = 0
  EventMode = FALSE
  Multiplex = {}
  PipeWait = {}
  MaxStreams = 2
  TwoPhase = {}
  RateLimited = {}
  Timed = {}
  Aborting = {}
  Removable = {}
  Silent = {}
  MaxFollows = 0
  MaxAdds = 4
INVARIANT PendingOnlyWithoutConn
