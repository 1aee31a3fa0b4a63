SPECIFICATION Spec
CONSTANTS
  Conns = {1, 2}
  Hosts = {hA}
  NoHost = NoHost
  hA = hA
  hB = hB
  HostLimit = 1
  TotalLimit = 2
  MaxConnects = 0
  Easy = {1, 2}
  HostOf <- OneHost
  NoConn = 0
  EventMode = FALSE
  Multiplex = {}
  PipeWait = {}
  MaxStreams = 2
  TwoPhase = {}
  RateLimited = {}
  Timed = {}
  Aborting = {1}
  Removable = {}
  Silent = {}
  MaxFollows = 0
  MaxAdds = 2
INVARIANT IdleIsReusable
