SPECIFICATION Spec
CONSTANTS
  Conns = {1, 2}
  Hosts = {hA, hB}
  NoHost = NoHost
  hA = hA
  hB = hB
  HostLimit = 1
  TotalLimit = 0
  MaxConnects = 1
  Easy = {1, 2, 3, 4}
  HostOf <- ThreeToOne
  NoConn = 0
  EventMode = FALSE
  Multiplex = {1, 2, 3}
  PipeWait = {2, 3}
  MaxStreams = 2
  TwoPhase = {1}
  RateLimited = {}
  Timed = {}
  Aborting = {}
  Removable = {1}
  Silent = {}
  MaxFollows = 0
  MaxAdds = 4
INVARIANT TypeOK
INVARIANT SetsMatchState
INVARIANT ActiveHasConn
INVARIANT RunningCount
INVARIANT PendingNeverAlone
INVARIANT PendingOnlyWithoutConn
INVARIANT NoDangling
INVARIANT PoolWithinLimits
INVARIANT IdleIsReusable
PROPERTY ImplementsService
