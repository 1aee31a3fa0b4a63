SPECIFICATION SpecAll
CONSTANTS
 Parts = {"tool"}
 Uploads = {a1, a2}
 NoUpload = none
 MaxParts = 2
 MaxCrashes = 1
 AddressLists <- Lists
 IpVersions = {"any", "v4"}
 AttemptDelay = 2
 MaxRestarts = 1
 Unarmed = Unarmed
 BallerCounts = {1, 2}
 SoftTimeout = 1
 HardTimeout = 3
 NoTimer = NoTimer
 FtpOptions <- FtpTransfers
 MaxTransfers = 2
 Impatient = TRUE
 LateReplies = FALSE
 TftpFiles <- TftpTransfers
 Modulus = 3
 RetryMax = 2
 ServerTries = 1
 NetSize = 2
 Fds = {1, 2}
 Xfers = {t1}
 ClosingConns = {c3}
 Handles = {1, 2}
 TimerChoices <- TimersUsed
 Delays = {0, 1}
 UnitsPerMs = 2
 UnitsPerSec = 4
 LastTime = 3
 TreeNodes = {n1, n2, n3, n4}
 TreeKeys = {1, 2, 3}
 Header = Header
 NoNode = NoNode
 ChunkSize = 2
 QueueOptions <- Queues
 SpareMax = 1
 MaxBytes = 6
 NoLength = NoLength
 MaxWrite = 2
 DecodeChunk = 1
 PauseChunk = 2
 PauseMax = 6
 Expansion = 2
 MaxReceived = 5
 CallbackFails = FALSE
 SendOptions <- SentRequests
 BufSize = 3
 Little = 2
 Answers = {200, 307, 400, 417}
 MaxAttempts = 2
 UrlCount = 2
 BodySize = 2
 ToolOptions <- DelayedRetry
 SleepMax = 2
 ToolTime = 2
 AuthOptions <- Authentications
 MaxRedirs = 12
 MaxRuns = 2
 MaxStale = 1
PROPERTY ToolEnds
CHECK_DEADLOCK FALSE
