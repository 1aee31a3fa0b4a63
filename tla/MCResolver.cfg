SPECIFICATION SpecOfParts
CONSTANTS
 Parts = {"resolver", "doh", "notify", "mail", "mailbody"}
 u1 = u1
 u2 = u2
 Users = {u1, u2}
 Hosts = {h1}
 Lookups = {1, 2}
 Entries = {e1, e2}
 BlockingUsers = {u2}
 WantOf <- Want
 Answers <- Known
 DohUsers = {}
 Nil = Nil
 MaxTurns = 2
 Transfers = {1, 2}
 ChunkSize = 4
 Chunks = {k1}
 NoChunk = NoChunk
 MailCases <- SomeCases
 MailRequests <- SomeRequests
 MaxBody = 2
 ImpatientMail = TRUE
 LateAnswers = FALSE
 MaxText = 5
 MaxPiece = 3
INVARIANTS AllTypesOK ReferencesCounted NoWaitForLookup AnswerFits NotificationsKept MailRight MailBodies
PROPERTY WaitsEnd
CHECK_DEADLOCK FALSE
