---------------------------- MODULE MCComponents ----------------------------
(***************************************************************************)
(* The upload service of this repository; libcurl's connection attempts,   *)
(* FTP and TFTP; event sets, timers, the timer tree, buffer queues, the    *)
(* sending of a request, HTTP authentication and the writers of a response;*)
(* the curl tool's transfers.                                              *)
(* They share no state, so they are model-checked one at a time: `part' is *)
(* the one a behaviour runs.  The variables of the others keep an initial  *)
(* value; where fair actions could run from it they are fair only in their *)
(* own part.                                                               *)
(***************************************************************************)
EXTENDS UploadService, HappyEyeballsState, HttpsConnectState, FtpState, MultiEventsState, BufQState, TftpState, ToolTransfersState, TLC

CONSTANTS
  Parts,       \* what to run
  Handles, TimerChoices, Delays, UnitsPerMs, UnitsPerSec, LastTime,
  TreeNodes, TreeKeys, Header, NoNode,
  NoLength, MaxWrite, DecodeChunk, PauseChunk, PauseMax, Expansion, MaxReceived, CallbackFails,
  SendOptions, BufSize, Little, Answers, MaxAttempts,
  AuthOptions, MaxRedirs, MaxRuns, MaxStale

VARIABLES
  part,
  timersOf, clock, inside, timeoutlist, expiretime, due, asked, moved, appTimer, lastExpire, lastTimeout,
  mem, root, inserted, answer,
  options, cw, passed, received, bytecount, cwPhase,
  sending, snd, sent, server, replies, attempt, outcome, owing,
  easy, auth, nonce, conns, authRequest

uploadVars == vars
timerVars == <<timersOf, clock, inside, timeoutlist, expiretime, due, asked, moved, appTimer, lastExpire, lastTimeout>>
splayVars == <<mem, root, inserted, answer>>
writersVars == <<options, cw, passed, received, bytecount, cwPhase>>
sendingVars == <<sending, snd, sent, server, replies, attempt, outcome, owing>>
authVars == <<easy, auth, nonce, conns, authRequest>>
underVars == <<evVars, timerVars, splayVars, bufqVars, writersVars, sendingVars, toolVars, authVars>>
allVars == <<part, uploadVars, eyeballVars, httpsVars, ftpVars, tftpVars, underVars>>

-----------------------------------------------------------------------------
\* Requests that are refused for the same reason differ in nothing the server looks at.
Distinct(req) ==
  IF req.path = "/upload" /\ req.ctype = "multipart" THEN TRUE
  ELSE req.parts = 0 /\ (req.path = "/other" => req.ctype = "other")

Lists == {<<>>, <<"v4">>, <<"v6", "v4">>, <<"v4", "v4", "v6">>, <<"v6", "v6", "v4">>}

PlainFtp == [dir |-> <<>>, file |-> TRUE, quote |-> 0, prequote |-> 0, postquote |-> 0, mdtm |-> FALSE,
  noBody |-> FALSE, ascii |-> FALSE, port |-> FALSE, pret |-> FALSE, upload |-> FALSE, resume |-> "no",
  range |-> FALSE, mkdir |-> "no", ssl |-> "no", ccc |-> FALSE, account |-> FALSE, alternative |-> FALSE]
FtpTransfers == {PlainFtp,
  [PlainFtp EXCEPT !.ssl = "try", !.ccc = TRUE, !.account = TRUE, !.alternative = TRUE, !.dir = <<"a">>],
  [PlainFtp EXCEPT !.dir = <<"a", "b">>, !.noBody = TRUE, !.mdtm = TRUE],
  [PlainFtp EXCEPT !.dir = <<"a">>, !.upload = TRUE, !.mkdir = "retry", !.resume = "end", !.postquote = 1],
  [PlainFtp EXCEPT !.port = TRUE, !.file = FALSE, !.prequote = 1, !.quote = 1],
  [PlainFtp EXCEPT !.port = TRUE, !.upload = TRUE, !.ascii = TRUE, !.prequote = 1],
  [PlainFtp EXCEPT !.pret = TRUE, !.range = TRUE, !.resume = "end", !.prequote = 1],
  [PlainFtp EXCEPT !.file = FALSE, !.noBody = TRUE]}

TftpFile(up, n, oack, hpa) == [upload |-> up, n |-> n, oack |-> oack, hpa |-> hpa]
TftpTransfers == {TftpFile(FALSE, 2, TRUE, FALSE), TftpFile(FALSE, 3, FALSE, FALSE),
                  TftpFile(TRUE, 1, TRUE, FALSE), TftpFile(TRUE, 4, FALSE, TRUE), TftpFile(TRUE, 2, FALSE, FALSE)}

\* Two timers of one transfer, or one of each of two: a transfer's list and the other
\* transfers meet only in the earliest time of the tree.
TimersUsed == {<<{"a", "b"}, {}>>, <<{"a"}, {"a"}>>}
PlainTimers == <<{"a"}, {"a"}>>

Queue(max, soft, spares, pooled) == [max |-> max, soft |-> soft, spares |-> spares, pooled |-> pooled]
Queues == {Queue(2, FALSE, TRUE, FALSE), Queue(2, FALSE, FALSE, FALSE), Queue(1, TRUE, TRUE, FALSE),
           Queue(2, FALSE, FALSE, TRUE), Queue(1, TRUE, FALSE, TRUE)}

Writing(include, hds, decoding, length) == [include |-> include, hds |-> hds, decoding |-> decoding, length |-> length]
WriterOptions == {Writing(FALSE, TRUE, FALSE, NoLength), Writing(TRUE, TRUE, TRUE, NoLength),
                  Writing(TRUE, FALSE, FALSE, 3), Writing(FALSE, TRUE, TRUE, 4)}

Byte(i) == [t |-> "byte", n |-> i]
Newline(i) == [t |-> "lf", n |-> i]
Sends(body, known, expect, crlf, keepSending, speed) ==
  [body |-> body, known |-> known, expect |-> expect, crlf |-> crlf, keepSending |-> keepSending, speed |-> speed]
SentRequests ==
  LET three == [i \in 1..3 |-> Byte(i)]
  IN  {Sends(<<>>, TRUE, FALSE, FALSE, FALSE, 0), Sends(three, TRUE, TRUE, FALSE, FALSE, 0),
       Sends(three, TRUE, FALSE, FALSE, TRUE, 1), Sends(three, FALSE, TRUE, FALSE, TRUE, 0),
       Sends(<<Byte(1), Newline(2), Newline(3)>>, TRUE, TRUE, TRUE, FALSE, 0)}

PlainTool == [parallel |-> FALSE, max |-> 1, failEarly |-> FALSE, retries |-> 1, allErrors |-> FALSE, fail |-> "no",
  short |-> FALSE, retryAfter |-> 0, maxTime |-> 0, resume |-> FALSE, ranges |-> TRUE]
CommandLines == {
  [PlainTool EXCEPT !.resume = TRUE, !.fail = "body", !.failEarly = TRUE, !.maxTime = 3, !.retryAfter = 2, !.retries = 2],
  [PlainTool EXCEPT !.allErrors = TRUE],
  [PlainTool EXCEPT !.parallel = TRUE, !.resume = TRUE, !.ranges = FALSE],
  [PlainTool EXCEPT !.parallel = TRUE, !.short = TRUE, !.fail = "yes", !.retryAfter = 2, !.maxTime = 1],
  [PlainTool EXCEPT !.parallel = TRUE, !.max = 2, !.short = TRUE, !.failEarly = TRUE, !.allErrors = TRUE, !.fail = "yes"]}
\* a retry that waits a second, in parallel
DelayedRetry == {[PlainTool EXCEPT !.parallel = TRUE, !.max = 2]}

Of(host, proxy) == [w \in {"host", "proxy"} |-> IF w = "host" THEN host ELSE proxy]
Demand(first, other, proxy) ==
  [p \in {"first", "other", "proxy"} |-> CASE p = "first" -> first [] p = "other" -> other [] p = "proxy" -> proxy]
AnyScheme == {"basic", "digest", "ntlm"}
PlainAuth == [proxy |-> "none", want |-> Of({"basic"}, {"basic"}), needs |-> Demand({}, {}, {}), user |-> TRUE,
  proxyUser |-> FALSE, right |-> Of(TRUE, TRUE), post |-> TRUE, big |-> TRUE, fail |-> FALSE, moves |-> "no",
  unrestricted |-> FALSE, closes |-> "politely", basicFirst |-> FALSE]
\* Without a proxy; through one that demands something, if more than Basic may be sent, to
\* hosts that do as well (see ProxyAsksNothing).
Authentications ==
  {[PlainAuth EXCEPT !.want = Of(a, {"basic"}), !.needs = Demand(f, o, {}), !.moves = m, !.unrestricted = u, !.closes = c] :
     a \in {{"digest"}, {"ntlm"}, AnyScheme}, f \in {{}, {"digest", "ntlm"}, {"ntlm", "basic"}}, o \in {{}, {"basic"}},
     m \in {"no", "host", "port"}, u \in BOOLEAN, c \in {"politely", "any"}}
  \cup {[PlainAuth EXCEPT !.proxy = p, !.proxyUser = TRUE, !.want = Of(a, b), !.needs = Demand(f, {"basic"}, x),
                          !.right = Of(r, TRUE), !.fail = ~r, !.moves = "host"] :
     p \in {"plain", "tunnel"}, a \in {{"ntlm"}, AnyScheme}, b \in {{"ntlm"}, AnyScheme},
     f \in {{"digest"}, {"ntlm"}}, x \in {{"digest"}, {"ntlm", "basic"}}, r \in BOOLEAN}
  \cup {PlainAuth,
        [PlainAuth EXCEPT !.right = Of(FALSE, TRUE), !.needs = Demand({"basic", "digest"}, {}, {}), !.basicFirst = TRUE,
                          !.fail = TRUE],
        [PlainAuth EXCEPT !.proxy = "plain", !.proxyUser = TRUE, !.right = Of(TRUE, FALSE), !.want = Of({"basic"}, {"ntlm"}),
                          !.needs = Demand({"basic"}, {}, {"ntlm"}), !.fail = TRUE],
        [PlainAuth EXCEPT !.proxy = "tunnel", !.proxyUser = TRUE, !.user = FALSE, !.want = Of({"basic"}, {"digest"}),
                          !.needs = Demand({}, {}, {"digest"}), !.post = FALSE]}
\* Digest is set for a proxy that asks for nothing
ProxyAsksNothing ==
  {[PlainAuth EXCEPT !.proxy = "plain", !.proxyUser = TRUE, !.user = FALSE, !.want = Of({"basic"}, {"digest"})]}

E == INSTANCE HappyEyeballs
C == INSTANCE HttpsConnect
F == INSTANCE Ftp
T == INSTANCE Tftp
V == INSTANCE MultiEvents
K == INSTANCE Timers
S == INSTANCE Splay
B == INSTANCE BufQ
W == INSTANCE Writers
R == INSTANCE Sending
O == INSTANCE ToolTransfers
A == INSTANCE HttpAuth WITH request <- authRequest

ASSUME ConstantsFit ==
  /\ E!EyeballsConstants /\ C!HttpsConstants /\ FtpConstants /\ TftpConstants /\ V!EventsConstants
  /\ K!TimersConstants /\ S!SplayConstants /\ B!BufQConstants /\ W!WritersConstants /\ R!SendingConstants
  /\ ToolConstants /\ A!AuthConstants

-----------------------------------------------------------------------------
InitAll ==
  /\ part \in Parts
  /\ Init /\ (\A u \in Uploads : Distinct(request[u])) /\ (part # "upload" => request = [u \in Uploads |-> [path |-> "/other", ctype |-> "other", parts |-> 0]])
  /\ E!Init /\ (part # "eyeballs" => addrs = <<>> /\ ipVersion = "any")
  /\ C!Init /\ (part # "https" => DOMAIN ballers = {1})
  /\ F!Init /\ (part # "ftp" => ftp.o = PlainFtp)
  /\ T!Init /\ (part # "tftp" => tftp.o = TftpFile(FALSE, 2, TRUE, FALSE))
  /\ V!Init /\ S!Init
  /\ K!Init /\ (part # "timers" => timersOf = PlainTimers)
  /\ B!Init /\ (part # "bufq" => opts = Queue(2, FALSE, TRUE, FALSE) /\ pool = 0)
  /\ W!Init /\ (part # "writers" => options = Writing(FALSE, TRUE, FALSE, NoLength))
  /\ R!Init /\ (part # "sending" => sending = Sends(<<>>, TRUE, FALSE, FALSE, FALSE, 0))
  /\ O!Init /\ (part # "tool" => tool.o.allErrors /\ ~tool.o.parallel)
  /\ A!Init /\ (part # "auth" => easy.o = PlainAuth)

Upload == part = "upload" /\ Next /\ UNCHANGED <<part, eyeballVars, httpsVars, ftpVars, tftpVars, underVars>>
Eyeballs == part = "eyeballs" /\ E!Next /\ UNCHANGED <<part, uploadVars, httpsVars, ftpVars, tftpVars, underVars>>
Https == part = "https" /\ C!Next /\ UNCHANGED <<part, uploadVars, eyeballVars, ftpVars, tftpVars, underVars>>
FtpStep == part = "ftp" /\ F!Next /\ UNCHANGED <<part, uploadVars, eyeballVars, httpsVars, tftpVars, underVars>>
TftpStep == part = "tftp" /\ T!Next /\ UNCHANGED <<part, uploadVars, eyeballVars, httpsVars, ftpVars, underVars>>

others == <<uploadVars, eyeballVars, httpsVars, ftpVars, tftpVars>>
Events == part = "events" /\ V!Next /\ UNCHANGED <<part, others, timerVars, splayVars, bufqVars, writersVars, sendingVars, toolVars, authVars>>
Time == part = "timers" /\ K!Next /\ UNCHANGED <<part, others, evVars, splayVars, bufqVars, writersVars, sendingVars, toolVars, authVars>>
Tree == part = "splay" /\ S!Next /\ UNCHANGED <<part, others, evVars, timerVars, bufqVars, writersVars, sendingVars, toolVars, authVars>>
Buffering == part = "bufq" /\ B!Next /\ UNCHANGED <<part, others, evVars, timerVars, splayVars, writersVars, sendingVars, toolVars, authVars>>
ToCallbacks == part = "writers" /\ W!Next /\ UNCHANGED <<part, others, evVars, timerVars, splayVars, bufqVars, sendingVars, toolVars, authVars>>
Requesting == part = "sending" /\ R!Next /\ UNCHANGED <<part, others, evVars, timerVars, splayVars, bufqVars, writersVars, toolVars, authVars>>
ToolStep == part = "tool" /\ O!Next
  /\ UNCHANGED <<part, others, evVars, timerVars, splayVars, bufqVars, writersVars, sendingVars, authVars>>
AuthStep == part = "auth" /\ A!Next
  /\ UNCHANGED <<part, others, evVars, timerVars, splayVars, bufqVars, writersVars, sendingVars, toolVars>>

NextAll == Upload \/ Eyeballs \/ Https \/ FtpStep \/ TftpStep \/ Events \/ Time \/ Tree \/ Buffering \/ ToCallbacks \/ Requesting
  \/ ToolStep \/ AuthStep

SpecAll ==
  /\ InitAll /\ [][NextAll]_allVars
  /\ Fairness /\ E!Fairness /\ C!Fairness
  /\ WF_ftpVars(part = "ftp" /\ F!Advance)
  /\ WF_tftpVars(part = "tftp" /\ T!Timeout)
  /\ WF_toolVars(part = "tool" /\ O!ToolRuns)

-----------------------------------------------------------------------------
\* The types of all parts: those that do not run keep their initial values.
AllTypesOK ==
  CASE part = "upload" -> TypeOK
    [] part = "eyeballs" -> E!TypeOK
    [] part = "https" -> C!TypeOK
    [] part = "ftp" -> F!TypeOK
    [] part = "tftp" -> T!TypeOK
    [] part = "events" -> V!TypeOK
    [] part = "timers" -> K!TypeOK
    [] part = "splay" -> S!TypeOK
    [] part = "bufq" -> B!TypeOK
    [] part = "sending" -> R!TypeOK
    [] part = "writers" -> W!TypeOK
    [] part = "tool" -> O!TypeOK
    [] part = "auth" -> A!TypeOK

\* The properties of the parts, stated and explained in their modules; those of the modules
\* above hold of the others' initial values, too.
TimersRight ==
  /\ part = "timers" => K!TimersKept /\ K!AppTimerSet
  /\ part = "splay" => S!TreeRight
SendingRight == part = "sending" => R!SendingRight
WritersRight == part = "writers" => W!WritersRight
AuthRight == part = "auth" => A!AuthRight
BodyDelivered == part = "auth" => A!BodyDelivered
NoneAfterError == part = "writers" => W!NoneAfterError

\* Whatever is waited for ends: addresses or a way to connect that were not tried
\* yet, an FTP and a TFTP transfer, a command line (in parallel, one whose retries need
\* not wait: see ToolEnds).
Waiting ==
  CASE part = "eyeballs" -> \E i \in DOMAIN addrs : E!ToStart(i)
    [] part = "https" -> C!Untried(2)
    [] part = "ftp" -> F!InTransfer
    [] part = "tftp" -> T!Running
    [] part = "tool" -> tool.phase # "ended" /\ (tool.o.parallel => tool.o.short)
    [] OTHER -> FALSE
WaitsEnd == Waiting ~> ~Waiting

\* Every command line comes to an end, also one with retries that wait.
ToolEnds == part = "tool" => <>(tool.phase = "ended")
=============================================================================
