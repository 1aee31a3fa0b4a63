# Specifications of the upload service and of curl's transfer core

The repository holds two programs. One is its own: an Android activity
(`app/src/main/java/com/example/myapp/MainActivity.kt`) that uploads files to a
small HTTP server (`server.py`). The other is the complete source of curl 8.17.0
(`curl-8.17.0/`), where nearly all of the repository's logic is. This directory
has TLA+ modules of both, TLC configurations that check them on small
instances, and TLAPS proofs that hold for every size. Paths below are relative
to the root of the sources; `lib/` stands for `curl-8.17.0/lib/`.

| file | what it is |
|---|---|
| `UploadService` | activity, its upload coroutines, the server and its directory |
| `CurlConnPool` | connection pool and shutdown list, as operators on their value |
| `CurlMulti` | the multi handle: transfers, state machine, queues, timeout, both ways to drive it |
| `TransferService` | what a multi handle promises its application |
| `Timers`, `Splay` | the lists of timers of each transfer, and the tree they meet in |
| `MultiEvents`, `MultiNotify` | what the socket and the notification callback are told |
| `Resolver` | resolver threads, DNS over HTTPS, the DNS cache |
| `HappyEyeballs`, `HttpsConnect` | the races between addresses and between HTTP versions |
| `BufQ` | the queue of bytes between two sides |
| `MultiEventsState`, `HappyEyeballsState`, `HttpsConnectState`, `BufQState`, `FtpState`, `TftpState`, `ToolTransfersState` | the state of these seven, and what is promised of it |
| `Sending` | a request with its body onto the wire |
| `HttpAuth` | authentication with a host and a proxy |
| `Writers` | a response to the callbacks, with pauses |
| `Ftp`, `Tftp` | the two file transfer protocols |
| `Mail`, `Smtp`, `Imap`, `Pop3`, `Sasl` | connections to mail servers, the three command machines and their login |
| `MailBody` | the text of a mail, stuffed with dots and cut anywhere |
| `ToolTransfers` | the transfers and retries of one command line of the tool |
| `MCCurlMulti`, `MCComponents`, `MCResolver` (`.tla`, `.cfg`) | instances for TLC |
| `UploadServiceProofs`, `CurlMultiProofs`, `QueueAndEventProofs`, `RaceProofs`, `TftpProofs`, `FtpProofs`, `ResolverProofs`, `ToolTransfersProofs` | theorems |
| `PROJECT.json` | components, runs, hazards, the lines each definition models |

## 1. Inventory

**Upload service** (modelled). The activity keeps the picked file and one
coroutine for each click on Send: it reads the file, sends a multipart request,
waits, and puts a status line on the screen. The server is single threaded. It
answers 404 for a wrong path and 400 for a wrong form, and stores each `file`
part under `file_<n>`, where n is one more than the number of files in the
directory. Hard: two uploads whose parts follow each other, a write that fails
half way through a request, a server that dies between a file and its answer, a
client that stops in the middle of its request, for which the server's one thread
then waits. Correct means that a name is never used twice, that what the user is
told is true, and that no Send is forgotten.

**Multi handle** (`lib/multi.c`, `multihandle.h`; modelled in large part). It
keeps the table of added transfers and the sets `process`, `pending`, `dirty`
and `msgsent`, the number `xfers_alive` the application is told, the queue of
done messages, the timers, and for each transfer its state and its connection.
Operations: add, remove, `curl_multi_perform`, `curl_multi_socket_action`,
`curl_multi_info_read`. A call runs the transfers one after the other through
`multi_runsingle`, which loops while the transfer can go on; a transfer that
finishes, fails, is redirected or removed wakes one that is queued. Everything
happens on the application's thread, so the interleavings are those of
transfers within a call and of calls with each other, the network and the
clock. Correct means: each transfer is where its state says, has a connection
exactly when it needs one, is counted while it runs, gets exactly one message,
and ends.

**Connection pool, shutdown list, reuse** (`lib/conncache.c`, `lib/cshutdn.c`,
the matching part of `lib/url.c`; modelled in large part). The pool holds live
connections, the list those that are being shut down; both count against
`CURLMOPT_MAX_HOST_CONNECTIONS` and `CURLMOPT_MAX_TOTAL_CONNECTIONS`. A new
transfer takes an idle connection, shares a multiplexed one, waits for one, or
opens its own after idle ones are evicted. Correct means: nobody's connection
is closed under it, the limits hold, nothing that cannot be used again is kept.

**Timers** (`Curl_expire` in `lib/multi.c`, `lib/splay.c`; modelled). Each
transfer has a sorted list of timers with an id each; one time of each transfer
is in a splay tree of the multi; the application has one timer, set through its
callback. Setting, clearing and expiring them in any order must leave no timer
without a time in the tree and no time in the tree without a call to come.

**Event sets and notifications** (`lib/multi_ev.c`, `lib/multi_ntfy.c`;
modelled). The application is told only differences: of sockets that several
transfers share, that are closed and whose numbers are used again, and of
messages that its own callback may produce or fetch while they are handed out.

**Threaded resolver, DNS cache, DoH** (`lib/asyn-thrdd.c`, `lib/hostip.c`,
`lib/doh.c`; modelled in large part). The only threads of libcurl: a thread and
a transfer share a counted context, and either may be last. Cached answers are
counted, grow stale, are pruned, replaced and preloaded while a connection
attempt still reads them. Correct means: freed once and after all use, no call
that is not blocking by contract waits for a name server, and an answer is one
that fits the question.

**Filters, happy eyeballs, HTTPS connect** (`lib/cfilters.c`,
`lib/cf-ip-happy.c`, `lib/cf-https-connect.c`; the two races modelled). Attempts
are started one after the other, fail, are silent, or win; one winner, no socket
left over, failure only when nothing is left to try, and always a timer or a
socket that ends the wait.

**Buffer queue** (`lib/bufq.c`; modelled). Chunks in order, spares, a pool
that several queues share, a soft limit. What is read is what was written.

**Request sending** (`lib/request.c`, `lib/transfer.c`, the readers of
`lib/sendf.c` and `lib/http_chunks.c`; HTTP/1.1 modelled). A body comes from a
callback that may pause, goes through readers that change its length, waits for
100 Continue, is interrupted by an early answer, and may have to be sent again
from the start. Correct means that a server never gets anything but the request
and that both sides agree where it ends.

**Response writers and pausing** (`lib/sendf.c`, `lib/cw-pause.c`,
`lib/cw-out.c`; modelled). What a paused application has not taken waits in two
places, partly decoded. It must come out once and in order.

**Authentication** (`lib/http.c`, `lib/http_ntlm.c`, `lib/http_digest.c`,
`lib/cf-h1-proxy.c`; Basic, Digest and NTLM modelled). State of the connection
(NTLM), of the easy handle (nonce) and of the transfer (the scheme picked) must
agree across probes, redirects and lost connections; credentials reach those
they are for, and success is not reported for a body that was held back.

**FTP** (`lib/ftp.c`, `lib/pingpong.c`; modelled in large part). Commands and
replies must stay in step, also across the end of one transfer and the start of
the next on the same connection, which relies on the directory remembered.

**TFTP** (`lib/tftp.c`; modelled). Blocks and acknowledgements that are lost,
repeated and late, with a block number that wraps.

**The tool** (`curl-8.17.0/src/tool_operate.c`; its transfers modelled). Serial
or parallel, retries with waits, `--fail-early`, resumption of what was got.

**SMTP, IMAP, POP3** (`lib/smtp.c`, `lib/imap.c`, `lib/pop3.c`,
`lib/curl_sasl.c`, `lib/pingpong.c`; modelled in large part). Lines in and out of
step, an upgrade to TLS in the middle of them, a login by one mechanism after the
other, mailboxes remembered from the last transfer, recipients of whom some are
refused, and a text whose end is a line like others. Correct means that no answer
is taken for that to another question, nothing secret goes out in the clear where
TLS is required, and what is reported of a mail is what happened to it.

**Other protocols, SOCKS, TLS, cookies and other stores, shared data, option and
URL parsing**: not modelled (section 7). The template
code of the Android project (a toast helper, a factorial) is not used by the app
and not modelled. Build files, tests and docs were read for what they promise.

The parts meet in `multi_runsingle`: it calls the resolver, the filters, the
protocol handlers (which send and receive through readers, writers and buffer
queues), sets timers and leaves sockets to be watched. Each boundary is a few
results (done, again, failed, a timer to set, sockets to watch), and each module
takes those of its neighbours as choices: `CurlMulti` any outcome of filters and
protocols, `Ftp` any outcome of its data connection, `HappyEyeballs` any answer
of the network, `ToolTransfers` any end of an attempt.

`PROJECT.json` lists all components, and under `hazards` what in this code is
hard to test, line by line, with the property that covers each or the reason
why none does.

## 2. How the project is built

The order was: the program of the repository itself; the multi handle with its
pool, since everything in libcurl runs in it, and what it promises as an
abstract specification; what it stands on (timers, tree, event sets,
notifications, queues); what runs in it (resolver, races, sending, receiving,
authentication, FTP, TFTP); the tool on top. `CurlMulti` is composed with
`CurlConnPool` and implements `TransferService`; `Timers` uses a set of times
where `Splay` shows that the tree is one; `Resolver` is composed of the thread,
the cache and DoH; `Sending` of the client readers and the HTTP exchange.

Each module takes its parameters as constants with a named assumption and has one
action per operation. `Splay`, `Writers` and `MultiNotify` declare RECURSIVE
operators, since their code recurses or walks links; the others do without, so
that theorems can be proved about them. What is left is in section 7.

## 3. The models

### UploadService

`UploadFile`, `SendRequest`, `ReadResponse`, `UploadFails` are the steps of a
coroutine; `DoPost`, `OpenFile`, `OpenFails`, `WriteFile`, `WriteFails`, `Respond`
those of `do_POST`; `Restart` is a server that dies and is started again over the
same directory. Neither program sets a time-out: `GoesSilent` is a connection on which
nothing arrives any more and nobody is told, so that its coroutine may wait for
ever; if its request had not all arrived, `Stalls` is the server's thread that waits
for the rest of it, with all other clients behind it, until a reset comes after all
(`StallEnds`) or the server is started anew. The order of creation and write matters (`open(.., 'wb')` truncates),
so they are two actions. A file's bytes are the identity of the upload and part
they came from and whether all were written. A connection that ends without an
answer, as by any exception in `do_POST` (a form without a boundary or a length, a
file that cannot be opened or written), is the response 500, which the activity
treats the same way.

### CurlConnPool

A function `cn` from connection slots to connections (`closed`, `live` or
`shut`; destination; `up`, `mux`, `reused`, `close`). Each operator is a C
function and returns the pool it leaves, or the set of pools it may leave. "The
oldest" of several candidates is any of them.

### CurlMulti

State: `added` (`multi->xfers`), `mstate` (`data->mstate`), `process`,
`pending`, `dirty`, `msgsent`, `alive` (`xfers_alive`), `msglist`, `recheck`
(`recheckstate`), `conn` and `xconn` (pool and `data->conn`), `timer`, and for
the call that runs `call`, `at` (the handle visited last), `cur`, `phase`,
`result` and `again` (the locals of `multi_runsingle`). `told` is what the
timer callback last told the application.

One action is one iteration of `multi_runsingle`'s switch for one handle, or
the check before it (`Recheck`, `TopTimeout`) or after it (`LateTimeout`,
`Failed`, `Complete`, `AbortToDone`, `AbortInDone`, `Loop`). `INIT`, `SETUP` and
`CONNECT` fall through and are one action. `VisitPerform` and `VisitDirty`
choose the next handle, in the order of the numbers; `EndPerform`, `SecondPass`
and `EndSocket` are the tails of the calls. The helpers keep the names of what
they stand for: `MultiDone` (`multi_done_locked`), `Park`, `Wake`
(`move_pending_to_connect`), `UpdateTimer` (`Curl_update_timer`),
`MarkExpired`, `DonePools`.

Time passes between calls (`Tick`) and wherever a call reads the clock anew:
in `SETUP`, after a connection was obtained in `CONNECT`, and before the second
pass of `multi_socket` (`Later`). A timer is `armed`, `late`, or `popped` (late
and taken out of the tree).

What it abstracts from:
- the network's answers, the server's limits and the verdicts of the protocol
  code are choices; TLS with ALPN is assumed, so it is known whether a
  connection can be shared once it is up;
- `CURLOPT_TIMEOUT_MS` is the only timeout (all timers are in `Timers`); those of
  the resolver, the race of connects and the speed limit appear as states that have a timer
  (`InTree`) and as events (`CallEvent`), as does a transfer that marks itself
  dirty while it sends or receives;
- any shutdown may end at the tail of any call;
- the second pass of `multi_socket`, which the code takes when something is
  left to run, is always taken: it visits nobody if nothing is;
- a handle's number is its mid, and its slot is not reused by another handle;
- left out: tunnels (the state `TUNNELING` is never entered), sub-transfers,
  `CONNECT_ONLY`, wildcards, `file:`, pausing, pools shared by several multis,
  memory exhaustion, a multi made dead by a failing callback,
  `curl_multi_poll` and cleanup.

### TransferService

The promise in terms of what an application sees: transfers that are out,
running or done, the connection each holds, the number it is told, the queue of
reports. The report of a transfer that is removed is withdrawn, and none of it is
left. A transfer that ends lets go of its connection at the latest then (an abort in
`DONE` does both in one step). `CurlMulti` implements it under the mapping `Stage`
(from `added` and `msgsent`), `lease <- xconn`, `running <- alive`,
`reports <- msglist`.

### Timers, Splay

`Timers`: `timeoutlist` (each handle's list of id and time), `expiretime` (its
time in the tree), `due` (popped, not run), `appTimer` with `lastExpire` and
`lastTimeout` (what the multi remembers having told). Actions are `Expire`,
`ExpireDone`, `ExpireClear`, the calls of a socket action (`TimerFires`,
`SocketActs`, `RunDirty`), and `Leave` with `Curl_update_timer`. Lists compare in
milliseconds, the tree in finer units, as the code does, and `TimeDiff` and
`TimeDiffCeil` take seconds and the rest apart as `curlx_timediff` and
`curlx_timediff_ceil` do. `TimersKept`: a timer that was
asked for is in its handle's list until it is over, and the tree has a time of
the handle that is less than a millisecond too late, and one more for each time that it was
replaced by a later one (`moved` counts these; section 6). `AppTimerSet`: between calls
the application's timer is set, for a handle that is due or for the tree's
earliest; not before that time, and less than two milliseconds after it, which is
what `curlx_timediff_ceil` may add across the end of a second. `Splay` is `Curl_splay` and the operations over it as they link
nodes, top down with its dummy node, and rings of equal keys; `TreeRight` (in the
run a part of `TimersRight`): the
nodes in it are those inserted, in order, each ring a ring, and what
`Curl_splaygetbest` returned was due and an earliest.

### MultiEvents, MultiNotify

`MultiEvents`: `shEntry` (`mev_sh_entry`: users, counts of readers and writers,
the announced direction), `lastPs` (each user's last set), `watched` (what the
application was told), `needs` (what the transfer needs now). `Assess` is
`mev_assess` with its diff and callbacks, `CloseSocket` `Curl_multi_ev_socket_done`;
`OpenSocket` gives a number again. `EventsRight`: what is watched is what the
last sets add up to, an event reaches every user of its socket.

`MultiNotify`: the chunks with their read and write positions, `dispatch` a
callback at a time, in which the application may add, remove, read messages,
switch types. `missing` are notifications that were due and not put in.
`NotificationsKept`: while messages wait unread, the application was told of
them since the list was empty, or a notification is in the queue; an end is told
once.

### Resolver

One application thread runs `call.todo`, the steps of its call that touch what a
thread may touch; a thread is `start`, `lookup`, `notify`, `unlink`, `free`,
`exit`, `ended`, its critical sections one action each. Entries of the cache have a
state, a count and a family; a user (a transfer) holds up to two, one while it
resolves and one while it connects. `ReferencesCounted`: a context is freed
once, after both sides are done with it; a thread is joined or detached; each
entry's count is that of its holders. `NoWaitForLookup`: only calls that are
blocking by contract (and not those that drop a lookup) join a thread that is
still asking. `AnswerFits`: a connection is set up with addresses of the family that was asked
for. `DohAnswersFor` is what `Curl_doh` asks for, which differs from what threads do: the A query is
always sent, and all that is answered is kept, cached and handed out. So the property
does not claim its part for a user that asks over HTTPS for IPv6 only; it does for the others, who
find in the cache what such a user has put there. `MCResolver` extends the module, and
has a second instance of it with a user over HTTPS that wants IPv6 only, who is not the one that resolves a second name and waits: `Curl_doh` does not
reset the pending answer (see `Separate` in section 5).

### HappyEyeballs, HttpsConnect

Both have the clock as a countdown to their timer, an evaluation as one step,
and the network's answers between any two. `RaceSound` is `OneWinner` (one
socket left when it is over), `GivesUpLast` (failure only after every address
was refused), `Alternates` (the families take turns while both have addresses),
`NeverStalls` (something will come: an attempt, the timer, or a call).
`BallersRight` says the same of the two chains of filters: the winner's is the
one in use, failure only after all have failed, and a second that was not tried
will be.

### BufQ, Sending, Writers

`BufQ`: chunks as their data and read position, `put` and `taken` the streams
on both sides; a call is its turns. `QueueRight`: what was taken is a prefix of
what was written (`InOrder`), empty and full are told truly, and chunks are
counted and bounded.

`Sending`: `snd` is `struct SingleRequest`'s sending half with its readers, one
record that functions take from step to step (`ReadIn`, `LcConvert`, `ReadExp`,
`AddChunk`, `BufferFlush`, `Answer`...). A move `c` fixes what callback and network
do in this call. `SendingRight`: what the server gets is a prefix of the headers and the converted
body (`InOrder`), each chunk's size is that of its data, an upload that is done
was sent whole unless it was aborted, no body goes out before the server or the
time said so, the callback is not called while it has paused, a connection is
kept only for a request that was sent whole or whose body was held back, and a
request that waits for neither time nor answer goes on in the next call
(`NeverStuck`).

`Writers`: `cw` holds what is kept by the out writer and by the pause writer,
`passed` is what the callbacks took, `received` what came in. `WritersRight`:
headers and body come out in order and once, decoded once; nothing is kept while
nothing is paused; an end without error gave the application all.

### HttpAuth

`auth[who]` is `struct auth` (`want`, `picked`, `avail`, `done`, `iestimate`
folded in), `conns` the NTLM state of a connection, `nonce` the Digest state of
the handle. A round is `Do` (with `Connect`, `SendConnect`, `Established`,
`Proxy407` before it in a tunnel), then one answer by proxy or host
(`ProxyRefuses`, `HostRefuses`, `Serves`), which is `Curl_http_input_auth`,
`Curl_http_auth_act`, the decision about the body, closing, and the redirect.
`AuthRight`: a success ends with the body delivered; a user whose credentials are
right and whose schemes are offered is served; a failure with `--fail` is a
server's; the credentials for the first host go to no other; an NTLM type 3
answers a challenge of the same connection.

### Ftp, Tftp

`Ftp`: `ftp` is `struct ftp_conn` with `struct FTP`, `owed` the replies the server
still owes, `serverDir` where it really is. The functions that send the next
command are operators that give the next record, command or error
(`Step`, `Kept`, `Fatal`); `OnLogin`, `OnQuote`, `OnSize`... are the handlers of
replies. `FtpRight` is `InStep`, that what the server still owes is the reply the state waits for and nothing
else and the end of a transfer waits for a reply only if one is owed, and
`RightDirectory`, that whenever a file is named,
the server is in the directory of this transfer, also when the code skipped
`CWD` (if the server told its entry path; without it `CWD` is relative to
wherever the last transfer left off).

`Tftp`: the client's record `tftp` with its last packet for retransmission, the
server's `sessions` (a repeated request makes a second), and `wire`, a set that
loses and reorders; time-outs of both sides make duplicates. A packet lives for
less than `Modulus` blocks. A server whose OACK is not acknowledged in time sends it again, at
any time until the ACK comes. `anew` remembers that the client read an OACK after its first
block; from there the code begins its numbers anew, and the properties claim nothing
(section 6). An OACK sent again and read before the first block is covered.
`DataIntact`: the blocks stored are the first blocks,
each once, in order, all of them at success. `CalmSucceeds`: a transfer fails
only if a packet was lost or late, or a side gave up, or it is an upload that ends where
the number wraps (`EndsOnWrap`).

### Mail, Smtp, Imap, Pop3, Sasl, MailBody

`Smtp`, `Imap` and `Pop3` are the three machines as operators: `Perform` and the
`perform_*` functions send a command and name the state that waits for its answer
(`Sent`, `Stop`, `Wait`, `Fail`), `OnReply` is the dispatch on the state with a
handler for each. `Sasl` has what they share, `struct SASL` with `StartSasl` and
`ContinueSasl`. `Mail` puts them to work: `mail` is the `*_conn` struct with the
transfer, `commands` what the server has not answered, `lines` what it sent, and
`mailServer` what it knows. `ReadLine` is `Curl_pp_readresp` and the machine for a
line, with any part of the lines on the way in the buffer behind it; `Connect`,
`UpgradeTls`, `Do`, `SendBody`, `Receive`, `Done`, `Again` and `Quit` are the
functions of the protocol handler. The server answers as its protocol allows:
yes, no, with a challenge, one that cannot be read, a literal of any size, and
after STARTTLS with a line more.

`MailRight` is five things. `MailInStep`: a machine that waits is owed one answer,
and a connection that is used again is owed none. `LoginRight`: where TLS is
required only the request for it goes out in the clear, each word of an exchange
is the one the mechanism asks for, no mechanism is tried twice, and no command of
the application goes out before a login that was possible has succeeded.
`FailedRight`: what the server accepted is not reported as failed. And what is
reported holds: `SmtpRight` (stored for every recipient that was not refused),
`ImapRight` (asked in the mailbox, and with the UIDVALIDITY, that was meant; the
literal is whole), `Pop3Right` (a mail is whole up to its end).

`MailBody` has the bytes. `crEob` is `struct cr_eob_ctx` and `ReadEob`
`cr_eob_read` for a buffer of any size; `eob` are the fields `eob` and `strip` of
`struct pop3_conn` and `WritePiece` is `pop3_write` for any piece. `MailBodies`: a
server that follows RFC 5321 gets the text, with a newline at its end, and sees
the end with the last byte and not before; what is written of a mail received is
what is stored, and ends with the last byte sent.

### ToolTransfers

`tool` is the state of the loop (serial or parallel, clock, counts, result),
`transfers` the list, `per` each transfer with its file, what is left of its
retries, and where a resumption starts. `FilesRight`: a file is always the first bytes
of the body, or the page of an error, and the whole body once its transfer ended
well. `AttemptsBounded`: no more attempts than `--retry` allows, no more at once
than `--parallel-max`. `ExitRight`: the tool ends with every transfer closed;
transfers are left out only by `--fail-early` and then a failure is told; in
parallel or with `--fail-early` it ends with 0 exactly if none was `Unsuccessful`: failed to
libcurl, to which `--fail` makes an error page a failure, or got an error page under
`--fail-with-body`. This is about the last attempt and not about what `retrycheck`
made of it; the failures that it takes for a success are set apart by name
(`Overlooked`, section 6).

### The MC modules

The components of `MCComponents` and `MCResolver` share no variable, so a behaviour
runs one of them, `part`, from every initial state of it, while the variables of
the others keep one value. The product of their states would show nothing more,
and one run asks all of them the same questions: types, safety, and whether what
is waited for ends. `MCComponents` extends `UploadService` and the seven modules named
`...State`: they have the constants, variables and properties of a component, and
the module without that ending extends them by its steps. So their properties are
checked in every state, the initial values of the variables that keep theirs
included, and are the definitions that the theorems name. The properties of the
other parts are guarded by the name of the part.

## 4. What the runs check

| run | instance | properties |
|---|---|---|
| `components` | `MCComponents`, its 13 parts; about 4 minutes | each part's properties above; `NeverOverwritten`, `EverySendAnswered`, `WaitsEnd` |
| `resolver` | `MCResolver`: 2 users, 2 lookups, 2 entries, threads or DoH; notifications of 2 transfers; 12 mail connections and all texts of up to 5 bytes; about 3 minutes | types (`AllTypesOK`); `ReferencesCounted`, `NoWaitForLookup`, `AnswerFits`, `NotificationsKept`, `MailRight`, `MailBodies`, `WaitsEnd` |
| `queue` | 3 transfers to a host with room for 1 connection, 1 to another; sharing of 2 streams, PIPEWAIT, a removal | type; sets match states; connection where needed; count; pending is never alone, nor beside a free connection; nothing dangles; limits; idle connections are reusable; `ImplementsService` |
| `event` | event based, 2 transfers for one shared connection, a timeout, a removal | nothing forgotten; marks are announced; no timeout lost; transfers end |
| `served` | perform, 2 transfers behind one that never ends; a redirect, a rate limit, an abort | transfers end |

**Bounds.** In `CurlMulti` two transfers for one connection are what it takes to
queue, three to have a queue with a choice, two hosts to see which queue is
served; two streams make a shared connection that fills; one redirect or retry
is a second life of a transfer, one addition more than transfers the reuse of a
handle. `MaxAdds` and `MaxFollows` bound counters that only grow. The limits are
reached while something is idle, shut or in use.

In the parts: 2 uploads of up to 2 parts and one restart (a second server life
over a first one's files), each of whose connections may go silent; of requests that
are refused, one of each kind (`Distinct`), since their number of parts is not
looked at; up to 3 addresses of two families, so that each
family has a next one, and a restart; 1 or 2 ballers, which is all there can be; two FTP transfers on a connection, over 8
sets of options; TFTP files of 1 to 4 blocks
with numbers modulo 3, so that they wrap, and one that ends where they do, with and
without options, 2 packets on the way and a
retransmission each, of an OACK as well; 2 sockets for a transfer and a closing connection; two timers of
one handle or one of each of two, over 3 units of time, of which 2 are a millisecond and
4 a second, so that both kinds of rounding and the end of a second occur; 4 nodes with 3 keys in the tree; chunks of 2
bytes in queues of 1 or 2 chunks, 6 bytes; bodies of 3 bytes through buffers of
3, which a chunk with its size does not fit; 5 bytes or header lines received
through pauses that expand them twice; 2 URLs with 2 bytes each and up to 2
retries, in 5 command lines, among them `--fail` and `--fail-with-body` with a
`Retry-After` that leads beyond `--retry-max-time`; authentication of two transfers, with 12 requests at most in each, above
what the longest exchange takes (section 6 says why fewer would show something
else), and one stale nonce. In `MCResolver` two contexts and entries are those of
two transfers, or one still used by an abandoned thread while its transfer
starts the next; a chunk holds 4 notifications (`chunks` has the case of more). The
mail connections are 12 pairs of what the application set and what the server
offers (each mechanism, each kind of TLS, with and without an initial response),
of which one for each protocol has three transfers in a row, chosen from all kinds
of request, so that each follows each; three recipients, literals of up to two
lines. Texts of up to 5 bytes over CR, LF, dot and another byte hold the end of a
mail and every part of it, cut into pieces of up to 3.

`CHECK_DEADLOCK FALSE` is set where the model really stops: an event based
application that is not told of anything, and components whose work has ended.

**Fairness.** `CurlMulti`: `Library`, a call runs to its end, since it is
sequential code. `Tick` of a transfer with a timeout: time passes; strongly,
since calls may come between. `Progress` of a transfer whose server is not
`Silent`: what the server, the resolver or the timers are waited for comes in
the end, even if calls in between find nothing. `CallPerform`: the application
calls perform again and again, as the documentation asks. Event based:
`CallTimeout` strongly (a timer that was set fires, though other calls may
intervene), and `CallEvent` strongly for servers that answer. Nothing is assumed
of adding, removing, failing or reading messages.

The parts: the server's thread runs unless it waits for a client, and so do the
coroutines unless their connection is silent (`UploadService`); nothing is assumed of
the network, and neither that a silent connection is ever reset nor that a server that is blocked
is started anew. `EverySendAnswered` therefore says that a Send ends in a status line
unless its own connection goes silent or the server stays blocked for good. The clock ticks,
and the call that is due is made (`HappyEyeballs`, `HttpsConnect`). The FTP server
answers and libcurl's steps are taken; TFTP's time-outs fire, and nothing is
assumed of the network. The steps of the tool are taken; of its turns those
that find nothing while a transfer runs are left out, and `curl_multi_poll`
without one takes its second. `Resolver`: thread steps and the steps of a call
weakly; an unfinished resolve is polled, and DoH answers, strongly, since
other calls come between. `Mail`: the server answers and libcurl's steps are
taken. `MultiNotify`: the steps of a dispatch weakly; that a
call which ends goes on to dispatch, strongly.

`Sending` and `HttpAuth` have no liveness run: their steps are functions of
functions, over which TLC's ENABLED takes too long. For `Sending` `NeverStuck`
says as an invariant what liveness would need; the rounds of `HttpAuth` are
bounded by `CURLOPT_MAXREDIRS` in the code.

**Violations.** Seven runs show where the code does something else than a comment
or a document says (`findings` in `PROJECT.json`):
- `eventQueuedTimeout`: event based, the timeout of a queued transfer is taken
  from the tree without an effect; `curl_multi_perform` has code for this case.
- `abortedDone`: an abort by callback in state `DONE` leaves a connection that
  is marked to be closed, unused, in the pool.
- `twoHosts`: only the queued transfer with the lowest number is woken,
  whichever host it waits for; another stays queued beside an idle connection.
- `chunks`: a chunk of notifications that was dispatched and is reset loses its
  link to the next one, which the assertion after it relies on.
- `writeError`: a write callback that fails while a pause is taken back is
  called again with later data.
- `delayedRetry`: a parallel transfer of the tool that waits for its retry after
  all others have ended is never tried again, and the tool never ends.
- `probe`: a POST through a proxy for which Digest or NTLM is set, but that asks
  for nothing, succeeds without its body.

The passing runs leave out the constellations of these where they check the same
property: `queue` has no aborts (`abortedDone`), and its second host has a single
transfer, so that no two queues compete (`twoHosts`); in `event` the shared
connection is not to a silent server, so a queued transfer is served
(`eventQueuedTimeout`). `served` covers the queued timeout for perform. The part
`notify` has one chunk that is never full, callbacks in `writers` do not fail
(`CallbackFails`), retries of parallel transfers need not wait, and proxies in
`auth` demand something (`ProxyAsksNothing` is the other case).

## 5. What is proved

By TLAPS, for all values of the constants that satisfy the named assumptions
(`UploadAssumption`, `PoolAssumption`, `MultiAssumption`, `EventsConstants`...: the
transfers are a finite set of positive numbers, the limits are numbers, "no
host" is not a host). Modules whose constants have to fit each other take the
assumption as an operator, which `MCComponents` and `MCResolver` assume of their
instances and the theorems name as a hypothesis.

`UploadServiceProofs`: type correctness (`TypeCorrect`), the names in use are
1..n (`NamesAreContiguous`), no upload is ever overwritten (`UploadsSurvive`),
and success on the screen means every part is stored whole (`SuccessIsTrue`).
The inductive invariant says which file is open, that the parts stored so far
of the request that is handled are whole but for the open one, and that an
answered 200 is of an upload whose parts are all whole. Contiguity is what
makes the next name new.

`CurlMultiProofs`: `TypeCorrect`, `SetsAgree` (the sets are what the states
say), `CountIsRight` (the running count is the number of transfers not yet
done) and `ConnectionWhereNeeded` (the assertion at the top of
`multi_runsingle`, and that nobody else holds a connection). All four follow
from one inductive invariant `IInv`. The properties alone are not inductive:
- `Control` says who is running: nobody between calls; else a transfer of the
  multi that is not in `msgsent`; and after an error one that is neither queued
  nor, at the top of the loop, anywhere but in `DONE`. Without it a queued or
  completed transfer could run a state's code.
- `CurConn` says what an iteration leaves behind: after an error no connection,
  otherwise one exactly if the state calls for it. The assertion is about the
  top of the loop only, and this carries it from one top to the next.
- `TimersOfAdded`: only transfers of the multi have timers, so that what an
  expired timer marks dirty is a transfer of the multi.

The argument. The pool's operators return pools (first section). Each of the 36
actions of a running transfer changes the sets in one of six shapes (stand,
wake, move, park, end, finish: `Shape`), and each shape preserves what the sets
say and the count; the count needs that at most finitely many transfers were
added. Separately each action leaves the transfer with a connection exactly if
its new state calls for one (`Settled`), and no shape moves another transfer
into or out of the states that call for one. The remaining actions run no
transfer: they change marks and timers (`QuietInv`), wake (`AwakeInv`), or are
add and remove.

Its second part is about connections: `ConnectionsSurvive`, that `NoDangling` always holds. The
pool's operators get the set of connections in use; one lemma for each says
that they leave those `Untouched` (status, destination, whether they can be
shared), and that a chain of operators does too. So a step of a transfer keeps
its connection, loses it (then those of the others are untouched), or is one of
three: it takes one (`ReuseConn`), opens one (`OpenConn`), or finds that its own
can be shared (`ComesUp`). `NoDangling` alone is not inductive: when a
connection becomes one that can be shared, or one is joined, its users must be
transfers that may share it. That is `Sharing`, which also says that a transfer
that still resolves a name has a connection that nobody can join, so that the
failure of the resolver, which closes it, harms nobody.

Its third part is what the application is promised, and builds on both invariants. In
the order of the module:

- `LimitsRespected`: `LimitsHeld` always holds and, when no progress callback
  aborts, `PoolWithinLimits`. All the pool's operators but the opening of a
  connection leave a pool that is `Smaller`: the connections taken are a subset of
  those before, the live ones too, and to the same hosts. A connection is opened only
  below both limits, after what is idle and what is in shutdown was given up for it.
  `LimitsInv` adds that finitely many connections are taken, so that subsets can be
  counted. The bound on idle connections can only break in `multi_done`, where one
  falls idle: if the pool is full, it is evicted or takes the place of one that is
  (`DonePoolsBound`).
- `EveryoneIsServed`: `NothingForgotten`. Every step leaves each *other* transfer
  where it stands, or marks it (`OthersMarked`, by the shapes); and a transfer leaves
  the loop of `multi_runsingle` only waiting for the network, parked, or over
  (`LeavesByLoop`). The inductive `NoneForgotten` says the same within a call: who does
  not wait is marked, or is the one that runs.
- `TimeoutsAreSeen`: `NoTimeoutLost`, event based. A timer is popped only by a pass
  that marks its transfer. `TimersSeen` says within a call that a popped one belongs
  to a transfer that is marked, that runs and is to look at it at the top of its loop,
  or that has ended or is parked (`HandleLosesNone`). With `curl_multi_perform` it is not true (section 6), hence `EventMode`.
- `DirtyAnnounced` and `OnlyRemovalIsSilent`: marks are announced when a call ends, if
  nothing is removed; and in general the one step after which a mark is not announced
  is the removal of a transfer without timer (section 6), an action property.
- `IdleReusable`: `IdleIsReusable`, if no progress callback aborts. The inductive
  `Ups` adds that a connection that can be shared is up, and so is that of a transfer
  beyond `CONNECTING`: the one its user leaves behind can be used again, or
  `multi_done` closes it. Each operator of the pool only closes connections and keeps
  the marks of the others (`Survivors`); `DoneFrees` is what `multi_done` leaves.
- `NobodyWaitsAlone`: `PendingNeverAlone`, with the same hypothesis. A transfer is
  parked only because of a limit or of a connection that comes up; in both cases some
  connection is in use afterwards: at a limit everything idle was evicted first
  (`RoomMade`, `FullIsTaken`, `LimitsInUse`), so by `IdleIsReusable` its user is another
  transfer, in process. And whoever leaves the process set wakes one that is pending.
  The induction needs that a nonempty set of numbers has a first (`FirstExists`).
- `ReportedOnce`, and with it `Implemented`: `Spec => ImplementsService`, without any
  hypothesis. Each action maps to one step of the service or to a stutter: a transfer
  that gets a connection acquires it (`AcquireStep`: nobody else uses it, or by
  `Sharing` all its users may share it, and fewer than the limit do); one that is done
  with it releases; `Failed`, `Complete` and `AbortInDone` finish (`FinishStep`, by
  `ConnectionWhereNeeded` after the step); a removal withdraws the one message there
  can be (`RemovedUnread`).

The hypothesis `Aborting = {}` says that no progress callback aborts a transfer. It is
needed: an abort in `DONE` leaves a connection to the pool without a look at its size
or its marks, which run `abortedDone` shows. The run `queue` has the same bound.

`QueueAndEventProofs`, the first part: `QueueIsRight`. The bytes in the chunks are a run without a gap from
the next to be read to the last written: each chunk is a `Run`, neighbours are
`Joined` (only the last chunk has room, only the first was read from), the `Ends`
are where the two streams stand. An empty chunk at the head with others behind it
exists only inside a call (`HeadPruned`): without that "is empty" would be untrue.

Its second part is about `MultiEvents`: `EventsAreRight`. For each socket the invariant keeps the set
of its readers and of its writers; the entry counts both, and the announced
direction is their sum. A step changes one user of one socket at a time, so the
counts are exact by the cardinality of a set with one element more or less, and
the application is called exactly if the sum changes.

`RaceProofs`, the part about `HttpsConnect`: `BallersAreRight`. `ChainInv` says what each state leaves in
place; `TimerInv` that the timer never ends before the soft timeout does. Without
it the timer could fire when the second baller is not due yet and not be set
again.

The part about `HappyEyeballs`: `RaceIsSound`. An address has a socket exactly if it was
tried (`SocketInv`), was tried exactly if its family's iterator is past it
(`IterInv`), and once (`OnceInv`); what failed was refused (`StatusInv`), so that
when all attempts failed and both iterators are at their end, every address was
refused. `LastInv` is what makes the families alternate.

`TftpProofs`: `TransferIsIntact` and, with it, `TransferIsRight` (`TftpRight`), for files
of any length, so that block numbers wrap any number of times. The first section is
arithmetic: equal numbers of blocks less than `Modulus` apart are those of one block
(`Numbers`). What makes that enough is the invariant `IInv`: the client and the session it
talks to are one block apart at most (`Near`, and `SessionRight` for a session it does not
talk to); everything on the wire is a packet that one of them may have sent by now, with the
number of a block not beyond its sender's (`PacketRight`); and a packet does not live as long
as `Modulus` blocks. Two blocks apart are they only where `tftp_tx` takes the
acknowledgement of 65535 for one of 0: then the late one of the block before counts too
(`AckTaken`), and the client sends number 1 while the server waits for 0. Each handler of
the client is `Sound`, each step of a session is sound for the client it does not see
(`ServerMoves`). `CalmInv` is what is true without loss: exactly one packet is on its way,
and which one the state of the two sides tells (`OnItsWay`).

The only hypothesis is that the constants fit each other; what the code does not do is set
apart in the properties. `DataIntact` is about the transfer until an OACK is read after the first block
(`anew`, of which `AnewStays` says that it stays so). An OACK that comes again before the first
block, because its ACK was late or lost, is within the theorem: `PacketRight`
lets it be on the wire at any time of a session that has options, and `OnPacket` is sound for it while
nothing was received. `CalmSucceeds` leaves out uploads that end on a wrap (`EndsOnWrap`), where
`tftp_tx` does not see that the file has ended. TLC violates both without these.

`FtpProofs`: `RepliesInStep` and, with it, `FtpStaysRight` (`FtpRight`), for any set of
transfers and any number of them on a connection. Each function that looks for the next
command sends one and enters the state that waits for its reply, or sends nothing and
stops, or fails; one lemma for each function says which states it may enter
(`DoingStep`, `MoreStep`, `LoginStep`), and so does each handler of a reply. From that
`StepInv` follows: while a command is out, the server owes the reply that the state waits for
and nothing else; while data is moved, the last reply and nothing else (`pending` is set);
and nothing when the next transfer begins. The second theorem adds `DirInv`. `RightDirectory` alone is
not inductive: on the way to the file the server is in the directory that the first
`cwdcount` parts of the path name (but for the one that is asked for), and after that in the
directory of the path; a path that is kept for the next transfer is where the server is, as long
as nothing failed in between; and after a `CWD` that failed, nothing is kept.

The hypotheses are needed. `InOrder`: no reply comes after the connection was taken
again (`LateReplies`), and a range is not asked for together with quotes after the
transfer: the answer to the `ABOR` of a range that was complete is not awaited, and
would be taken for that of the quote. `Paths`: paths are sequences of names, and
directories are not made with a single try (`mkdir` is not `"once"`): a refused `MKD`
fails without `cwdfail`, so the next transfer believes in a directory where the server
is not. TLC shows `InStep` violated without each half of the first (for the second with a
range that resumes where the file ends) and `RightDirectory` without the second; the run
has the same bounds, and section 6 the lines of the code.

`ToolTransfersProofs`: `ToolStaysRight` (`ToolRight`), for any number of URLs, any
lengths and sets of options, from `ToolConstants` alone. The inductive invariant
`ToolInv` has four parts.
- A transfer and its file (`PerOK`). Before an attempt the file ends where the attempt
  begins (`Begins`), and `left` retries and `tries` together are what `--retry` allows;
  after it, the bytes written go on where it began, or are an error page in a file that was
  empty (`Ended`); when it is over, only what `FilesRight` needs is left (`Gone`). The
  step from `Ended` to `Begins` is `Rewound`: what is kept is resumed behind its last
  byte, what is not is cut where the attempt began.
- The list (`ListOK`, `MessagesOK`): it holds each transfer that was created and not
  deleted once, and there is one message for each that is done and not read, which tells
  how that one ended. So reading a message deletes what is in the list, and retries
  what has ended.
- The exit code (`ExitOK`, `WrapOK`): what the tool remembers is a failure, if there was
  one it remembers one, and it wraps up only after one and with `--fail-early`. What the tool takes for a
  failure is its verdict over the last attempt; `Gone` has that it is `Unsuccessful` and not
  `Overlooked`, which are said of the attempt itself (`OverGone`).
- The loop (`ParallelOK`, `SerialOK`, `CleanupOK`). What is not created yet, or waits for
  its turn, keeps the loop going: when the list was gone through, nothing is uncreated
  unless more is noted, and `still` is the number that runs when the loop looks at it. So at the
  end nothing runs, and what was never tried was left out for a failure. `--parallel-max` holds
  as a transfer is added only while fewer are.

The invariant is about the tool until it ends; from then on only `ToolRight` is kept.
That every command line ends is not a theorem: it is not true with retries that wait
(`delayedRetry`), and liveness otherwise.

`ResolverProofs`: who holds what, while the threads go on between any two steps of a
call. What a step may rely on depends on what the call has done before, that is on
what it has left to do, so the first part of the invariant is about programs:
`Ordered` says which step may follow which (a join only after the thread was told to
abort, a name is looked for only at the end), `Control` what the handle has at each
step. Every program that a call starts with or continues with is shown to be ordered.
- `Lookups_Held`, the inductive `LInv`: a lookup has one owner at most (`OneOwner`);
  its count is the owner and the thread under way; its handle is joined or detached
  before the owner lets go; and what a call has seen of `thrd_done` under the lock
  stays true until it joins (`DoneSeen`). From it follow `Joins_Never_Wait`
  (`NoWaitForLookup`) and `Lookups_Freed_By_The_Last` (`LookupShared`,
  `ThreadReaped`), without any hypothesis.
- `Entries_Held` adds `EInv`: the count of an entry is the number of hosts, slots of
  handles and calls that have it (`Counted`), none is cached for two hosts, and an
  answer that is still looked for is not there yet (`NoAnswerYet`), so that taking it
  drops nothing that others hold. From it `References_Are_Counted`
  (`ReferencesCounted`), `Answers_Fit` (`AnswerFits`) and `Resolver_Types`.

The second half has the hypothesis `Separate`: no handle uses DNS over HTTPS and also
resolves a second name with a wait. It is needed. `Curl_resolv_blocking` never asks over
HTTPS, leaves its answer in `async.dns` after the caller has given up the reference, and
`Curl_doh` does not reset it as `async_thrdd_init` does; `Curl_doh_is_resolved` then
drops it again. With one user in both sets and `MaxTurns` 6 TLC shows the count below
zero. A transfer that waits for a second name is one with FTP in active mode, or one
whose interface is a host name. The run has the same bound.

Model-checked and not proved are these properties of the table in section 4.
- `WritersRight`, `TimersRight` and `NotificationsKept`: `Writers`, `Splay` and
  `MultiNotify` have recursive operators (decoding, the splay itself, a chain of chunks).
  The prover has no SMT backend in a module that reaches one, and what they
  compute would need induction over data, which is out of its reach as well.
- `AllTypesOK` of both instances, as a whole, for the same reason: it is about all parts.
  Types of single components are proved in `UploadServiceProofs`, `CurlMultiProofs`,
  `ResolverProofs` (`Resolver_Types`) and, for `MultiEvents`, with `EventsAreRight`.
- `SendingRight` and `MailBodies`: what the other side got is compared with a conversion
  of what was sent that is a fold over its bytes, so what it computes for any text
  would need induction over data.
- `MailRight` and `AuthRight`: nothing but their size stands against a proof. `Mail` has
  the handlers of three protocols and a login, in `HttpAuth` one step is a whole round
  with two parties, each with schemes set, offered and demanded.
- `PendingOnlyWithoutConn`, which is not true for any number of hosts (the run `twoHosts`).

Out of the prover's reach and left to TLC are liveness under fairness and anything with
ENABLED: `EverySendAnswered`, `WaitsEnd`, `ToolEnds` and the ends of transfers in
`event` and `served`.

## 6. What else the modelling showed

Met while the code was read and modelled, kept out of the runs by their bounds or
by the conditions named in the modules. A line number is of the file named first.

*Multi handle.* `curl_multi_perform` hands its time stamp to transfers that move
it forward (`lib/multi.c` 2427, 2328, 2800) and then removes timers up to that
later time (2829), which the comment at 2823 says must not happen: `NoTimeoutLost`
is checked event based. `curl_multi_remove_handle` wakes a pending transfer and
marks it dirty, but calls `Curl_update_timer` only if the removed one had a timer
(869-870): in `event` the handle that may be removed has a timeout. If
`Curl_update_timer` fails in `curl_multi_add_handle` (506-512), the handle leaves
the table but not `process`; a dead multi calls `multi_done` without a connection
(2375). `Curl_connect` that fails after it took a shared connection terminates it
(`lib/url.c` 3860-3865). The timer of the shutdown list is never armed
(`lib/cshutdn.c` 260-273): `next_expire_ms` starts at 0 and only smaller values
replace it.

*Upload service.* Neither program sets a time-out (`MainActivity.kt` 79-98,
`server.py` 24): a client that stops in the middle of its request blocks the server
for all others, and a Send whose connection goes silent never shows an outcome.
`catch (e: Exception)` (103) does not catch an `OutOfMemoryError` of the
`readBytes` before it, which ends the app.

*Timers.* `Curl_expire_ex` compares in milliseconds (`lib/multi.c` 3628-3635), the
tree in microseconds: a timer set less than a millisecond after the tree's time
replaces it, so that a transfer that sets later timers again and again moves its
time in the tree on, past its earliest timer, by almost a millisecond each time. The comment
at 3012-3013 says that the nearest timeout is the one in the tree. `TimersKept`
allows a millisecond for each replacement and no more. The list is
sorted in milliseconds only (3573-3577). `curlx_timediff_ceil`
(`lib/curlx/timeval.c` 237-245) adds 999 to the difference of the microseconds also where that is
negative, so that across the end of a second it may be almost two milliseconds too much.

*Event sets.* Memory exhaustion in the middle of a comparison of sets leaves
`prev_ps` as it was while entries have changed (`lib/multi_ev.c`).

*Resolver.* `Curl_resolv_check` may hand out a negative entry; `Curl_doh` does not
reset `async.dns` (section 5, `Separate`). With `CURL_IPRESOLVE_V6` a name asked for over
HTTPS is asked for with A as well (`lib/doh.c` 489-496), and an entry that has only
IPv4 addresses is handed out (1299-1301); the race of connects takes none of
them, so that the transfer fails to connect where it could not resolve.

*HTTPS connect.* When all ballers fail, the state becomes failure without the
filter's `result` being set.

*Writers.* Each unpause moves one more piece from the pause writer to the out
writer even if the callback pauses again at once, until `DYN_PAUSE_BUFFER` is
reached (`CURLE_TOO_LARGE`). An empty write (`CW_OUT_BODY_0LEN`) is lost when the
callback pauses. `curl_easy_pause` tells the connection that receiving goes on
even if the callback paused again meanwhile.

*Sending.* The line converter does not record the last byte of a piece without a
line end (`lib/sendf.c` 1004-1080): "a CR" and "LF b" in two pieces become CR CR
LF, and a stale one suppresses a later conversion; bodies in the run have no CR.
With receiving paused a body that waits for 100 Continue is never sent
(`lib/urldata.h` 432-437 says otherwise). A final answer below 300 while it
waits ends the request as done with the body unsent and keeps the connection
(`Held` allows this case).

*Authentication.* (1) `http_perhapsrewind` and `Curl_http_auth_act` look only at
the host's `done` (`lib/http.c` 622-636): the run `probe`. (2) For the same reason
Basic credentials of a proxy beside NTLM or Digest set for a host that demands
nothing: the repeated request has lost the proxy's scheme (`pickoneauth`,
597-606), gets a 407 and fails. (3) With `--fail` and Digest or NTLM alone, a POST
to a host that demands nothing fails on its second 200 (576-577). (4) A Digest
challenge is taken in even if Digest is not wanted, and with a nonce of an
earlier transfer it counts as a refusal of credentials that were not sent; hence
the conditions in `RightUserServed`. (5) Rounds of authentication count as
redirects (1228; `CURLOPT_MAXREDIRS.md` speaks of redirections only); a transfer
that ends by that limit in the middle of NTLM leaves its state on a pooled
connection to a proxy. `MaxRedirs` is high enough not to cut an exchange short.
(6) In a tunnel, a challenge of NTLM with `Connection: close` is answered on a
new connection, and stale nonces may repeat without limit; the proxy here is
polite. (7) A redirect to another host repeats the request once without
credentials.

*FTP.* A refused `MKD` (`lib/ftp.c` 3080-3083) fails without `cwdfail`, so the next
transfer trusts the directory and skips `CWD` (4287-4297). When a range was
complete before, the reply to `ABOR` is neither awaited nor is the connection
closed (3344-3385). A time-out of accept, or an abort by callback in
`getftpresponse`, keeps a connection with a reply owed (`LateReplies` is FALSE in
the run).

*Mail.* (1) SMTP and IMAP measure the wait for the last answer from the last one,
before the body (`lib/pingpong.c` 57-64), so that a long upload or download ends
with `CURLE_OPERATION_TIMEDOUT`; `lib/ftp.c` 3367 resets the clock for this. If that
wait fails, `smtp_done` and `imap_done` leave the connection open with an answer
owed, and it is used again if the answer is late enough (`LateAnswers` is FALSE in
the run). (2) `imap_perform_select` forgets the mailbox but not its UIDVALIDITY
(`lib/imap.c` 776-806); the server here always says it anew. (3) A literal in an
answer to LIST, SEARCH or a custom command ends the wait (1286); the rest of the
answer may meet the next transfer. (4) `login_disabled`, `ir_supported` and the
types of login of POP3, `size_supported` and `utf8_supported` of SMTP, are not reset
after STARTTLS. (5) Mailboxes are compared without regard to case (1787), and a
custom SELECT leaves the one remembered untrue. (6) POP3 writes a newline for an
empty mail (`lib/pop3.c` 1781), and LIST or UIDL with a number as a custom command
waits for an end that never comes. (7) With a URL that has a UID and no mailbox
`imap_done` waits for an answer that is not owed. (8) The continuation of a custom
upload is not recognised (`lib/imap.c` 404). (9) With `CURLOPT_NOBODY` the literal of
a FETCH is read as answers. The requests of the run have none of (3) and (5) to (9).

*TFTP.* An OACK that is read again after the first block, since the server sent it once
more before it saw the ACK, sets the block number back. In an upload a block is then left out and the transfer
reported as a success (`lib/tftp.c` 764-768); in a download the first block is taken for new and
written twice if it is sent again (640-657). TLC finds both when the properties
are stated without `~anew`. Uploads whose last block has the number 65535 or 0 wait on and
time out, with all of the file stored. Two answered requests end with `CURLE_RECV_ERROR`.

*Tool.* `retrycheck` returns success when `Retry-After` exceeds
`--retry-max-time` (`curl-8.17.0/src/tool_operate.c` 478-487): with `--fail` a 503
then ends with exit code 0, where `docs/cmdline-opts/fail.md` 21 says
"Fail with error code 22". `Overlooked` names these attempts, and without it TLC
finds `ExitRight` violated. Of two failures read in one turn the last,
not the first, gives the exit code. The time for retries starts when a transfer
is created, in parallel one ahead of its start. Transfers that wait for a retry
when `--fail-early` ends the loop are not closed properly.

## 7. Not modelled, and why

- *Protocols*: RTSP, MQTT, telnet, LDAP, SMB, SSH and WebSocket are codecs or adapters
  to libraries. HTTP/2 and HTTP/3 are adapters to nghttp2 and ngtcp2, whose flow
  control is not in these sources. Parsing of headers is sequential.
- *TLS, SOCKS, GSSAPI and SCRAM in SASL, Negotiate, AWS signatures*: external libraries or one pass
  handshakes without shared state.
- *Cookies, HSTS, Alt-Svc, netrc*: parsers and files. *Options, URL API, MIME,
  formats*: sequential parsing and storage.
- *Shared data*: `lib/share.c` needs several multis in several threads under the
  application's locks; the pool is modelled for one multi.
- *Of the upload service*: the end of the app's process, with which its coroutines and
  their status lines are gone.
- *Of the multi handle*: tunnels as a state, sub-transfers, `CONNECT_ONLY`,
  wildcards, `file:`, a dead multi, `curl_multi_poll` and cleanup, the reuse of a
  mid by another handle (`lib/uint-table.c`). *Of the shutdown list*: its timers and
  sockets.
- *Of the parts*: TLS from the start, literals in answers but to FETCH, parsing of
  URLs and addresses in `Mail`, which are sequential; FTP with TLS on the data connection, wildcards, absolute
  paths; `max_filesize` and ignored bodies in `Writers`; form and memory readers
  and resumed uploads in `Sending`; HTTPS records and c-ares in `Resolver`; a proxy
  on another port than a redirect's with NTLM in `HttpAuth`; the tool's option
  parsing, globbing, uploads and `--rate`.
- *Memory exhaustion*, except where an allocation decides what a queue does
  (`MultiNotify`).

## 8. Running

    tlasany CurlMulti.tla
    tlc -workers 2 -config MCCurlMulti_queue.cfg MCCurlMulti
    tlc -workers 2 -config MCComponents.cfg MCComponents
    tlapm CurlMultiProofs.tla
    tlapm ResolverProofs.tla

`components` takes about four minutes, `resolver` three, `queue` two, the others
seconds to a minute; all proofs from nothing take some ten minutes.
