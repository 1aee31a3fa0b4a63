--------------------------------- MODULE Sending ---------------------------------
(***************************************************************************)
(* How an HTTP/1.1 request with a body gets onto the wire (lib/request.c,  *)
(* lib/transfer.c, the client readers of lib/sendf.c and                   *)
(* lib/http_chunks.c, and in lib/http.c the wait for "100 Continue" and    *)
(* what an early answer does): the application's callback gives the body   *)
(* in pieces, pauses or aborts, readers convert line ends and make chunks, *)
(* the send buffer keeps what the network does not take, and the server    *)
(* answers at any time, also before it has all.                            *)
(*                                                                         *)
(* A byte is a token: `head' of the request's headers, `byte', `cr' and    *)
(* `lf' of the body, `size' and `last' of the chunked encoding.            *)
(***************************************************************************)
EXTENDS Integers, Sequences, SequencesExt

CONSTANTS
  SendOptions,   \* body, length known, Expect header, line conversion, keep sending on error, speed
  BufSize,       \* CURLOPT_UPLOAD_BUFFERSIZE
  Little,        \* http_perhapsrewind: what is less than this is sent rather than dropped
  Answers,       \* the final status codes of the server
  MaxAttempts    \* bound: how often the request is sent

VARIABLES
  sending,   \* the options
  snd,       \* the request and its readers: see Fresh
  sent,      \* what the server has got of this request
  server,    \* whether it said "100 Continue", its final status or 0, whether that is all
  replies,   \* what it said and libcurl has not read
  attempt,   \* how often the request was begun
  outcome,   \* "on", "done" or an error
  owing      \* a connection was kept on which a part of a request is missing

sendingVars == <<sending, snd, sent, server, replies, attempt, outcome, owing>>

SendingConstants ==
  /\ BufSize \in Nat \ {0} /\ Little \in Nat /\ MaxAttempts \in Nat \ {0}
  /\ Answers \subseteq {200, 307, 400, 417}

-----------------------------------------------------------------------------
Token(t, n) == [t |-> t, n |-> n]
Heads == <<Token("head", 1), Token("head", 2)>>
IsBody(tok) == tok.t # "head"
Lesser(a, b) == IF a < b THEN a ELSE b
Drop(s, n) == SubSeq(s, n + 1, Len(s))
Take(s, n) == SubSeq(s, 1, n)

Chunked == ~sending.known \/ (sending.crlf /\ sending.body # <<>>)

\* The request after Curl_req_hard_reset and Curl_req_soft_reset, with fresh readers.  `at' is how much of its
\* data the application has given: the readers do not know of it.
Fresh(at, expect) ==
  [begun |-> FALSE,
   buf |-> <<>>, filled |-> 0,                    \* sendbuf, and how far its chunk is written
   eosRead |-> FALSE, eosSent |-> FALSE, uploadDone |-> FALSE, aborted |-> FALSE,
   keep |-> {"recv", "send"}, written |-> 0,      \* keepon, writebytecount
   at |-> at, read |-> 0, seenEos |-> FALSE, errored |-> FALSE, used |-> FALSE,  \* cr_in_ctx
   lcBuf |-> <<>>, lcReadEos |-> FALSE, lcEos |-> FALSE, prevCr |-> FALSE,       \* cr_lc_ctx
   chBuf |-> <<>>, chReadEos |-> FALSE, chEos |-> FALSE,                         \* chunked_reader
   exp |-> IF expect THEN "sending" ELSE "none", expired |-> FALSE,              \* cr_exp100_ctx
   newurl |-> FALSE, rewind |-> FALSE, disableExpect |-> FALSE, close |-> FALSE, done |-> FALSE,
   told |-> ~expect,                              \* the body may go: it is asked for or the wait is over
   amiss |-> FALSE,                               \* the callback was called when it should not be
   got |-> <<>>, eos |-> FALSE, res |-> "ok"]     \* what a reader returned

\* cr_in_read.  `c' says what the callback does: how many bytes, or that it pauses or aborts.
ReadIn(q, blen, c) ==
  LET left == IF sending.known THEN Lesser(blen, Len(sending.body) - q.read) ELSE blen
      given == SubSeq(sending.body, q.at + 1, Lesser(q.at + Lesser(c.n, left), Len(sending.body)))
      p == [q EXCEPT !.got = <<>>, !.eos = FALSE, !.res = "ok"]
      called == [p EXCEPT !.used = TRUE, !.amiss = @ \/ "sendPause" \in q.keep \/ q.aborted]
      fed == [called EXCEPT !.got = given, !.at = @ + Len(given), !.read = @ + Len(given),
                            !.seenEos = sending.known /\ q.read + Len(given) >= Len(sending.body),
                            !.eos = sending.known /\ q.read + Len(given) >= Len(sending.body)]
  IN  IF q.errored THEN [p EXCEPT !.res = "aborted"]
      ELSE IF q.seenEos \/ left = 0 THEN [p EXCEPT !.eos = TRUE, !.seenEos = TRUE]
      ELSE IF c.cb = "abort" THEN [called EXCEPT !.errored = TRUE, !.res = "aborted"]
      ELSE IF c.cb = "pause" THEN [called EXCEPT !.keep = @ \cup {"sendPause"}]
      ELSE IF given # <<>> THEN fed
      ELSE IF sending.known THEN [called EXCEPT !.res = "read"]
      ELSE [called EXCEPT !.eos = TRUE, !.seenEos = TRUE]

\* cr_lc_read: a line feed becomes a carriage return and a line feed, unless one precedes it
CrBefore(q, data, i) == IF i = 1 THEN q.prevCr ELSE data[i - 1].t = "cr"
CrLf(q, data) ==
  FlattenSeq([i \in DOMAIN data |->
    IF data[i].t = "lf" /\ ~CrBefore(q, data, i) THEN <<Token("cr", 0), data[i]>> ELSE <<data[i]>>])
Converted(body) ==
  IF ~sending.crlf THEN body
  ELSE FlattenSeq([i \in DOMAIN body |->
         IF body[i].t = "lf" /\ (i = 1 \/ body[i - 1].t # "cr") THEN <<Token("cr", 0), body[i]>> ELSE <<body[i]>>])
HasLf(data) == \E i \in DOMAIN data : data[i].t = "lf"
LcTake(q, blen) ==
  LET n == Lesser(blen, Len(q.lcBuf))
      last == q.lcReadEos /\ n = Len(q.lcBuf)
  IN  [q EXCEPT !.got = Take(q.lcBuf, n), !.lcBuf = Drop(@, n), !.eos = last, !.lcEos = last]
LcConvert(q, blen) ==
  IF q.res # "ok" THEN q
  ELSE IF ~HasLf(q.got) THEN [q EXCEPT !.lcReadEos = q.eos, !.lcEos = q.eos]
  ELSE LcTake([q EXCEPT !.lcReadEos = q.eos, !.lcBuf = CrLf(q, q.got), !.prevCr = Last(q.got).t = "cr"], blen)
ReadLc(q, blen, c) ==
  IF ~(sending.crlf /\ sending.body # <<>>) THEN ReadIn(q, blen, c)
  ELSE IF q.lcEos \/ (q.lcBuf = <<>> /\ q.lcReadEos)
  THEN [q EXCEPT !.lcEos = TRUE, !.got = <<>>, !.eos = TRUE, !.res = "ok"]
  ELSE IF q.lcBuf = <<>> THEN LcConvert(ReadIn(q, blen, c), blen)
  ELSE LcTake([q EXCEPT !.res = "ok"], blen)

\* Bug variant: the time is not asked for.
PassingAlways(q) == q.exp # "sending"

\* cr_exp100_read: the body waits until the headers are sent, and then for "100
\* Continue" or the end of the wait
Passing(q) == q.exp \in {"none", "send"} \/ (q.exp = "awaiting" /\ q.expired)
Continue(q) ==
  IF q.exp \in {"none", "send"} THEN q
  ELSE [q EXCEPT !.exp = "send", !.keep = (@ \cup {"send"}) \ {"sendTimed"}, !.expired = FALSE]
Await(q) == [q EXCEPT !.exp = "awaiting", !.keep = (@ \ {"send"}) \cup {"sendTimed"}]
ReadExp(q, blen, c) ==
  IF Passing(q) THEN ReadLc(Continue(q), blen, c)
  ELSE IF q.exp = "failed" THEN [q EXCEPT !.got = <<>>, !.eos = FALSE, !.res = "read"]
  ELSE [(IF q.exp = "sending" /\ q.buf # <<>> THEN q ELSE Await(q))
          EXCEPT !.got = <<>>, !.eos = FALSE, !.res = "ok"]

\* cr_chunked_read
AddChunk(q) ==
  IF q.res # "ok" THEN q
  ELSE [q EXCEPT !.chReadEos = q.eos,
                 !.chBuf = (IF q.got = <<>> THEN <<>> ELSE <<Token("size", Len(q.got))>> \o q.got)
                           \o (IF q.eos THEN <<Token("last", 0)>> ELSE <<>>)]
ChTake(q, blen) ==
  LET n == Lesser(blen, Len(q.chBuf))
      last == q.chReadEos /\ n = Len(q.chBuf)
  IN  IF q.res # "ok" THEN q
      ELSE [q EXCEPT !.got = Take(q.chBuf, n), !.chBuf = Drop(@, n), !.eos = last, !.chEos = last]
ReadTop(q, blen, c) ==
  IF ~Chunked THEN ReadExp(q, blen, c)
  ELSE IF q.chEos THEN [q EXCEPT !.got = <<>>, !.eos = TRUE, !.res = "ok"]
  ELSE IF q.chReadEos \/ q.chBuf # <<>> THEN ChTake([q EXCEPT !.res = "ok"], blen)
  ELSE ChTake(AddChunk(ReadExp(q, blen, c)), blen)

-----------------------------------------------------------------------------
\* What is sent is kept beside the request while a call runs.
Run(q, out) == [q |-> q, out |-> out]
Pushed(q, data) == [q EXCEPT !.buf = @ \o data, !.filled = @ + Len(data)]

\* xfer_send: the network takes c.net of it; the speed limit is for the body only
HeadsIn(data) == Len(SelectSeq(data, LAMBDA tok : tok.t = "head"))
Limited(data) ==
  IF sending.speed = 0 \/ Len(data) - HeadsIn(data) <= sending.speed THEN data
  ELSE Take(data, HeadsIn(data) + sending.speed)
Wrote(r, blen, n) ==
  [q |-> [r.q EXCEPT !.eosSent = @ \/ (r.q.eosRead /\ blen = Len(r.q.buf) /\ n = blen),
                     !.buf = Drop(@, n), !.filled = IF n = Len(r.q.buf) THEN 0 ELSE @,
                     !.written = @ + n - HeadsIn(Take(r.q.buf, n))],
   out |-> r.out \o Take(r.q.buf, n)]
BufferFlush(r, c) ==
  LET blen == Len(Limited(r.q.buf)) IN Wrote(r, blen, Lesser(c.net, blen))

\* req_set_upload_done
UploadDone(q) ==
  [q EXCEPT !.uploadDone = TRUE, !.keep = @ \ {"send", "sendTimed"},
            !.buf = IF q.aborted THEN <<>> ELSE @, !.filled = IF q.aborted THEN 0 ELSE @,
            !.exp = IF q.exp = "none" THEN "none" ELSE IF q.aborted THEN "failed" ELSE "send"]
\* Curl_req_abort_sending
AbortSending(q) ==
  IF q.uploadDone THEN q
  ELSE UploadDone([q EXCEPT !.aborted = TRUE, !.keep = @ \ {"send", "sendPause"}])

\* req_flush
Flushed(r) ==
  IF r.q.buf # <<>> \/ ~r.q.eosRead \/ r.q.uploadDone THEN r
  ELSE [r EXCEPT !.q = UploadDone([r.q EXCEPT !.eosSent = TRUE])]
Flush(r, c) == Flushed(IF r.q.buf = <<>> THEN r ELSE BufferFlush(r, c))

\* Curl_req_send_more
CanFill(q) == ~q.aborted /\ ~q.eosRead /\ "sendPause" \notin q.keep /\ q.filled < BufSize
Filled(q) == IF q.res # "ok" THEN q
             ELSE [Pushed(q, q.got) EXCEPT !.eosRead = @ \/ q.eos, !.got = <<>>, !.eos = FALSE]
FlushIfOk(r, c) == IF r.q.res = "ok" THEN Flush(r, c) ELSE r
SendMore(r, c) ==
  FlushIfOk(IF CanFill(r.q) THEN [r EXCEPT !.q = Filled(ReadTop(r.q, BufSize - r.q.filled, c))] ELSE r, c)

WantSend(q) == ~q.done /\ (q.keep \cap {"send", "sendPause"} = {"send"} \/ q.buf # <<>>)
DoneSending(q) == q.uploadDone /\ ~WantSend(q)

-----------------------------------------------------------------------------
\* Bug variant: the body is not asked for again from its start.
NeedsRewindNever(q) == FALSE

\* http_perhapsrewind: before the request is sent again
NeedsRewind(q) == q.used
Remaining(q) == Len(sending.body) - q.written
PerhapsRewind(q) ==
  LET p == [q EXCEPT !.rewind = @ \/ NeedsRewind(q)]
  IN  IF q.close \/ q.uploadDone \/ (~Chunked /\ Remaining(q) < Little) THEN p
      ELSE [p EXCEPT !.close = TRUE]

\* http_on_response for a final status of 300 or more, when a body is sent
Refused(q, code) ==
  IF q.close \/ q.rewind \/ DoneSending(q) THEN q
  ELSE IF code = 417 /\ q.exp # "none"
  THEN [AbortSending(IF q.written = 0 /\ q.exp = "awaiting" THEN q
                     ELSE PerhapsRewind([q EXCEPT !.close = TRUE]))
          EXCEPT !.disableExpect = TRUE, !.newurl = TRUE]
  ELSE IF sending.keepSending THEN [Continue(q) EXCEPT !.told = TRUE]
  ELSE AbortSending([q EXCEPT !.close = TRUE])
KeepTossing(q) == IF q.rewind /\ ~DoneSending(q) THEN [q EXCEPT !.keep = @ \cup {"send"}] ELSE q
\* http_firstwrite
FirstWrite(q) == IF q.newurl /\ q.close THEN [q EXCEPT !.keep = @ \ {"recv"}, !.done = TRUE] ELSE q
Final(q, code) ==
  LET p == IF code = 307 THEN PerhapsRewind([q EXCEPT !.newurl = TRUE]) ELSE q
  IN  FirstWrite(IF code < 300 THEN p ELSE KeepTossing(Refused(p, code)))

\* sendrecv_dl: one thing the server said
EndOfAnswer == 0
Heard(q, said) ==
  IF q.done \/ "recv" \notin q.keep THEN q
  ELSE CASE said = EndOfAnswer -> [q EXCEPT !.keep = @ \ {"recv"}]
         [] said = 100 -> [Continue(q) EXCEPT !.told = TRUE]
         [] OTHER -> Final(q, said)
StopIfClosing(q) ==
  IF ~q.done /\ q.keep \cap {"recv", "send"} = {"send"} /\ q.close THEN AbortSending(q) ELSE q

\* Curl_sendrecv: it reads, then it sends
Blocked(q) ==
  IF "send" \notin q.keep THEN {"recv", "recvPause"} \subseteq q.keep
  ELSE IF "recv" \notin q.keep THEN "sendPause" \in q.keep
  ELSE {"recvPause", "sendPause"} \subseteq q.keep
NothingKept(q) == q.keep \cap {"recv", "recvPause", "send", "sendPause"} = {}
SendIfWanted(r, c) ==
  IF ~r.q.done /\ (WantSend(r.q) \/ "sendTimed" \in r.q.keep) THEN SendMore(r, c) ELSE r
MaybeDone(r) == IF r.q.res = "ok" /\ NothingKept(r.q) THEN [r EXCEPT !.q.done = TRUE] ELSE r
SendRecv(r, c, heard) == MaybeDone(SendIfWanted([r EXCEPT !.q = StopIfClosing(FoldLeft(Heard, @, heard))], c))

-----------------------------------------------------------------------------
Init ==
  /\ sending \in SendOptions
  /\ snd = Fresh(0, sending.expect) /\ sent = <<>> /\ replies = <<>>
  /\ server = [continued |-> FALSE, final |-> 0, ended |-> FALSE]
  /\ attempt = 0 /\ outcome = "on" /\ owing = FALSE

\* what the callback and the network do in this call
Moves == {[cb |-> m[1], n |-> m[2], net |-> k] :
            m \in {<<"give", 1>>, <<"give", 2>>, <<"pause", 1>>, <<"abort", 1>>}, k \in {0, 1, 3}}
Becomes(r) ==
  /\ snd' = [r.q EXCEPT !.got = <<>>, !.eos = FALSE, !.res = "ok"]
  /\ sent' = r.out
  /\ outcome' = IF r.q.res = "ok" THEN "on" ELSE r.q.res

\* Curl_req_send: a request without a body is sent directly
Direct(r, c) ==
  Wrote([r EXCEPT !.q = Pushed([@ EXCEPT !.eosRead = TRUE], Heads)], Len(Heads), Lesser(c.net, Len(Heads)))
SendRest(r, c) == IF r.q.buf = <<>> THEN r ELSE SendMore(r, c)
Begin(c) ==
  /\ outcome = "on" /\ ~snd.begun
  /\ LET r == Run([snd EXCEPT !.begun = TRUE], <<>>)
     IN  Becomes(IF ~Chunked /\ sending.body = <<>> THEN SendRest(Direct(r, c), [c EXCEPT !.net = 0])
                 ELSE SendMore([r EXCEPT !.q = Pushed(@, Heads)], c))
  /\ attempt' = attempt + 1
  /\ UNCHANGED <<sending, server, replies, owing>>

Perform(c, heard) ==
  /\ outcome = "on" /\ snd.begun /\ ~snd.done /\ ~Blocked(snd)
  /\ Becomes(SendRecv(Run(snd, sent), c, Take(replies, heard)))
  /\ replies' = Drop(replies, heard)
  /\ UNCHANGED <<sending, server, attempt, owing>>

\* the wait for "100 Continue" has lasted long enough
Expire ==
  /\ outcome = "on" /\ snd.exp = "awaiting" /\ ~snd.expired
  /\ snd' = [snd EXCEPT !.expired = TRUE, !.told = TRUE]
  /\ UNCHANGED <<sending, sent, server, replies, attempt, outcome, owing>>

\* multi_done, and multi_follow if the request is to be sent again: the reader is
\* rewound if that was asked for
Whole(out) ==
  /\ SelectSeq(out, LAMBDA tok : tok.t \notin {"size", "last"}) = Heads \o Converted(sending.body)
  /\ Chunked => Last(out).t = "last"
Held(q) == sending.expect /\ q.written = 0 /\ server.final # 0
Rewound(q) == IF q.rewind /\ q.used THEN 0 ELSE q.at
Done(c) ==
  /\ outcome = "on" /\ snd.done
  /\ LET r == Flush(Run(snd, sent), c)
     IN  /\ owing' = (owing \/ (~snd.close /\ ~Whole(r.out) /\ ~Held(r.q)))
         /\ IF snd.newurl /\ attempt < MaxAttempts
            THEN /\ snd' = Fresh(Rewound(snd), sending.expect /\ ~snd.disableExpect)
                 /\ sent' = <<>> /\ replies' = <<>> /\ server' = [continued |-> FALSE, final |-> 0, ended |-> FALSE]
                 /\ outcome' = "on"
            ELSE /\ snd' = r.q /\ sent' = r.out /\ outcome' = "done"
                 /\ UNCHANGED <<replies, server>>
  /\ UNCHANGED <<sending, attempt>>

\* the application pauses and unpauses
PauseRecv ==
  /\ outcome = "on" /\ snd.begun /\ "recvPause" \notin snd.keep
  /\ snd' = [snd EXCEPT !.keep = @ \cup {"recvPause"}]
  /\ UNCHANGED <<sending, sent, server, replies, attempt, outcome, owing>>
Unpause ==
  /\ outcome = "on" /\ snd.keep \cap {"sendPause", "recvPause"} # {}
  /\ snd' = [snd EXCEPT !.keep = @ \ {"sendPause", "recvPause"}]
  /\ UNCHANGED <<sending, sent, server, replies, attempt, outcome, owing>>

\* The server, once it has the headers: it may ask for the body, and answers when it
\* likes, at the latest when it has the request.
HasHeads == Len(sent) >= Len(Heads)
SayContinue ==
  /\ HasHeads /\ sending.expect /\ ~server.continued /\ server.final = 0
  /\ server' = [server EXCEPT !.continued = TRUE] /\ replies' = Append(replies, 100)
  /\ UNCHANGED <<sending, snd, sent, attempt, outcome, owing>>
Answer(code) ==
  /\ HasHeads /\ server.final = 0 /\ (code = 417 => sending.expect)
  /\ server' = [server EXCEPT !.final = code] /\ replies' = Append(replies, code)
  /\ UNCHANGED <<sending, snd, sent, attempt, outcome, owing>>
EndAnswer ==
  /\ server.final # 0 /\ ~server.ended
  /\ server' = [server EXCEPT !.ended = TRUE] /\ replies' = Append(replies, EndOfAnswer)
  /\ UNCHANGED <<sending, snd, sent, attempt, outcome, owing>>

Next ==
  \/ \E c \in Moves : Begin(c) \/ Done(c) \/ \E heard \in 0..Len(replies) : Perform(c, heard)
  \/ Expire \/ PauseRecv \/ Unpause
  \/ SayContinue \/ EndAnswer \/ \E code \in Answers : Answer(code)

Spec == Init /\ [][Next]_sendingVars

-----------------------------------------------------------------------------
Tokens == {Token(t, n) : t \in {"head", "byte", "cr", "lf", "size", "last"}, n \in 0..9}
TypeOK ==
  /\ sending \in SendOptions /\ sent \in Seq(Tokens)
  /\ snd.buf \in Seq(Tokens) /\ snd.lcBuf \in Seq(Tokens) /\ snd.chBuf \in Seq(Tokens)
  /\ snd.keep \subseteq {"recv", "send", "recvPause", "sendPause", "sendTimed"}
  /\ snd.exp \in {"none", "sending", "awaiting", "send", "failed"}
  /\ snd.read <= snd.at /\ snd.at <= Len(sending.body)
  /\ replies \in Seq({EndOfAnswer, 100} \cup Answers) /\ attempt \in 0..MaxAttempts
  /\ outcome \in {"on", "done", "read", "aborted"} /\ owing \in BOOLEAN

\* What the server has got is the beginning of the headers and the body, converted as
\* asked, in order and without gaps, across pauses, partial writes, the wait for "100
\* Continue", chunks and repetitions of the request.
Plain(out) == SelectSeq(out, LAMBDA tok : tok.t \notin {"size", "last"})
InOrder == IsPrefix(Plain(sent), Heads \o Converted(sending.body))

\* Each chunk has as many bytes as it says, and nothing follows the last one.
ChunksFit ==
  \A i \in DOMAIN sent :
    /\ sent[i].t = "size" =>
         LET end == i + sent[i].n
         IN  /\ \A j \in (i + 1)..Lesser(end, Len(sent)) : sent[j].t \notin {"head", "size", "last"}
             /\ end < Len(sent) => sent[end + 1].t \in {"size", "last"}
    /\ sent[i].t = "last" => i = Len(sent)

\* An upload that is done is complete unless it was aborted, and then nothing is left.
DoneIsWhole ==
  /\ snd.uploadDone /\ ~snd.aborted => snd.eosSent /\ Whole(sent)
  /\ snd.uploadDone => snd.buf = <<>> /\ "send" \notin snd.keep

\* While the request runs and nothing is paused, it waits for the time, or for an answer
\* to a request that is complete, or the next call goes on with it.
Runs == outcome = "on" /\ snd.begun /\ snd.keep \cap {"sendPause", "recvPause"} = {}
Prompt == [n |-> 2, cb |-> "give", net |-> 3]
GoesOn(r) == r.q.res # "ok" \/ [r.q EXCEPT !.got = <<>>, !.eos = FALSE] # snd \/ r.out # sent
NeverStuck ==
  Runs => \/ snd.done \/ (snd.exp = "awaiting" /\ ~snd.expired)
          \/ IF server.final = 0 THEN Whole(sent) ELSE ~server.ended
          \/ ~Blocked(snd) /\ (replies # <<>> \/ GoesOn(SendRecv(Run(snd, sent), Prompt, <<>>)))

NotUnasked == (\E i \in DOMAIN sent : IsBody(sent[i])) => snd.told

\* No body before the server or the time said so; the callback is not called while
\* it has paused or after an abort; a connection is kept only for a request that was sent
\* completely, or that was answered while its body was held back; it is never stuck.
SendingRight == InOrder /\ ChunksFit /\ DoneIsWhole /\ NotUnasked /\ ~snd.amiss /\ ~owing /\ NeverStuck
=============================================================================
