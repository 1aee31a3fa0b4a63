--------------------------------- MODULE Writers ---------------------------------
(***************************************************************************)
(* What takes a response to the application's callbacks (lib/sendf.c,      *)
(* lib/cw-pause.c, lib/cw-out.c): the download writer counts, the pause    *)
(* writer holds back what comes while the application has paused, the out  *)
(* writer calls and keeps what a callback that paused did not take.        *)
(*                                                                         *)
(* One action is one call into libcurl.  In it the application's callback  *)
(* takes what it is given some times and then, for a choice, pauses or     *)
(* fails.  A byte of the body and a header line is its number; a body that *)
(* is decoded gets longer.                                                 *)
(***************************************************************************)
EXTENDS Naturals, Sequences, SequencesExt

CONSTANTS
  WriterOptions,   \* include_header, a header callback, content decoding, Content-Length
  NoLength,        \* maxdownload, if there is no limit
  MaxWrite,        \* CURL_MAX_WRITE_SIZE: the most that a body callback gets
  DecodeChunk,     \* CW_PAUSE_DEC_WRITE_CHUNK: the most that is decoded at once
  PauseChunk,      \* CW_PAUSE_BUF_CHUNK
  PauseMax,        \* DYN_PAUSE_BUFFER: the most that the out writer keeps
  Expansion,       \* how many bytes a decoded byte becomes
  MaxReceived,     \* bound: bytes and lines received
  CallbackFails    \* whether callbacks may fail

VARIABLES
  options,         \* the options
  cw,              \* the writers: see Fresh
  passed,          \* what the download writer let pass: bytes of the body, and lines
  received,        \* how many bytes and lines there were
  bytecount,       \* bytes of the body
  cwPhase          \* "on", "ends" after the end of the response, "done"

\* A header that is kept fits its buffer, and a decoded piece is not less than its source.
WritersConstants ==
  /\ {MaxWrite, DecodeChunk, PauseChunk, PauseMax, Expansion} \subseteq Nat \ {0} /\ MaxReceived \in Nat
  /\ CallbackFails \in BOOLEAN
  /\ \A o \in WriterOptions : o.length \in (Nat \ {0}) \cup {NoLength}

writersVars == <<options, cw, passed, received, bytecount, cwPhase>>

-----------------------------------------------------------------------------
Fresh == [out |-> <<>>,          \* cw_out_ctx buf, oldest first: type and data
          held |-> <<>>,         \* cw_pause_ctx buf, oldest first
          paused |-> FALSE, errored |-> FALSE,
          told |-> <<>>,         \* the calls that took what they were given
          failed |-> FALSE,      \* a callback has failed
          after |-> FALSE,       \* and one was called after that
          amiss |-> FALSE,       \* one was called while the transfer was paused
          left |-> 0, bad |-> "pause",  \* how many calls succeed, and what the next does
          res |-> "ok", rest |-> <<>>]

Lesser(a, b) == IF a < b THEN a ELSE b
Drop(s, n) == SubSeq(s, n + 1, Len(s))
Take(s, n) == SubSeq(s, 1, n)
Piece(type, data) == [type |-> type, data |-> data]
Longer(s) == FlattenSeq([i \in DOMAIN s |-> [j \in 1..Expansion |-> s[i]]])
OutLen(c) == FoldLeft(LAMBDA n, b : n + Len(b.data), 0, c.out)

\* cw_out_cb_write
Call(c, type, data) ==
  LET d == [c EXCEPT !.after = @ \/ c.failed, !.amiss = @ \/ c.paused]
  IN  IF c.left > 0 THEN [d EXCEPT !.told = Append(@, Piece(type, data)), !.left = @ - 1, !.res = "ok"]
      ELSE IF c.bad = "pause" THEN [d EXCEPT !.paused = TRUE, !.res = "again"]
      ELSE [d EXCEPT !.failed = TRUE, !.res = "write"]

\* cw_out_ptr_flush: `rest' is what was not taken
RECURSIVE PtrFlush(_, _, _)
PtrFlush(c, type, data) ==
  IF c.errored THEN [c EXCEPT !.res = "write", !.rest = data]
  ELSE IF type = "hds" /\ ~options.hds THEN [c EXCEPT !.res = "ok", !.rest = <<>>]
  ELSE IF data = <<>> \/ c.paused THEN [c EXCEPT !.res = "ok", !.rest = data]
  ELSE LET n == IF type = "hds" THEN Len(data) ELSE Lesser(MaxWrite, Len(data))
           d == Call(c, type, Take(data, n))
       IN  IF d.res # "ok" THEN [d EXCEPT !.rest = data] ELSE PtrFlush(d, type, Drop(data, n))

\* cw_out_flush_chain: the oldest first, until the chain is empty or a callback pauses
RECURSIVE FlushChain(_)
FlushChain(c) ==
  IF c.out = <<>> \/ c.paused THEN [c EXCEPT !.res = "ok"]
  ELSE LET d == PtrFlush(c, c.out[1].type, c.out[1].data)
       IN  IF d.res = "write" THEN d
           ELSE IF d.rest = <<>> THEN FlushChain([d EXCEPT !.out = Tail(@)])
           ELSE [d EXCEPT !.out = <<Piece(@[1].type, d.rest)>> \o Tail(@), !.res = "ok"]

\* Bug variant: a header is appended to one that is kept.
OwnBufferNever(c, type) == c.out = <<>> \/ Last(c.out).type # type

\* Headers are replayed exactly as they came in.
OwnBuffer(c, type) == c.out = <<>> \/ Last(c.out).type # type \/ type = "hds"

\* cw_out_append
Appended(c, type, data) ==
  IF OutLen(c) + Len(data) > PauseMax THEN [c EXCEPT !.res = "large"]
  ELSE [c EXCEPT !.res = "ok", !.out = IF OwnBuffer(c, type) THEN Append(@, Piece(type, data))
                                       ELSE Front(@) \o <<Piece(type, Last(@).data \o data)>>]

\* cw_out_do_write
Errored(c) == IF c.res = "ok" THEN c ELSE [c EXCEPT !.errored = TRUE, !.out = <<>>]
AppendFlush(c, type, data) ==
  LET d == Appended(c, type, data) IN Errored(IF d.res = "ok" THEN FlushChain(d) ELSE d)
Direct(d, type) ==
  IF d.res = "write" THEN d
  ELSE IF d.rest = <<>> THEN [d EXCEPT !.res = "ok"]
  ELSE Errored(Appended(d, type, d.rest))
WriteBehind(c, type, data) ==
  IF c.res # "ok" THEN Errored(c)
  ELSE IF c.out # <<>> THEN AppendFlush(c, type, data)
  ELSE Direct(PtrFlush(c, type, data), type)
DoWrite(c, type, data) ==
  WriteBehind(IF c.out # <<>> /\ Last(c.out).type # type THEN FlushChain(c) ELSE c, type, data)

\* cw_out_write, and the decoder before it
HeaderAfter(c, data) == IF c.res # "ok" THEN c ELSE DoWrite(c, "hds", data)
OutWrite(c, type, data) ==
  IF type # "header" THEN DoWrite(c, "body", IF options.decoding THEN Longer(data) ELSE data)
  ELSE HeaderAfter(IF options.include THEN DoWrite(c, "body", data) ELSE c, data)

-----------------------------------------------------------------------------
\* cw_pause_flush: what was held back goes to the out writer, one piece after another,
\* until the transfer is paused again.  A piece is gone whether or not it was taken.
Passing(type, data, chunk) ==
  IF options.decoding /\ type # "header" THEN Lesser(DecodeChunk, Len(data)) ELSE Lesser(chunk, Len(data))
Skipped(c, n) ==
  IF n = Len(c.held[1].data) /\ c.res = "ok" THEN [c EXCEPT !.held = Tail(@)]
  ELSE [c EXCEPT !.held = <<Piece(@[1].type, Drop(@[1].data, n))>> \o Tail(@)]
RECURSIVE HeldFlush(_)
FlushOn(c) == IF c.res = "ok" THEN HeldFlush(c) ELSE c
HeldFlush(c) ==
  IF c.held = <<>> \/ c.paused THEN c
  ELSE LET b == c.held[1]
           n == Passing(b.type, b.data, IF b.type = "header" THEN Len(b.data) ELSE PauseChunk)
       IN  IF b.data = <<>> /\ b.type # "eos" THEN HeldFlush([c EXCEPT !.held = Tail(@)])
           ELSE FlushOn(Skipped(OutWrite(c, b.type, Take(b.data, n)), n))

\* cw_pause_write
Held(c, type, data) ==
  [c EXCEPT !.held = IF @ # <<>> /\ Last(@).type = type /\ type # "header"
                     THEN Front(@) \o <<Piece(type, Last(@).data \o data)>>
                     ELSE Append(@, Piece(type, data))]
RECURSIVE WriteOn(_, _, _)
WrittenOn(c, type, rest) == IF c.res # "ok" \/ rest = <<>> THEN c ELSE WriteOn(c, type, rest)
WriteOn(c, type, data) ==
  IF c.held # <<>> \/ c.paused THEN Held(c, type, data)
  ELSE LET n == Passing(type, data, Len(data))
       IN  WrittenOn(OutWrite(c, type, Take(data, n)), type, Drop(data, n))
PauseWrite(c, type, data) ==
  IF c.held = <<>> \/ c.paused THEN WriteOn(c, type, data)
  ELSE LET d == HeldFlush(c) IN IF d.res = "ok" THEN WriteOn(d, type, data) ELSE d

\* cw_out_flush after cw_pause_flush: at unpausing, and at the end
OutFlush(c) ==
  IF c.res # "ok" THEN c
  ELSE IF c.errored THEN [c EXCEPT !.res = "write"]
  ELSE IF c.paused THEN c
  ELSE Errored(FlushChain(c))
Flushed(c) == OutFlush(HeldFlush(c))

-----------------------------------------------------------------------------
Init ==
  /\ options \in WriterOptions
  /\ cw = Fresh /\ passed = <<>> /\ received = 0 /\ bytecount = 0 /\ cwPhase = "on"

\* what the callbacks will do in this call
Outcomes == {<<n, bad>> : n \in 0..2, bad \in {"pause"} \cup (IF CallbackFails THEN {"fail"} ELSE {})}
Facing(o) == [cw EXCEPT !.left = IF o[1] = 2 THEN 99 ELSE o[1], !.bad = o[2], !.res = "ok", !.rest = <<>>]
\* what the call leaves
Settled(c) == [c EXCEPT !.left = 0, !.bad = "pause", !.rest = <<>>]

\* n bytes of the body reach cw_download_write.  What is more than the length is not
\* passed on; at the length the download is done.
Allowed(n) == IF options.length = NoLength THEN n ELSE Lesser(n, options.length - bytecount)
Body(n, o) ==
  /\ cwPhase = "on" /\ received + n <= MaxReceived /\ cw.res = "ok"
  /\ LET data == [i \in 1..Allowed(n) |-> received + i]
         c == IF data = <<>> THEN Facing(o) ELSE PauseWrite(Facing(o), "body", data)
     IN  /\ cw' = Settled(c)
         /\ passed' = passed \o [i \in DOMAIN data |-> Piece("body", data[i])]
         /\ bytecount' = IF c.res = "ok" THEN bytecount + Len(data) ELSE bytecount
         /\ cwPhase' = IF options.length # NoLength /\ bytecount + Len(data) = options.length THEN "ends" ELSE "on"
  /\ received' = received + n
  /\ UNCHANGED options

\* a header line, a trailer or a server's reply
HeaderLine(o) ==
  /\ cwPhase = "on" /\ received < MaxReceived /\ cw.res = "ok"
  /\ cw' = Settled(PauseWrite(Facing(o), "header", <<received + 1>>))
  /\ passed' = Append(passed, Piece("header", received + 1))
  /\ received' = received + 1
  /\ UNCHANGED <<options, bytecount, cwPhase>>

\* the end of the response; bytes that are missing are an error
Eos(o) ==
  /\ cwPhase = "on" /\ cw.res = "ok"
  /\ cw' = IF options.length # NoLength /\ bytecount < options.length THEN [cw EXCEPT !.res = "partial"]
           ELSE Settled(PauseWrite(Facing(o), "eos", <<>>))
  /\ cwPhase' = "ends"
  /\ UNCHANGED <<options, passed, received, bytecount>>

\* curl_easy_pause takes the pause back.  An error is returned to the application; the
\* transfer goes on.
Unpause(o) ==
  /\ cwPhase # "done" /\ cw.paused /\ cw.res = "ok"
  /\ cw' = [Settled(Flushed([Facing(o) EXCEPT !.paused = FALSE])) EXCEPT !.res = "ok"]
  /\ UNCHANGED <<options, passed, received, bytecount, cwPhase>>

\* multi_done calls Curl_cw_out_done: when all is received and the transfer is not
\* paused, or after an error, whatever it was
Ended(o) ==
  /\ cwPhase # "done"
  /\ cw.res # "ok" \/ (cwPhase = "ends" /\ ~cw.paused)
  /\ LET c == Flushed(Facing(o))
     IN  cw' = [Settled(c) EXCEPT !.res = IF cw.res # "ok" THEN cw.res ELSE c.res]
  /\ cwPhase' = "done"
  /\ UNCHANGED <<options, passed, received, bytecount>>

Next ==
  \E o \in Outcomes :
    \/ \E n \in 1..MaxReceived : Body(n, o)
    \/ HeaderLine(o) \/ Eos(o) \/ Unpause(o) \/ Ended(o)

Spec == Init /\ [][Next]_writersVars

-----------------------------------------------------------------------------
OutPieces == Seq([type : {"body", "hds"}, data : Seq(Nat)])
TypeOK ==
  /\ options \in WriterOptions
  /\ cw.out \in OutPieces /\ cw.told \in OutPieces
  /\ cw.held \in Seq([type : {"body", "header", "eos"}, data : Seq(Nat)])
  /\ \A f \in {"paused", "errored", "failed", "after", "amiss"} : cw[f] \in BOOLEAN
  /\ cw.res \in {"ok", "write", "large", "partial"}
  /\ received \in 0..MaxReceived /\ bytecount \in 0..MaxReceived
  /\ cwPhase \in {"on", "ends", "done"}

\* one unit as the callbacks should get it, and all units of a list of pieces
Due(type, u) ==
  IF type = "header" THEN (IF options.include THEN <<Piece("body", u)>> ELSE <<>>)
                          \o (IF options.hds THEN <<Piece("hds", u)>> ELSE <<>>)
  ELSE [i \in 1..(IF options.decoding THEN Expansion ELSE 1) |-> Piece("body", u)]
DueFor(units) == FlattenSeq([i \in DOMAIN units |-> Due(units[i].type, units[i].data)])
Units(pieces) == FlattenSeq([i \in DOMAIN pieces |->
                   [j \in DOMAIN pieces[i].data |-> Piece(pieces[i].type, pieces[i].data[j])]])

\* Headers are kept even if no callback wants them.
Heard(units) == SelectSeq(units, LAMBDA u : u.type = "body" \/ options.hds)

\* Without errors, what the callbacks took, what the out writer keeps for them and what
\* the pause writer holds back are together what was received: nothing is lost, told
\* twice or out of order, across all pauses and between body and headers.
InOrder ==
  ~cw.failed /\ cw.res = "ok" /\ ~cw.errored =>
    Units(cw.told) \o Heard(Units(cw.out)) \o DueFor(Units(cw.held)) = DueFor(passed)

\* Nothing is kept for a transfer that is not paused; a transfer that succeeds has
\* told everything.
NothingKept == ~cw.paused /\ ~cw.failed /\ cw.res = "ok" /\ ~cw.errored => cw.out = <<>> /\ cw.held = <<>>

\* A header callback gets one line, whole; a body callback no more than it may; none is
\* called while the transfer is paused; what the out writer keeps is bounded.
AsPromised ==
  /\ \A i \in DOMAIN cw.told :
       IF cw.told[i].type = "hds" THEN Len(cw.told[i].data) = 1 ELSE Len(cw.told[i].data) \in 1..MaxWrite
  /\ ~cw.amiss
  /\ OutLen(cw) <= PauseMax

WritersRight == InOrder /\ NothingKept /\ AsPromised

\* "We do not want to invoked client callbacks a second time after encountering an
\* error." (cw-out.c:431-432)
NoneAfterError == ~cw.after
=============================================================================
